--------------------------- MODULE OmemoInvariant ---------------------------
(***************************************************************************)
(* The inductive invariant of OmemoManager, and what a step keeps of it that *)
(* grows the set of key pairs and writes one session or sends one message  *)
(* at most.                                                                *)
(*                                                                         *)
(* The argument is about fresh keys.  Every root key that a device sends   *)
(* under contains a key pair that it made for that root key alone, so two  *)
(* root keys are the same only if one was copied from the other, and a     *)
(* device copies only within the sessions with one peer.  A session that   *)
(* the responder builds contains the one-time pre-key it was built with,   *)
(* and as long as that key is in the store no returned message does.       *)
(***************************************************************************)
EXTENDS OmemoManager, OmemoRatchetProofs

\* Key pairs that were made so far, by anyone and by d.
Made == {k \in Keys : k[2] <= made[k[1]]}

MadeBy(d) == {k \in Made : k[1] = d}

\* One-time pre-keys of d that no session was built with, and the other keys.
Unused(d) == {opks[d][i] : i \in DOMAIN opks[d] \ kept[d]}

Usable(d) == {k \in Made : k \notin Unused(d)}

PreKeyMessages(d) == [id : Ids \cup {NoPreKey}, ek : MadeBy(d)]

\* The sessions of d with p: the one in memory and the one a restart loads.
Session(d, p, s) == s # NoSession /\ (s = sessions[d][p] \/ s = saved[d][p])

\* root starts with rk.
StartsWith(root, rk) ==
    Len(rk) <= Len(root) /\ \A i \in 1 .. Len(rk) : root[i] = rk[i]

\* The root key of a device that got an answer from p or was asked by p: only
\* the first root key of an initiator is neither.
Answered(p, root) == Len(root) >= 6 \/ IK(p) \in root[1]

\* What d knows of pre when it sends to p under the root key root.
PreOK(d, p, pre, root) ==
    IF pre = NoPending THEN Answered(p, root)
    ELSE pre \in PreKeyMessages(d) /\ root[2] = {pre.ek, IK(p)}

SessionOK(d, p, s) ==
    /\ DOMAIN s = {"ratchet", "pending"}
    /\ RatchetInv(s.ratchet, Usable(d))
    /\ s.ratchet.DHs \in MadeBy(d)
    /\ PreOK(d, p, s.pending, s.ratchet.RK)
    /\ \/ Answered(p, s.ratchet.RK)
       \/ \A c : c.n \in Nat /\ CanDerive(s.ratchet, c) => c.root = <<>>

BundleOK(p, b) ==
    /\ DOMAIN b = {"ik", "spk", "preKeys"}
    /\ b.ik = IK(p) /\ b.spk \in MadeBy(p)
    /\ b.preKeys \in Seq([id : Ids, key : MadeBy(p)])

\* Tables by device and peer.
IsTable(f) == DOMAIN f = Devices /\ \A d \in Devices : DOMAIN f[d] = Devices

IsFunction(f) == f = [i \in DOMAIN f |-> f[i]]

Shapes ==
    /\ made \in [Devices -> Nat]
    /\ IsTable(sessions) /\ IsTable(saved) /\ IsTable(bundles)
    /\ DOMAIN spk = Devices /\ DOMAIN opks = Devices /\ DOMAIN published = Devices
    /\ DOMAIN kept = Devices
    /\ \A d \in Devices : IsFunction(opks[d])
    /\ calls \in Nat /\ calls <= MaxSent
    /\ returned \in [1 .. MaxSent -> Nat]
    /\ \A i \in 1 .. MaxSent : i > calls => returned[i] = 0
    /\ failed \subseteq 1 .. calls

\* The store of d and the bundles made from it.
StoreOK(d) ==
    /\ spk[d] \in MadeBy(d) /\ spk[d] # IK(d)
    /\ \A i \in DOMAIN opks[d] :
        /\ opks[d][i] \in MadeBy(d) /\ opks[d][i] # IK(d) /\ opks[d][i] # spk[d]
        /\ \A j \in DOMAIN opks[d] : opks[d][i] = opks[d][j] => i = j
    /\ BundleOK(d, published[d])
    /\ \A p \in Devices : bundles[d][p] # NoBundle => BundleOK(p, bundles[d][p])

\* A message whose plaintext was returned and that cannot build its session again.
Spent(m) == returned[m.id] > 0 /\ ~Rebuilds(m)

MessageOK(m) ==
    /\ m.id \in 1 .. calls /\ m.from \in Devices /\ m.to \in Devices /\ m.from # m.to
    /\ m.header.dh \in MadeBy(m.from) /\ m.header.n \in Nat /\ m.header.pn \in Nat
    /\ m.key \in ChainsOver(Made) /\ Len(m.key.root) >= 4
    /\ PreOK(m.from, m.to, m.pre, m.key.root)
    /\ returned[m.id] > 1 => Rebuilds(m)
    /\ Spent(m) => m.key.root \in Roots(Usable(m.to))

\* Session s gives the key of m away neither now nor after Diffie-Hellman steps.
Closed(s, m) == ~CanDerive(s.ratchet, m.key) /\ ~StartsWith(m.key.root, s.ratchet.RK)

\* The pre-key information d attaches to messages for p is one for each ek.
Pending(d, p, pre) ==
    /\ pre # NoPending
    /\ \/ \E s : Session(d, p, s) /\ pre = s.pending
       \/ \E m \in net : m.from = d /\ m.to = p /\ pre = m.pre

Stores == \A d \in Devices : StoreOK(d)

Sessions ==
    \A d, p \in Devices : \A s : Session(d, p, s) => d # p /\ SessionOK(d, p, s)

Messages ==
    /\ \A m \in net : MessageOK(m)
    /\ \A m, n \in net : m.id = n.id \/ m.key = n.key => m = n

AllClosed == \A m \in net : \A s : Spent(m) /\ Session(m.to, m.from, s) => Closed(s, m)

Pendings ==
    \A d, p \in Devices : \A a, b :
        Pending(d, p, a) /\ Pending(d, p, b) /\ a.ek = b.ek => a = b

\* A root key belongs to one device and peer, and the sending chain of each
\* session with it is ahead of the messages.
RootKeys ==
    /\ \A d, p, e, q \in Devices : \A s, t :
        Session(d, p, s) /\ Session(e, q, t) /\ s.ratchet.RK = t.ratchet.RK => d = e /\ p = q
    /\ \A d, p \in Devices : \A s : \A m \in net :
        Session(d, p, s) /\ m.key.root = s.ratchet.RK
            => m.from = d /\ m.to = p /\ m.key.n < s.ratchet.CKs.n

Inv == Shapes /\ Stores /\ Sessions /\ Messages /\ AllClosed /\ Pendings /\ RootKeys

-----------------------------------------------------------------------------
(* Keys. *)

\* GenerateX25519KeyPair returns pairs that nobody has (keys.go:30).
LEMMA FreshKeys ==
    ASSUME made \in [Devices -> Nat], NEW d \in Devices, NEW i \in Nat, i >= 1
    PROVE  Fresh(d, i) \in Keys /\ Fresh(d, i)[1] = d /\ Fresh(d, i) \notin Made
BY DEF Fresh, Keys, Made

\* An identity key is the first pair of its device.
LEMMA IdentityKeys ==
    ASSUME made \in [Devices -> Nat], NEW d \in Devices
    PROVE  IK(d) \in MadeBy(d) /\ \A e \in Devices : IK(d) = IK(e) => d = e
BY DEF IK, MadeBy, Made, Keys

\* The pairs of one device, and those that are no unused pre-keys, were made.
LEMMA MadeByMade ==
    ASSUME NEW d
    PROVE  MadeBy(d) \subseteq Made /\ Usable(d) \subseteq Made /\ Made \subseteq Keys
BY Zenon DEF MadeBy, Usable, Made

\* A key of another device, the identity key and the signed pre-key are no
\* one-time pre-keys.
LEMMA UsableKeys ==
    ASSUME made \in [Devices -> Nat], NEW d \in Devices, StoreOK(d)
    PROVE  /\ IK(d) \in Usable(d) /\ spk[d] \in Usable(d)
           /\ \A e \in Devices : e # d => MadeBy(e) \subseteq Usable(d)
BY IdentityKeys DEF StoreOK, Usable, Unused, MadeBy

\* A step in which keys are only added and none becomes unused.
Grows ==
    /\ made' \in [Devices -> Nat]
    /\ Made \subseteq Made'
    /\ \A d \in Devices :
        /\ MadeBy(d) \subseteq MadeBy(d)' /\ Usable(d) \subseteq Usable(d)'
        /\ kept[d] \subseteq kept'[d]

\* Pairs are only added, and a one-time pre-key that counts as unused after the
\* step is new or counted so before.
LEMMA GrowsWhen ==
    ASSUME made \in [Devices -> Nat], made' \in [Devices -> Nat],
           \A d \in Devices : made[d] <= made'[d],
           \A d \in Devices : kept[d] \subseteq kept'[d],
           \A d \in Devices : \A i \in DOMAIN opks'[d] \ kept'[d] :
                \/ opks'[d][i] \notin Made
                \/ i \in DOMAIN opks[d] /\ opks'[d][i] = opks[d][i]
    PROVE  Grows
<1>1. Made \subseteq Made'
  BY DEF Made, Keys
<1>2. ASSUME NEW d \in Devices
      PROVE  MadeBy(d) \subseteq MadeBy(d)' /\ Usable(d) \subseteq Usable(d)'
  <2>1. MadeBy(d) \subseteq MadeBy(d)'
    BY <1>1, Zenon DEF MadeBy
  <2>2. ASSUME NEW k \in Made, k \in Unused(d)' PROVE k \in Unused(d)
    <3>1. PICK i \in DOMAIN opks'[d] \ kept'[d] : k = opks'[d][i]
      BY <2>2, Zenon DEF Unused
    <3>2. i \in DOMAIN opks[d] \ kept[d] /\ k = opks[d][i]
      BY <3>1, Zenon
    <3> QED BY <3>2, Zenon DEF Unused
  <2> QED BY <1>1, <2>1, <2>2, Zenon DEF Usable
<1> QED BY <1>1, <1>2, Zenon DEF Grows

-----------------------------------------------------------------------------
(* What such a step leaves as it is. *)

\* A pre-key information that was right stays right when pairs are added ...
LEMMA PreGrows ==
    ASSUME Grows, NEW d \in Devices, NEW p, NEW pre, NEW root, PreOK(d, p, pre, root)
    PROVE  PreOK(d, p, pre, root)'
<1>1. MadeBy(d) \subseteq MadeBy(d)'
  BY Zenon DEF Grows
<1>2. PreKeyMessages(d) \subseteq PreKeyMessages(d)'
  BY <1>1, Zenon DEF PreKeyMessages
<1> QED BY <1>2, Zenon DEF PreOK, Answered, IK

\* ... a session too: its keys are still no unused pre-keys ...
LEMMA SessionGrows ==
    ASSUME Grows, NEW d \in Devices, NEW p, NEW s, SessionOK(d, p, s)
    PROVE  SessionOK(d, p, s)'
<1>1. MadeBy(d) \subseteq MadeBy(d)' /\ Usable(d) \subseteq Usable(d)'
  BY Zenon DEF Grows
<1>2. RatchetInv(s.ratchet, Usable(d)')
  BY <1>1, InvGrows, Zenon DEF SessionOK
<1>3. PreOK(d, p, s.pending, s.ratchet.RK)'
  BY PreGrows, Zenon DEF SessionOK
<1> QED BY <1>1, <1>2, <1>3, Zenon DEF SessionOK, Answered, IK

\* ... a bundle, wherever a copy of it is ...
LEMMA BundleGrows ==
    ASSUME Grows, NEW p \in Devices, NEW b, BundleOK(p, b)
    PROVE  BundleOK(p, b)'
<1>1. MadeBy(p) \subseteq MadeBy(p)'
  BY Zenon DEF Grows
<1>2. [id : Ids, key : MadeBy(p)] \subseteq [id : Ids, key : MadeBy(p)']
  BY <1>1, Zenon
<1>3. Seq([id : Ids, key : MadeBy(p)]) \subseteq Seq([id : Ids, key : MadeBy(p)'])
  BY <1>2, SeqGrows, Zenon
<1> QED BY <1>1, <1>3, Zenon DEF BundleOK

\* A message that can build its session again stays so: a pre-key whose removal
\* failed is never forgotten.
LEMMA RebuildsStays ==
    ASSUME Grows, NEW m, m.to \in Devices, Rebuilds(m)
    PROVE  Rebuilds(m)'
BY Zenon DEF Grows, Rebuilds

\* ... and a message on its way, unless its plaintext is returned in the step.
LEMMA MessageGrows ==
    ASSUME Grows, NEW m, MessageOK(m), calls \in Nat, calls' \in Nat, calls <= calls',
           returned'[m.id] = returned[m.id]
    PROVE  MessageOK(m)' /\ (Spent(m)' => Spent(m))
<1>1. m.from \in Devices /\ m.to \in Devices
  BY Zenon DEF MessageOK
<1>2. /\ Made \subseteq Made' /\ MadeBy(m.from) \subseteq MadeBy(m.from)'
      /\ Usable(m.to) \subseteq Usable(m.to)'
  BY <1>1, Zenon DEF Grows
<1>3. ChainsOver(Made) \subseteq ChainsOver(Made')
  BY <1>2, ChainsGrow, Zenon
<1>4. Roots(Usable(m.to)) \subseteq Roots(Usable(m.to)')
  BY <1>2, ChainsGrow, Zenon
<1>5. Spent(m)' => Spent(m)
  BY <1>1, RebuildsStays, Zenon DEF Spent
<1>6. PreOK(m.from, m.to, m.pre, m.key.root)'
  BY <1>1, PreGrows, Zenon DEF MessageOK
<1>7. (returned[m.id] > 1 => Rebuilds(m))'
  BY <1>1, RebuildsStays, Zenon DEF MessageOK
<1>8. m.id \in 1 .. calls'
  BY DEF MessageOK
<1> QED BY <1>1, <1>2, <1>3, <1>4, <1>5, <1>6, <1>7, <1>8, Zenon DEF MessageOK

-----------------------------------------------------------------------------
(* One session at most is written, and one message at most is sent. *)

\* After the step d's sessions with p are z or sessions from before, and all the
\* other sessions are from before.
Writes1(d, p, z) ==
    \A e, q \in Devices : \A s :
        Session(e, q, s)' => Session(e, q, s) \/ (e = d /\ q = p /\ s = z)

\* z sends under the root key of a session from before, or under a new one.
RootFrom(d, p, z) ==
    \/ z.ratchet.RK \notin Roots(Made)
    \/ \E t : /\ Session(d, p, t) /\ z.ratchet.RK = t.ratchet.RK
              /\ t.ratchet.CKs.n <= z.ratchet.CKs.n

\* Likewise its pre-key information.
PendingFrom(d, p, z) ==
    \/ z.pending = NoPending
    \/ z.pending.ek \notin Made
    \/ Pending(d, p, z.pending)

\* Sessions stay right when a right one is written.
LEMMA SessionsStep ==
    ASSUME Sessions, Grows, NEW d \in Devices, NEW p \in Devices, d # p, NEW z,
           Writes1(d, p, z), SessionOK(d, p, z)'
    PROVE  Sessions'
<1> SUFFICES ASSUME NEW e \in Devices, NEW q \in Devices, NEW s, Session(e, q, s)'
             PROVE  e # q /\ SessionOK(e, q, s)'
  BY Zenon DEF Sessions
<1>1. Session(e, q, s) \/ (e = d /\ q = p /\ s = z)
  BY Zenon DEF Writes1
<1>2. CASE Session(e, q, s)
  BY <1>2, SessionGrows, Zenon DEF Sessions
<1>3. CASE e = d /\ q = p /\ s = z
  BY <1>3, Zenon
<1> QED BY <1>1, <1>2, <1>3, Zenon

\* The root keys and chains in use are made of pairs that were made.
LEMMA KnownRoots ==
    ASSUME Sessions, Messages
    PROVE  /\ \A d, p \in Devices : \A s :
                Session(d, p, s) => /\ s.ratchet.RK \in Roots(Made) /\ s.ratchet.CKs.n \in Nat
                                    /\ s.ratchet.CKs.root = s.ratchet.RK
           /\ \A m \in net : m.key.root \in Roots(Made) /\ m.key.n \in Nat
<1>1. ASSUME NEW d \in Devices, NEW p \in Devices, NEW s, Session(d, p, s)
      PROVE  /\ s.ratchet.RK \in Roots(Made) /\ s.ratchet.CKs.n \in Nat
             /\ s.ratchet.CKs.root = s.ratchet.RK
  <2>1. RatchetInv(s.ratchet, Usable(d))
    BY <1>1, Zenon DEF Sessions, SessionOK
  <2>2. RatchetInv(s.ratchet, Made)
    BY <2>1, MadeByMade, InvGrows, Zenon
  <2> QED BY <2>2, Zenon DEF RatchetInv, RatchetBase, ChainsOver
<1>2. \A m \in net : m.key.root \in Roots(Made) /\ m.key.n \in Nat
  BY Zenon DEF Messages, MessageOK, ChainsOver
<1> QED BY <1>1, <1>2, Zenon

\* A message after the step was there before, or z sent it: then z is what both
\* the memory and the store hold.
Sends1(d, p, z) ==
    \A m \in net' :
        \/ m \in net
        \/ /\ m.from = d /\ m.to = p /\ m.pre = z.pending
           /\ m.key.root = z.ratchet.RK /\ m.key.n < z.ratchet.CKs.n
           /\ \A s : Session(d, p, s)' => s = z

\* A session that is written shares its root key with no other device or peer, and
\* its sending chain is ahead of every message under that root key.
LEMMA RootKeysStep ==
    ASSUME Sessions, Messages, RootKeys, NEW d \in Devices, NEW p \in Devices, NEW z,
           Writes1(d, p, z), RootFrom(d, p, z), z.ratchet.CKs.n \in Nat, Sends1(d, p, z)
    PROVE  RootKeys'
\* z against a session of another device or peer, and against the messages.
<1>1. ASSUME NEW e \in Devices, NEW q \in Devices, NEW s, Session(e, q, s),
             s.ratchet.RK = z.ratchet.RK
      PROVE  e = d /\ q = p
  <2>1. s.ratchet.RK \in Roots(Made)
    BY <1>1, KnownRoots, Zenon
  <2>2. PICK t : Session(d, p, t) /\ z.ratchet.RK = t.ratchet.RK
    BY <1>1, <2>1, Zenon DEF RootFrom
  <2> QED BY <1>1, <2>2, Zenon DEF RootKeys
<1>2. ASSUME NEW m \in net, m.key.root = z.ratchet.RK
      PROVE  m.from = d /\ m.to = p /\ m.key.n < z.ratchet.CKs.n
  <2>1. m.key.root \in Roots(Made) /\ m.key.n \in Nat
    BY KnownRoots, Zenon
  <2>2. PICK t : /\ Session(d, p, t) /\ z.ratchet.RK = t.ratchet.RK
                 /\ t.ratchet.CKs.n <= z.ratchet.CKs.n
    BY <1>2, <2>1, Zenon DEF RootFrom
  <2>3. m.from = d /\ m.to = p /\ m.key.n < t.ratchet.CKs.n
    BY <1>2, <2>2, Zenon DEF RootKeys
  <2>4. t.ratchet.CKs.n \in Nat
    BY <2>2, KnownRoots, Zenon
  <2> QED BY <2>1, <2>2, <2>3, <2>4
<1>3. ASSUME NEW e \in Devices, NEW q \in Devices, NEW e2 \in Devices, NEW q2 \in Devices,
             NEW s, NEW t, Session(e, q, s)', Session(e2, q2, t)', s.ratchet.RK = t.ratchet.RK
      PROVE  e = e2 /\ q = q2
  <2>1. /\ Session(e, q, s) \/ (e = d /\ q = p /\ s = z)
        /\ Session(e2, q2, t) \/ (e2 = d /\ q2 = p /\ t = z)
    BY <1>3, Zenon DEF Writes1
  <2>2. CASE Session(e, q, s) /\ Session(e2, q2, t)
    BY <1>3, <2>2, Zenon DEF RootKeys
  <2> QED BY <1>1, <1>3, <2>1, <2>2, Zenon
<1>4. ASSUME NEW e \in Devices, NEW q \in Devices, NEW s, NEW m \in net', Session(e, q, s)',
             m.key.root = s.ratchet.RK
      PROVE  m.from = e /\ m.to = q /\ m.key.n < s.ratchet.CKs.n
  <2>1. Session(e, q, s) \/ (e = d /\ q = p /\ s = z)
    BY <1>4, Zenon DEF Writes1
  <2>2. CASE m \in net
    BY <1>2, <1>4, <2>1, <2>2, Zenon DEF RootKeys
  <2>3. CASE m \notin net
    <3>1. /\ m.from = d /\ m.to = p
          /\ m.key.root = z.ratchet.RK /\ m.key.n < z.ratchet.CKs.n
          /\ \A x : Session(d, p, x)' => x = z
      BY <2>3, Zenon DEF Sends1
    <3>2. e = d /\ q = p
      BY <1>1, <1>4, <2>1, <3>1, Zenon
    <3>3. s = z
      BY <1>4, <3>1, <3>2, Zenon
    <3> QED BY <3>1, <3>2, <3>3, Zenon
  <2> QED BY <2>2, <2>3, Zenon
<1> QED BY <1>3, <1>4, Zenon DEF RootKeys

\* What is written and sent carries no other pre-key information for a known ek.
LEMMA PendingsStep ==
    ASSUME Sessions, Messages, Pendings, NEW d \in Devices, NEW p \in Devices, NEW z,
           Writes1(d, p, z), PendingFrom(d, p, z), Sends1(d, p, z)
    PROVE  Pendings'
<1>1. ASSUME NEW e \in Devices, NEW q \in Devices, NEW a, Pending(e, q, a)'
      PROVE  a # NoPending /\ (Pending(e, q, a) \/ (e = d /\ q = p /\ a = z.pending))
  <2>1. CASE \E s : Session(e, q, s)' /\ a = s.pending
    BY <1>1, <2>1 DEF Pending, Writes1
  <2>2. CASE \E m \in net' : m.from = e /\ m.to = q /\ a = m.pre
    BY <1>1, <2>2, Zenon DEF Pending, Sends1
  <2> QED BY <1>1, <2>1, <2>2, Zenon DEF Pending
<1>2. ASSUME NEW e \in Devices, NEW q \in Devices, NEW a, Pending(e, q, a)
      PROVE  a.ek \in Made
  <2>1. CASE \E s : Session(e, q, s) /\ a = s.pending
    BY <1>2, <2>1, MadeByMade DEF Pending, Sessions, SessionOK, PreOK, PreKeyMessages
  <2>2. CASE \E m \in net : m.from = e /\ m.to = q /\ a = m.pre
    BY <1>2, <2>2, MadeByMade, Zenon DEF Pending, Messages, MessageOK, PreOK, PreKeyMessages
  <2> QED BY <1>2, <2>1, <2>2, Zenon DEF Pending
<1>3. ASSUME NEW e \in Devices, NEW q \in Devices, NEW a, NEW b,
             Pending(e, q, a)', Pending(e, q, b)', a.ek = b.ek
      PROVE  a = b
  <2>1. CASE Pending(e, q, a) /\ Pending(e, q, b)
    BY <1>3, <2>1, Zenon DEF Pendings
  <2>2. CASE ~(Pending(e, q, a) /\ Pending(e, q, b))
    BY <1>1, <1>2, <1>3, <2>2 DEF PendingFrom
  <2> QED BY <2>1, <2>2, Zenon
<1> QED BY <1>3, Zenon DEF Pendings

\* z gives away no key of a message of p that is spent.
ClosedFor(d, p, z) == \A m \in net : m.to = d /\ m.from = p /\ Spent(m) => Closed(z, m)

\* A spent message stays out of reach of every session after the step.
LEMMA ClosedStep ==
    ASSUME AllClosed, NEW d \in Devices, NEW p \in Devices, NEW z,
           Writes1(d, p, z), ClosedFor(d, p, z), Messages,
           NEW m \in net, Spent(m), NEW s, Session(m.to, m.from, s)'
    PROVE  Closed(s, m)
<1>1. m.to \in Devices /\ m.from \in Devices
  BY Zenon DEF Messages, MessageOK
<1>2. Session(m.to, m.from, s) \/ (m.to = d /\ m.from = p /\ s = z)
  BY <1>1, Zenon DEF Writes1
<1> QED BY <1>2, Zenon DEF AllClosed, ClosedFor

\* A step that only grows, writes no session that was not there and sends nothing.
LEMMA QuietStep ==
    ASSUME Inv, Grows, Shapes', Stores', calls <= calls', net' = net, returned' = returned,
           \A d, p \in Devices : \A s : Session(d, p, s)' => Session(d, p, s)
    PROVE  Inv'
<1>1. Shapes /\ Sessions /\ Messages /\ AllClosed /\ Pendings /\ RootKeys
  BY Zenon DEF Inv
<1>2. calls \in Nat /\ calls' \in Nat
  BY <1>1, Zenon DEF Shapes
<1>3. \A m \in net : MessageOK(m)' /\ (Spent(m)' => Spent(m))
  BY <1>1, <1>2, MessageGrows, Zenon DEF Messages
<1>4. Messages'
  BY <1>1, <1>3, Zenon DEF Messages
<1>5. Sessions'
  BY <1>1, SessionGrows, Zenon DEF Sessions
<1>6. AllClosed'
  <2>1. \A m \in net : m.to \in Devices /\ m.from \in Devices
    BY <1>1, Zenon DEF Messages, MessageOK
  <2> QED BY <1>1, <1>3, <2>1, Zenon DEF AllClosed, Closed
<1>7. Pendings'
  BY <1>1 DEF Pendings, Pending
<1>8. RootKeys'
  <2>1. ASSUME NEW d \in Devices, NEW p \in Devices, NEW e \in Devices, NEW q \in Devices,
               NEW s, NEW t, Session(d, p, s)', Session(e, q, t)', s.ratchet.RK = t.ratchet.RK
        PROVE  d = e /\ p = q
    <3>1. Session(d, p, s) /\ Session(e, q, t)
      BY <2>1, Zenon
    <3> QED BY <1>1, <2>1, <3>1, Zenon DEF RootKeys
  <2>2. ASSUME NEW d \in Devices, NEW p \in Devices, NEW s, NEW m \in net',
               Session(d, p, s)', m.key.root = s.ratchet.RK
        PROVE  m.from = d /\ m.to = p /\ m.key.n < s.ratchet.CKs.n
    BY <1>1, <2>2, Zenon DEF RootKeys
  <2> QED BY <2>1, <2>2, Zenon DEF RootKeys
<1> QED BY <1>4, <1>5, <1>6, <1>7, <1>8, Zenon DEF Inv

\* A store of which at most the bundles in memory change.
LEMMA StoreStays ==
    ASSUME Grows, NEW d \in Devices, StoreOK(d), spk'[d] = spk[d],
           opks'[d] = opks[d], published'[d] = published[d],
           \A p \in Devices : bundles'[d][p] # NoBundle =>
                bundles'[d][p] = bundles[d][p] \/ BundleOK(p, bundles'[d][p])
    PROVE  StoreOK(d)'
<1>1. MadeBy(d) \subseteq MadeBy(d)'
  BY Zenon DEF Grows
<1>2. BundleOK(d, published[d])'
  <2>1. BundleOK(d, published[d])
    BY Zenon DEF StoreOK
  <2>2. \A b : BundleOK(d, b) => BundleOK(d, b)'
    BY BundleGrows, Zenon
  <2> QED BY <2>1, <2>2, Zenon DEF BundleOK
<1>3. ASSUME NEW p \in Devices, bundles'[d][p] # NoBundle
      PROVE  BundleOK(p, bundles[d][p])'
  <2>1. BundleOK(p, bundles'[d][p])
    BY <1>3, Zenon DEF StoreOK
  <2>2. \A b : BundleOK(p, b) => BundleOK(p, b)'
    BY BundleGrows, Zenon
  <2> QED BY <2>1, <2>2, Zenon DEF BundleOK
<1> QED BY <1>1, <1>2, <1>3, Zenon DEF StoreOK, IK

\* A root key with a pair that was not made before the step is new, and no root
\* key from before starts with it.
LEMMA FreshRoot ==
    ASSUME NEW rk, Len(rk) \in Nat, NEW k, k \notin Made, NEW i \in 1 .. Len(rk), k \in rk[i]
    PROVE  rk \notin Roots(Made) /\ \A root \in Roots(Made) : ~StartsWith(root, rk)
<1>1. ASSUME NEW root \in Roots(Made), NEW j \in 1 .. Len(root) PROVE k \notin root[j]
  <2>1. root \in Seq(SUBSET Made)
    BY Zenon DEF Roots
  <2>2. root[j] \in SUBSET Made
    BY <2>1
  <2> QED BY <2>2, Zenon
<1>2. rk \notin Roots(Made)
  BY <1>1, Zenon
<1>3. ASSUME NEW root \in Roots(Made), StartsWith(root, rk) PROVE FALSE
  <2>1. Len(root) \in Nat
    BY DEF Roots
  <2>2. i \in 1 .. Len(root) /\ root[i] = rk[i]
    BY <1>3, <2>1 DEF StartsWith
  <2> QED BY <1>1, <2>2, Zenon
<1> QED BY <1>2, <1>3, Zenon

\* The session of d with p in memory is set to z, and in the store unless that
\* fails.
LEMMA SessionWritten ==
    ASSUME Shapes, NEW d \in Devices, NEW p \in Devices, NEW z, NEW ok \in BOOLEAN,
           sessions' = [sessions EXCEPT ![d][p] = z], saveSession(d, p, z, ok)
    PROVE  /\ IsTable(sessions') /\ IsTable(saved')
           /\ Writes1(d, p, z)
           /\ ok => \A x : Session(d, p, x)' => x = z
<1>1. IsTable(sessions) /\ IsTable(saved)
  BY Zenon DEF Shapes
<1>2. /\ IsTable(sessions')
      /\ \A e, q \in Devices :
            sessions'[e][q] = IF e = d /\ q = p THEN z ELSE sessions[e][q]
  BY <1>1, Zenon DEF IsTable
<1>3. CASE ok
  <2>1. saved' = [saved EXCEPT ![d][p] = z]
    BY <1>3, Zenon DEF saveSession
  <2>2. /\ IsTable(saved')
        /\ \A e, q \in Devices : saved'[e][q] = IF e = d /\ q = p THEN z ELSE saved[e][q]
    BY <1>1, <2>1, Zenon DEF IsTable
  <2> QED BY <1>2, <2>2 DEF Writes1, Session
<1>4. CASE ~ok
  <2>1. saved' = saved
    BY <1>4, Zenon DEF saveSession
  <2> QED BY <1>1, <1>2, <1>4, <2>1 DEF Writes1, Session
<1> QED BY <1>3, <1>4, Zenon

\* A delivery of m leaves the session z, and returns the plaintext only if it was
\* not returned before and z gives the key away no more (manager.go:118, 315).
LEMMA ReceiveStep ==
    ASSUME Inv, Grows, Shapes', Stores', NEW m \in net, NEW d, d = m.to, NEW p, p = m.from,
           NEW z, SessionOK(d, p, z)', Writes1(d, p, z), RootFrom(d, p, z),
           PendingFrom(d, p, z), ClosedFor(d, p, z), net' = net, calls' = calls,
           \/ returned' = returned
           \/ /\ returned' = [returned EXCEPT ![m.id] = @ + 1]
              /\ \A x : Session(d, p, x)' => x = z
              /\ returned[m.id] = 0 \/ Rebuilds(m)'
              /\ m.key.root \in Roots(Usable(d)')
              /\ Closed(z, m)
    PROVE  Inv'
<1>1. Shapes /\ Sessions /\ Messages /\ AllClosed /\ Pendings /\ RootKeys
  BY Zenon DEF Inv
<1>2. /\ MessageOK(m) /\ d \in Devices /\ p \in Devices /\ d # p
      /\ \A n \in net : n.id = m.id => n = m
  BY <1>1, Zenon DEF Messages, MessageOK
<1>3. calls \in Nat /\ calls' \in Nat /\ calls <= calls'
  BY <1>1 DEF Shapes
<1>4. returned \in [1 .. MaxSent -> Nat] /\ m.id \in 1 .. MaxSent
  <2>1. MaxSent \in Nat /\ calls <= MaxSent /\ m.id \in 1 .. calls
    BY <1>1, <1>2, ManagerAssumption, Zenon DEF Shapes, MessageOK
  <2> QED BY <1>1, <1>3, <2>1 DEF Shapes
<1>5. Sends1(d, p, z)
  BY Zenon DEF Sends1
<1>6. Sessions'
  BY <1>1, <1>2, SessionsStep, Zenon
<1>7. z.ratchet.CKs.n \in Nat
  BY Zenon DEF SessionOK, RatchetInv, ChainsOver
<1>8. RootKeys'
  BY <1>1, <1>2, <1>5, <1>7, RootKeysStep, Zenon
<1>9. Pendings'
  BY <1>1, <1>2, <1>5, PendingsStep, Zenon
<1>10. ASSUME NEW n \in net, returned'[n.id] = returned[n.id]
       PROVE  /\ MessageOK(n)'
              /\ \A x : Spent(n)' /\ Session(n.to, n.from, x)' => Closed(x, n)
  <2>1. MessageOK(n)' /\ (Spent(n)' => Spent(n))
    BY <1>1, <1>3, <1>10, MessageGrows, Zenon DEF Messages
  <2> QED BY <1>1, <1>2, <2>1, ClosedStep, Zenon
<1>11. CASE returned' = returned
  <2>1. Messages'
    BY <1>1, <1>10, <1>11, Zenon DEF Messages
  <2>2. AllClosed'
    BY <1>10, <1>11, Zenon DEF AllClosed, Closed
  <2> QED BY <1>6, <1>8, <1>9, <2>1, <2>2, Zenon DEF Inv
<1>12. CASE /\ returned' = [returned EXCEPT ![m.id] = @ + 1]
            /\ \A x : Session(d, p, x)' => x = z
            /\ returned[m.id] = 0 \/ Rebuilds(m)'
            /\ m.key.root \in Roots(Usable(d)')
            /\ Closed(z, m)
  <2>1. /\ returned'[m.id] = returned[m.id] + 1
        /\ \A n \in net : n # m => returned'[n.id] = returned[n.id]
    <3>1. \A n \in net : n # m => n.id # m.id
      BY <1>2, Zenon
    <3> QED BY <1>4, <1>12, <3>1
  <2>2. MessageOK(m)'
    <3>1. /\ Made \subseteq Made' /\ MadeBy(p) \subseteq MadeBy(p)'
      BY <1>2, Zenon DEF Grows
    <3>2. ChainsOver(Made) \subseteq ChainsOver(Made')
      BY <3>1, ChainsGrow, Zenon
    <3>3. PreOK(p, d, m.pre, m.key.root)'
      BY <1>2, PreGrows, Zenon DEF MessageOK
    <3>4. (returned[m.id] > 1 => Rebuilds(m))'
      BY <1>12, <2>1
    <3> QED BY <1>2, <1>12, <3>1, <3>2, <3>3, <3>4, Zenon DEF MessageOK
  <2>3. Messages'
    BY <1>1, <1>10, <2>1, <2>2, Zenon DEF Messages
  <2>4. AllClosed'
    BY <1>10, <1>12, <2>1, Zenon DEF AllClosed, Closed
  <2> QED BY <1>6, <1>8, <1>9, <2>3, <2>4, Zenon DEF Inv
<1> QED BY <1>11, <1>12, Zenon

\* At most pre-keys are removed from the stores, and pairs are added.
LEMMA StoreShrinks ==
    ASSUME Shapes, Stores, made' \in [Devices -> Nat], \A e \in Devices : made[e] <= made'[e],
           UNCHANGED <<spk, published, bundles>>,
           \A e \in Devices : /\ kept[e] \subseteq kept'[e]
                              /\ DOMAIN opks'[e] \subseteq DOMAIN opks[e]
                              /\ \A i \in DOMAIN opks'[e] : opks'[e][i] = opks[e][i]
    PROVE  Grows /\ Stores'
<1>1. Grows
  BY GrowsWhen, Zenon DEF Shapes
<1>2. ASSUME NEW e \in Devices PROVE StoreOK(e)'
  <2>1. StoreOK(e) /\ MadeBy(e) \subseteq MadeBy(e)'
    BY <1>1, Zenon DEF Stores, Grows
  <2>2. BundleOK(e, published[e])'
    <3>1. BundleOK(e, published[e])
      BY <2>1, Zenon DEF StoreOK
    <3>2. \A b : BundleOK(e, b) => BundleOK(e, b)'
      BY <1>1, BundleGrows, Zenon
    <3> QED BY <3>1, <3>2, Zenon DEF BundleOK
  <2>3. ASSUME NEW p \in Devices, bundles'[e][p] # NoBundle
        PROVE  BundleOK(p, bundles[e][p])'
    <3>1. BundleOK(p, bundles'[e][p])
      BY <2>1, <2>3, Zenon DEF StoreOK
    <3>2. \A b : BundleOK(p, b) => BundleOK(p, b)'
      BY <1>1, BundleGrows, Zenon
    <3> QED BY <3>1, <3>2, Zenon DEF BundleOK
  <2>4. \A i \in DOMAIN opks'[e] :
            /\ opks'[e][i] \in MadeBy(e)' /\ opks'[e][i] # IK(e) /\ opks'[e][i] # spk'[e]
            /\ \A j \in DOMAIN opks'[e] : opks'[e][i] = opks'[e][j] => i = j
    BY <2>1, Zenon DEF StoreOK
  <2>5. spk'[e] \in MadeBy(e)' /\ spk'[e] # IK(e)
    BY <2>1, Zenon DEF StoreOK
  <2> QED BY <2>2, <2>3, <2>4, <2>5, Zenon DEF StoreOK, IK
<1> QED BY <1>1, <1>2, Zenon DEF Stores

=============================================================================
