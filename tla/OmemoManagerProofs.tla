------------------------- MODULE OmemoManagerProofs -------------------------
(***************************************************************************)
(* Proofs that the managers of OmemoManager use no message key twice,      *)
(* decrypt no message twice and cannot derive a used key again, for every  *)
(* number of devices, pre-keys, messages, repeats, restarts and faults.  The *)
(* invariant is in OmemoInvariant; what is left here is receiving.         *)
(***************************************************************************)
EXTENDS OmemoSendProofs

(* Receiving. *)

\* The session a delivery of a message from p with ratchet key dh starts from: one
\* that d has, or a new one that p asked for and that no spent message belongs to.
Starts(d, p, s, dh, K) ==
    /\ Ready(s.ratchet, dh, K)
    /\ s.ratchet.DHs \in MadeBy(d)
    /\ \/ Session(d, p, s)
       \/ /\ ~RatchetInv(s.ratchet, K)
          /\ s.pending = NoPending
          /\ IK(p) \in s.ratchet.RK[1]
          /\ \A c : CanDerive(s.ratchet, c) => c.root = <<>>
          /\ \A n \in net : n.to = d /\ n.from = p /\ Spent(n)
                                => n.key.root # NextRoot(s.ratchet, dh)

\* No key of a spent message is within reach of such a session, nor in the
\* receiving chain that dh starts.
LEMMA SpentOutOfReach ==
    ASSUME Inv, NEW d \in Devices, NEW p \in Devices, NEW s, NEW K, NEW dh \in K,
           Starts(d, p, s, dh, K), NEW n \in net, n.to = d, n.from = p, Spent(n)
    PROVE  /\ ~CanDerive(s.ratchet, n.key)
           /\ n.key.root # NextRoot(s.ratchet, dh)
           /\ RatchetInv(s.ratchet, K) => ~StartsWith(n.key.root, s.ratchet.RK)
<1>1. Messages /\ AllClosed
  BY Zenon DEF Inv
<1>2. n.key.root # <<>>
  BY <1>1 DEF Messages, MessageOK
<1>3. CASE Session(d, p, s)
  <2>1. ~CanDerive(s.ratchet, n.key) /\ ~StartsWith(n.key.root, s.ratchet.RK)
    BY <1>1, <1>3, Zenon DEF AllClosed, Closed
  <2>2. n.key.root # NextRoot(s.ratchet, dh)
    <3> SUFFICES ASSUME n.key.root = NextRoot(s.ratchet, dh)
                 PROVE  StartsWith(n.key.root, s.ratchet.RK)
      BY <2>1, Zenon
    <3>1. s.ratchet.RK \in Roots(K) /\ s.ratchet.DHs \in K
      BY Zenon DEF Starts, Ready, RatchetInv, RatchetBase
    <3>2. /\ Len(s.ratchet.RK) \in Nat /\ Len(n.key.root) = Len(s.ratchet.RK) + 1
          /\ \A i \in 1 .. Len(s.ratchet.RK) : n.key.root[i] = s.ratchet.RK[i]
      <4>1. PICK rk1, rk2 : rk1 = NextRoot(s.ratchet, dh) /\ rk2 = StepRoot(s.ratchet, dh, dh)
        BY Zenon
      <4>2. /\ Len(s.ratchet.RK) \in Nat /\ Len(rk1) = Len(s.ratchet.RK) + 1
            /\ \A i \in 1 .. Len(s.ratchet.RK) : rk1[i] = s.ratchet.RK[i]
        BY <3>1, <4>1, StepRoots
      <4> QED BY <4>1, <4>2, Zenon
    <3> QED BY <3>2 DEF StartsWith
  <2> QED BY <2>1, <2>2, Zenon
<1>4. CASE ~Session(d, p, s)
  BY <1>2, <1>4, Zenon DEF Starts
<1> QED BY <1>3, <1>4, Zenon

\* The session after RatchetDecrypt (manager.go:155, 399).
LEMMA DecryptSession ==
    ASSUME Inv, Grows, NEW m \in net, NEW d, d = m.to, NEW p, p = m.from, NEW s, NEW K,
           K \subseteq Usable(d)', m.header.dh \in K, Starts(d, p, s, m.header.dh, K),
           NEW dhs, dhs \notin Made, NEW res,
           Decrypted(s.ratchet, m.header.dh, m.key, dhs, K, res),
           res.took => dhs \in Usable(d)' /\ dhs \in MadeBy(d)',
           NEW z, z = [ratchet |-> res.ratchet,
                       pending |-> IF res.ok THEN NoPending ELSE s.pending]
    PROVE  /\ SessionOK(d, p, z)' /\ RootFrom(d, p, z) /\ PendingFrom(d, p, z)
           /\ ClosedFor(d, p, z)
           /\ res.ok => ~Spent(m) /\ m.key.root \in Roots(Usable(d)') /\ Closed(z, m)
<1> DEFINE r == s.ratchet
           q == z.ratchet
           dh == m.header.dh
<1>1. Sessions /\ Messages
  BY Zenon DEF Inv
<1>2. /\ d \in Devices /\ p \in Devices /\ m.key.root \in Roots(Made)
      /\ m.key.n \in Nat /\ m.key.root # <<>>
  BY <1>1, KnownRoots DEF Messages, MessageOK
<1>3. q = res.ratchet /\ z.pending = (IF res.ok THEN NoPending ELSE s.pending)
      /\ DOMAIN z = {"ratchet", "pending"}
  BY Zenon
<1>4. RatchetBase(r, K) /\ Len(r.RK) >= 3 /\ r.RK \in Roots(K) /\ r.DHs \in K
  <2>1. Ready(r, dh, K)
    BY Zenon DEF Starts
  <2> HIDE DEF r, dh
  <2>2. RatchetBase(r, K) /\ (Len(r.RK) >= 4 \/ Len(r.RK) >= 3)
    BY <2>1, Zenon DEF Ready, RatchetInv
  <2>3. r.RK \in Roots(K) /\ r.DHs \in K
    BY <2>2, Zenon DEF RatchetBase
  <2>4. Len(r.RK) \in Nat
    BY <2>3 DEF Roots
  <2> QED BY <2>2, <2>3, <2>4
<1>5. PICK rk1, rk2 : rk1 = NextRoot(r, dh) /\ rk2 = StepRoot(r, dh, dhs)
  BY Zenon
<1>6. /\ Len(r.RK) \in Nat
      /\ rk1 \in Roots(K) /\ Len(rk1) = Len(r.RK) + 1 /\ Len(rk2) = Len(r.RK) + 2
      /\ \A i \in 1 .. Len(r.RK) : rk1[i] = r.RK[i] /\ rk2[i] = r.RK[i]
      /\ rk2[Len(rk2)] = {dhs, dh}
  BY <1>4, <1>5, StepRoots
<1>7. rk2 \notin Roots(Made) /\ \A root \in Roots(Made) : ~StartsWith(root, rk2)
  <2>1. PICK i \in 1 .. Len(rk2) : i = Len(rk2)
    BY <1>6
  <2>2. dhs \in rk2[i] /\ Len(rk2) \in Nat
    BY <1>6, <2>1
  <2> QED BY <2>2, FreshRoot, Zenon
<1>8. /\ res.took \in BOOLEAN /\ res.ok \in BOOLEAN
      /\ res.took => /\ RatchetInv(q, K \cup {dhs}) /\ q.RK = rk2 /\ q.DHs = dhs
                     /\ q.CKs = ChainOf(rk2)
      /\ ~res.took => RatchetInv(q, K) /\ Kept(r, q) /\ RatchetInv(r, K)
      /\ \A c : c.n \in Nat /\ CanDerive(q, c) => CanDerive(r, c) \/ (res.took /\ c.root = rk1)
      /\ res.ok => /\ ~CanDerive(q, m.key)
                   /\ CanDerive(r, m.key) \/ (res.took /\ m.key.root = rk1)
  BY <1>3, <1>5, Zenon DEF Decrypted
<1>9. RatchetInv(q, Usable(d)')
  <2>1. CASE res.took
    <3>1. K \cup {dhs} \subseteq Usable(d)'
      BY <2>1, Zenon
    <3> HIDE DEF q
    <3> QED BY <1>8, <2>1, <3>1, InvGrows, Zenon
  <2>2. CASE ~res.took
    <3> HIDE DEF q
    <3> QED BY <1>8, <2>2, InvGrows, Zenon
  <2> QED BY <2>1, <2>2, Zenon
<1> HIDE DEF q, r, dh
<1>10. ASSUME NEW n \in net, n.to = d, n.from = p, Spent(n)
       PROVE  /\ ~CanDerive(r, n.key) /\ n.key.root # rk1
              /\ RatchetInv(r, K) => ~StartsWith(n.key.root, r.RK)
              /\ n.key.n \in Nat /\ n.key.root \in Roots(Made)
  <2>1. n.key.n \in Nat /\ n.key.root \in Roots(Made)
    BY <1>1, KnownRoots, Zenon
  <2> QED BY <1>2, <1>5, <1>10, <2>1, SpentOutOfReach, Zenon DEF r, dh
<1>11. ClosedFor(d, p, z)
  <2> SUFFICES ASSUME NEW n \in net, n.to = d, n.from = p, Spent(n)
               PROVE  ~CanDerive(q, n.key) /\ ~StartsWith(n.key.root, q.RK)
    BY Zenon DEF ClosedFor, Closed, q
  <2>1. ~CanDerive(q, n.key)
    BY <1>8, <1>10, Zenon
  <2>2. ~StartsWith(n.key.root, q.RK)
    BY <1>7, <1>8, <1>10, Zenon DEF Kept
  <2> QED BY <2>1, <2>2, Zenon
<1>12. CASE res.took
  <2>1. Answered(p, rk2)
    <3>1. CASE Session(d, p, s)
      <4>1. Len(r.RK) >= 4
        BY <1>1, <1>2, <3>1, Zenon DEF Sessions, SessionOK, RatchetInv, r
      <4> QED BY <1>6, <4>1 DEF Answered
    <3>2. CASE ~Session(d, p, s)
      <4>1. IK(p) \in r.RK[1] /\ 1 \in 1 .. Len(r.RK)
        BY <1>4, <1>6, <3>2 DEF Starts, r
      <4> QED BY <1>6, <4>1, Zenon DEF Answered
    <3> QED BY <3>1, <3>2, Zenon
  <2>2. s.pending = NoPending \/ PreOK(d, p, s.pending, rk2)'
    <3>1. CASE Session(d, p, s)
      <4>1. PreOK(d, p, s.pending, r.RK)'
        BY <1>1, <1>2, <3>1, PreGrows, Zenon DEF Sessions, SessionOK, r
      <4>2. rk2[2] = r.RK[2]
        BY <1>4, <1>6
      <4> QED BY <4>1, <4>2, Zenon DEF PreOK
    <3>2. CASE ~Session(d, p, s)
      BY <3>2, Zenon DEF Starts
    <3> QED BY <3>1, <3>2, Zenon
  <2>3. PreOK(d, p, z.pending, q.RK)'
    BY <1>3, <1>8, <1>12, <2>1, <2>2, Zenon DEF PreOK, Answered, IK
  <2>4. SessionOK(d, p, z)'
    BY <1>3, <1>8, <1>9, <1>12, <2>1, <2>3, Zenon DEF SessionOK, Answered, IK, q
  <2>5. RootFrom(d, p, z)
    BY <1>7, <1>8, <1>12, Zenon DEF RootFrom, q
  <2>6. PendingFrom(d, p, z)
    BY <1>3, Zenon DEF PendingFrom, Pending, Starts
  <2>7. ASSUME res.ok PROVE ~Spent(m) /\ m.key.root \in Roots(Usable(d)') /\ Closed(z, m)
    <3>1. m.key.root \in Roots(K)
      BY <2>7, DecryptedRoot, Zenon DEF Starts
    <3>2. m.key.root \in Roots(Usable(d)')
      BY <3>1, ChainsGrow
    <3>3. ~Spent(m)
      BY <1>8, <1>10, <2>7, Zenon
    <3>4. Closed(z, m)
      BY <1>2, <1>7, <1>8, <1>12, <2>7, Zenon DEF Closed, q
    <3> QED BY <3>2, <3>3, <3>4, Zenon
  <2> QED BY <1>11, <2>4, <2>5, <2>6, <2>7, Zenon
<1>13. CASE ~res.took
  <2>1. Session(d, p, s) /\ SessionOK(d, p, s) /\ PreOK(d, p, s.pending, r.RK)'
    <3>1. Session(d, p, s)
      BY <1>8, <1>13, Zenon DEF Starts, r
    <3>2. SessionOK(d, p, s)
      BY <1>1, <1>2, <3>1, Zenon DEF Sessions
    <3> QED BY <1>2, <3>1, <3>2, PreGrows, Zenon DEF SessionOK, r
  <2>2. q.RK = r.RK /\ q.DHs = r.DHs /\ q.CKs = r.CKs
    BY <1>8, <1>13, Zenon DEF Kept
  <2>3. res.ok => Answered(p, r.RK)
    BY <1>2, <1>8, <1>13, <2>1, Zenon DEF SessionOK, r
  <2>4. PreOK(d, p, z.pending, q.RK)'
    BY <1>3, <2>1, <2>2, <2>3, Zenon DEF PreOK, Answered, IK
  <2>5. Answered(p, q.RK) \/ \A c : c.n \in Nat /\ CanDerive(q, c) => c.root = <<>>
    BY <1>8, <1>13, <2>1, <2>2, Zenon DEF SessionOK, r
  <2>6. q.DHs \in MadeBy(d)'
    BY <1>2, <2>1, <2>2, Zenon DEF SessionOK, Grows, r
  <2>7. SessionOK(d, p, z)'
    BY <1>3, <1>9, <2>4, <2>5, <2>6, Zenon DEF SessionOK, Answered, IK, q
  <2>8. RootFrom(d, p, z)
    <3>1. r.CKs.n \in Nat
      BY <1>1, <1>2, <2>1, KnownRoots, Zenon DEF r
    <3> QED BY <2>1, <2>2, <3>1 DEF RootFrom, q, r
  <2>9. PendingFrom(d, p, z)
    BY <1>3, <2>1, Zenon DEF PendingFrom, Pending
  <2>10. ASSUME res.ok PROVE ~Spent(m) /\ m.key.root \in Roots(Usable(d)') /\ Closed(z, m)
    <3>1. m.key.root \in Roots(K) /\ CanDerive(r, m.key)
      BY <1>8, <1>13, <2>10, DecryptedRoot, Zenon DEF Starts
    <3>2. m.key.root \in Roots(Usable(d)')
      BY <3>1, ChainsGrow
    <3>3. ~Spent(m)
      BY <1>10, <3>1, Zenon
    <3>4. ~StartsWith(m.key.root, r.RK)
      <4>1. Len(m.key.root) < Len(r.RK)
        BY <1>4, <3>1, Zenon DEF CanDerive, RatchetBase
      <4>2. Len(m.key.root) \in Nat
        BY <3>1 DEF Roots
      <4> QED BY <1>6, <4>1, <4>2 DEF StartsWith
    <3>5. Closed(z, m)
      BY <1>8, <2>2, <2>10, <3>4, Zenon DEF Closed, q
    <3> QED BY <3>2, <3>3, <3>5, Zenon
  <2> QED BY <1>11, <2>7, <2>8, <2>9, <2>10, Zenon
<1> QED BY <1>8, <1>12, <1>13, Zenon

\* What a delivery leaves of the stores: nothing is added.
Shrinks ==
    /\ UNCHANGED <<spk, published, bundles, calls, net>>
    /\ DOMAIN opks' = Devices /\ DOMAIN kept' = Devices
    /\ \A e \in Devices : /\ kept[e] \subseteq kept'[e] /\ IsFunction(opks'[e])
                          /\ DOMAIN opks'[e] \subseteq DOMAIN opks[e]
                          /\ \A i \in DOMAIN opks'[e] : opks'[e][i] = opks[e][i]

\* The end of Decrypt and DecryptPreKeyMessage, for a session that may start it
\* (manager.go:155-185, 399-428).
LEMMA FinishKeeps ==
    ASSUME Inv, NEW m \in net, NEW d, d = m.to, NEW p, p = m.from, NEW s, NEW res,
           res = RatchetDecrypt(s.ratchet, m.header, m.key, Fresh(d, 1)),
           NEW ok \in BOOLEAN, Finish(d, m, s, res, ok), Shrinks,
           NEW K, Starts(d, p, s, m.header.dh, K), m.header.dh \in K,
           Grows => K \subseteq Usable(d)'
    PROVE  Inv'
<1>1. Shapes /\ Stores /\ Sessions /\ Messages
  BY Zenon DEF Inv
<1>2. /\ d \in Devices /\ p \in Devices /\ MessageOK(m) /\ m.id \in 1 .. calls
      /\ m.header.n \in Nat /\ m.header.pn \in Nat /\ m.key.n \in Nat
  BY <1>1, KnownRoots, Zenon DEF Messages, MessageOK
<1>3. made \in [Devices -> Nat] /\ calls \in Nat /\ MaxSent \in Nat /\ calls <= MaxSent
  BY <1>1, ManagerAssumption, Zenon DEF Shapes
<1>4. PICK dhs : dhs = Fresh(d, 1)
  BY Zenon
<1>5. Decrypted(s.ratchet, m.header.dh, m.key, dhs, K, res)
  BY <1>2, <1>4, DecryptDoes, Zenon DEF Starts
<1>6. res.ok \in BOOLEAN /\ res.took \in BOOLEAN
  BY <1>5, Zenon DEF Decrypted
<1>7. PICK z : z = [ratchet |-> res.ratchet,
                    pending |-> IF res.ok THEN NoPending ELSE s.pending]
  BY Zenon
<1>8. PICK okay \in BOOLEAN : okay = (res.ok /\ ok)
  BY <1>6, Zenon
<1>9. /\ sessions' = [sessions EXCEPT ![d][p] = z]
      /\ made' = IF res.took THEN [made EXCEPT ![d] = @ + 1] ELSE made
      /\ saveSession(d, p, z, okay)
      /\ returned' = IF okay THEN [returned EXCEPT ![m.id] = @ + 1] ELSE returned
      /\ failed' = IF okay THEN failed ELSE failed \cup {m.id}
  BY <1>7, <1>8, Zenon DEF Finish
<1>10. /\ IsTable(sessions') /\ IsTable(saved') /\ Writes1(d, p, z)
       /\ okay => \A x : Session(d, p, x)' => x = z
  BY <1>1, <1>2, <1>9, SessionWritten, Zenon
<1>11. /\ made' \in [Devices -> Nat] /\ \A e \in Devices : made[e] <= made'[e]
       /\ res.took => made'[d] = made[d] + 1
  <2>1. CASE res.took
    <3>1. made' = [made EXCEPT ![d] = @ + 1]
      BY <1>9, <2>1, Zenon
    <3> QED BY <1>2, <1>3, <3>1
  <2>2. CASE ~res.took
    BY <1>3, <1>9, <2>2
  <2> QED BY <2>1, <2>2, Zenon
<1>12. Grows /\ Stores'
  BY <1>1, <1>11, StoreShrinks, Zenon DEF Shrinks
<1>13. Shapes'
  <2>1. /\ returned' \in [1 .. MaxSent -> Nat]
        /\ \A i \in 1 .. MaxSent : i > calls' => returned'[i] = 0
    <3>1. /\ returned \in [1 .. MaxSent -> Nat] /\ calls' = calls
          /\ \A i \in 1 .. MaxSent : i > calls => returned[i] = 0
      BY <1>1, Zenon DEF Shapes, Shrinks
    <3>2. m.id \in 1 .. MaxSent
      BY <1>2, <1>3
    <3>3. CASE okay
      <4>1. returned' = [returned EXCEPT ![m.id] = @ + 1]
        BY <1>9, <3>3, Zenon
      <4>2. returned' \in [1 .. MaxSent -> Nat]
        BY <3>1, <3>2, <4>1
      <4>3. ASSUME NEW i \in 1 .. MaxSent, i > calls PROVE returned'[i] = 0
        <5>1. i # m.id
          BY <1>2, <1>3, <4>3
        <5>2. returned'[i] = returned[i]
          BY <3>1, <3>2, <4>1, <5>1, Zenon
        <5> QED BY <3>1, <4>3, <5>2, Zenon
      <4> QED BY <3>1, <4>2, <4>3, Zenon
    <3>4. CASE ~okay
      BY <1>9, <3>1, <3>4, Zenon
    <3> QED BY <3>3, <3>4, Zenon
  <2>2. failed' \subseteq 1 .. calls'
    BY <1>1, <1>2, <1>9, Zenon DEF Shapes, Shrinks
  <2> QED BY <1>1, <1>10, <1>11, <2>1, <2>2, Zenon DEF Shapes, Shrinks
<1>14. K \subseteq Usable(d)'
  BY <1>12, Zenon
<1>15. dhs \notin Made
  BY <1>2, <1>3, <1>4, FreshKeys
<1>16. ASSUME res.took PROVE dhs \in Usable(d)' /\ dhs \in MadeBy(d)'
  <2>1. dhs \in MadeBy(d)'
    BY <1>2, <1>3, <1>4, <1>11, <1>16 DEF Fresh, MadeBy, Made, Keys
  <2>2. \A k \in Unused(d)' : k \in Made
    BY <1>1, <1>2, MadeByMade DEF Unused, Shrinks, Stores, StoreOK
  <2> QED BY <1>15, <2>1, <2>2, Zenon DEF Usable, MadeBy
<1>17. /\ SessionOK(d, p, z)' /\ RootFrom(d, p, z) /\ PendingFrom(d, p, z)
       /\ ClosedFor(d, p, z)
       /\ res.ok => ~Spent(m) /\ m.key.root \in Roots(Usable(d)') /\ Closed(z, m)
  BY <1>5, <1>7, <1>12, <1>14, <1>15, <1>16, DecryptSession, Zenon
<1>18. net' = net /\ calls' = calls
  BY Zenon DEF Shrinks
<1>19. CASE okay
  <2>1. returned' = [returned EXCEPT ![m.id] = @ + 1] /\ \A x : Session(d, p, x)' => x = z
    BY <1>9, <1>10, <1>19, Zenon
  <2>2. returned[m.id] = 0 \/ Rebuilds(m)'
    <3>1. returned[m.id] \in Nat
      <4>1. returned \in [1 .. MaxSent -> Nat] /\ m.id \in 1 .. MaxSent
        BY <1>1, <1>2, <1>3 DEF Shapes
      <4> QED BY <4>1, Zenon
    <3>2. returned[m.id] > 0 => Rebuilds(m)
      BY <1>8, <1>17, <1>19, Zenon DEF Spent
    <3>3. Rebuilds(m) => Rebuilds(m)'
      BY <1>2, <1>12, RebuildsStays, Zenon
    <3> QED BY <3>1, <3>2, <3>3
  <2>3. m.key.root \in Roots(Usable(d)') /\ Closed(z, m)
    BY <1>8, <1>17, <1>19, Zenon
  <2> QED BY <1>10, <1>12, <1>13, <1>17, <1>18, <2>1, <2>2, <2>3, ReceiveStep, Zenon
<1>20. CASE ~okay
  <2>1. returned' = returned
    BY <1>9, <1>20, Zenon
  <2> QED BY <1>10, <1>12, <1>13, <1>17, <1>18, <2>1, ReceiveStep, Zenon
<1> QED BY <1>19, <1>20, Zenon

\* A delivery that is refused before the ratchet is asked.
LEMMA RejectedKeeps ==
    ASSUME Inv, NEW m \in net, Rejected(m), Shrinks
    PROVE  Inv'
<1>1. Shapes /\ Stores /\ Messages
  BY Zenon DEF Inv
<1>2. failed' = failed \cup {m.id} /\ UNCHANGED <<made, saved, sessions, returned>>
  BY Zenon DEF Rejected
<1>3. m.id \in 1 .. calls /\ calls' = calls /\ net' = net /\ calls \in Nat
  BY <1>1, Zenon DEF Messages, MessageOK, Shrinks, Shapes
<1>4. made' \in [Devices -> Nat] /\ \A e \in Devices : made[e] <= made'[e]
  BY <1>1, <1>2 DEF Shapes
<1>5. Grows /\ Stores'
  BY <1>1, <1>4, StoreShrinks, Zenon DEF Shrinks
<1>6. Shapes'
  BY <1>1, <1>2, <1>3, Zenon DEF Shapes, Shrinks
<1>7. \A e, q \in Devices : \A s : Session(e, q, s)' => Session(e, q, s)
  BY <1>2, Zenon DEF Session
<1>8. calls <= calls'
  BY <1>3
<1> QED BY <1>2, <1>3, <1>5, <1>6, <1>7, <1>8, QuietStep, Zenon

\* Decrypt (manager.go:118).
LEMMA DecryptKeeps ==
    ASSUME Inv, NEW m \in net, Decrypt(m)
    PROVE  Inv'
<1>1. Shapes /\ Stores /\ Sessions /\ Messages
  BY Zenon DEF Inv
<1>2. PICK d, p, s : d = m.to /\ p = m.from /\ s = Loaded(d, p)
  BY Zenon
<1>3. Shrinks
  <2>1. UNCHANGED <<spk, opks, published, bundles, calls, net, kept>>
    BY Zenon DEF Decrypt
  <2> QED BY <1>1, <2>1, Zenon DEF Shrinks, Shapes
<1>4. CASE s = NoSession
  <2>1. Rejected(m)
    BY <1>2, <1>4, Zenon DEF Decrypt
  <2> QED BY <1>3, <2>1, RejectedKeeps, Zenon
<1>5. CASE s # NoSession
  <2>0. PICK res : res = RatchetDecrypt(s.ratchet, m.header, m.key, Fresh(d, 1))
    BY Zenon
  <2>1. PICK ok \in BOOLEAN : Finish(d, m, s, res, ok)
    BY <1>2, <1>5, <2>0, Zenon DEF Decrypt
  <2>2. Session(d, p, s)
    BY <1>2, <1>5, Zenon DEF Session, Loaded
  <2>3. /\ d \in Devices /\ p \in Devices /\ d # p /\ made \in [Devices -> Nat]
        /\ m.header.dh \in MadeBy(p)
    BY <1>1, <1>2, Zenon DEF Messages, MessageOK, Shapes
  <2>4. SessionOK(d, p, s)
    BY <1>1, <2>2, <2>3, Zenon DEF Sessions
  <2>5. m.header.dh \in Usable(d)
    BY <1>1, <2>3, UsableKeys, Zenon DEF Stores
  <2>6. Starts(d, p, s, m.header.dh, Usable(d))
    BY <2>2, <2>4, Zenon DEF Starts, SessionOK, Ready
  <2>7. Grows => Usable(d) \subseteq Usable(d)'
    BY <2>3, Zenon DEF Grows
  <2> QED BY <1>2, <1>3, <2>0, <2>1, <2>5, <2>6, <2>7, FinishKeeps, Zenon
<1> QED BY <1>4, <1>5, Zenon

\* The key pairs a new session of d may hold: the one-time pre-key opk it is built
\* with is one of them.
With(d, opk) == Usable(d) \cup ({opk} \ {NoKey})

\* The session the responder builds for m: no spent message is encrypted in its
\* first receiving chain.  If the one-time pre-key was unused the root key of a
\* spent message does not contain it.  Otherwise a spent message with this root
\* key would have the ek of m, hence its pre-key information, and build the
\* session again itself (manager.go:361, session.go:49).
LEMMA RespondStarts ==
    ASSUME Inv, NEW m \in net, NEW d, d = m.to, NEW p, p = m.from, m.pre # NoPending,
           NEW id, id = m.pre.id, id = NoPreKey \/ id \in DOMAIN opks[d],
           NEW opk, opk = IF id = NoPreKey THEN NoKey ELSE opks[d][id],
           NEW s, s = InitSessionAsBob(IK(d), spk[d], opk, IK(p), m.pre.ek)
    PROVE  Starts(d, p, s, m.header.dh, With(d, opk)) /\ m.header.dh \in With(d, opk)
<1>1. Shapes /\ Stores /\ Messages /\ Pendings
  BY Zenon DEF Inv
<1>2. /\ d \in Devices /\ p \in Devices /\ d # p /\ made \in [Devices -> Nat]
      /\ m.header.dh \in MadeBy(p) /\ m.pre.ek \in MadeBy(p) /\ StoreOK(d)
  BY <1>1, Zenon DEF Messages, MessageOK, Shapes, Stores, PreOK, PreKeyMessages
<1>3. PICK K, ek, dh : K = With(d, opk) /\ ek = m.pre.ek /\ dh = m.header.dh
  BY Zenon
<1>4. Usable(d) \subseteq K /\ (opk = NoKey \/ opk \in K)
  BY <1>3, Zenon DEF With
<1>5. /\ IK(d) \in K /\ spk[d] \in K /\ IK(p) \in K /\ ek \in K /\ dh \in K
      /\ dh # NoKey
  <2>1. IK(d) \in Usable(d) /\ spk[d] \in Usable(d) /\ MadeBy(p) \subseteq Usable(d)
    BY <1>2, UsableKeys, Zenon
  <2>2. IK(p) \in MadeBy(p)
    BY <1>2, IdentityKeys, Zenon
  <2>3. dh # NoKey
    BY <1>2, <1>3, MadeByMade, NilAssumption, Zenon
  <2> QED BY <1>2, <1>3, <1>4, <2>1, <2>2, <2>3, Zenon
<1>6. PICK sec, r : /\ sec = X3DHRespond(IK(d), spk[d], opk, IK(p), ek)
                    /\ r = InitRatchetAsBob(sec, spk[d])
  BY Zenon
<1>7. /\ IsSecret(sec, K, {spk[d], IK(p)}, {IK(d), ek})
      /\ opk # NoKey => Len(sec) = 4 /\ opk \in sec[4]
  <2>1. PICK ik, sp, rik \in K : ik = IK(d) /\ sp = spk[d] /\ rik = IK(p)
    BY <1>5, Zenon
  <2>2. ek \in K
    BY <1>5, Zenon
  <2>3. sec = X3DHRespond(ik, sp, opk, rik, ek)
    BY <1>6, <2>1, Zenon
  <2>4. opk \in K \/ opk = NoKey
    BY <1>4, Zenon
  <2>5. IsSecret(sec, K, {sp, rik}, {ik, ek}) /\ Mixes(sec, opk)
    BY <2>2, <2>3, <2>4, RespondDoes, Zenon
  <2> QED BY <2>1, <2>5, Zenon DEF Mixes
<1>8. /\ Ready(r, dh, K) /\ ~RatchetInv(r, K)
      /\ r.DHs = spk[d] /\ r.RK = sec
      /\ \A c : CanDerive(r, c) => c.root = <<>>
  <2>1. PICK e1, e2, sp : e1 = {spk[d], IK(p)} /\ e2 = {IK(d), ek} /\ sp = spk[d]
    BY Zenon
  <2>2. IsSecret(sec, K, e1, e2) /\ sp \in K /\ r = InitRatchetAsBob(sec, sp)
    BY <1>5, <1>6, <1>7, <2>1, Zenon
  <2>3. /\ Ready(r, dh, K) /\ ~RatchetInv(r, K)
        /\ r.DHs = sp /\ r.RK = sec
        /\ \A c : CanDerive(r, c) => c.root = <<>>
    <3>1. dh # NoKey /\ sp \in K
      BY <1>5, <2>2, Zenon
    <3>2. IsSecret(sec, K, e1, e2)
      BY <2>2, Zenon
    <3>3. r = InitRatchetAsBob(sec, sp)
      BY <2>2, Zenon
    <3> QED BY <3>1, <3>2, <3>3, BobStarts
  <2> QED BY <2>1, <2>3, Zenon
<1>9. s.ratchet = r /\ s.pending = NoPending
  BY <1>3, <1>6, Zenon DEF InitSessionAsBob
<1>10. /\ sec \in Roots(K) /\ Len(sec) \in Nat /\ Len(sec) >= 3 /\ Len(sec) <= 4
       /\ sec[1] = {spk[d], IK(p)} /\ sec[2] = {IK(d), ek}
  BY <1>7, Zenon DEF IsSecret
<1>11. PICK rk1, rk2 : rk1 = NextRoot(r, dh) /\ rk2 = StepRoot(r, dh, dh)
  BY Zenon
<1>12. Len(rk1) = Len(sec) + 1 /\ \A i \in 1 .. Len(sec) : rk1[i] = sec[i]
  <2>1. r.RK \in Roots(K) /\ r.DHs \in K
    BY <1>5, <1>8, <1>10, Zenon
  <2>2. Len(rk1) = Len(r.RK) + 1 /\ \A i \in 1 .. Len(r.RK) : rk1[i] = r.RK[i]
    BY <1>5, <1>11, <2>1, StepRoots
  <2> QED BY <1>8, <2>2, Zenon
<1>13. rk1[1] = {spk[d], IK(p)} /\ rk1[2] = {IK(d), ek} /\ Len(rk1) < 6
  BY <1>10, <1>12
<1>14. ASSUME NEW n \in net, n.to = d, n.from = p, Spent(n), n.key.root = rk1
       PROVE  FALSE
  <2>1. MessageOK(n) /\ rk1 \in Roots(Usable(d)) /\ PreOK(p, d, n.pre, rk1)
    BY <1>1, <1>14, Zenon DEF Messages, MessageOK
  <2>2. CASE id # NoPreKey /\ id \notin kept[d]
    <3>1. opk \in Unused(d) /\ opk # NoKey
      BY <1>2, <2>2, MadeByMade, NilAssumption, Zenon DEF Unused, StoreOK
    <3>2. Len(sec) = 4 /\ opk \in sec[4] /\ 4 \in 1 .. Len(sec) /\ 4 \in 1 .. Len(rk1)
      BY <1>7, <1>10, <1>12, <3>1
    <3>3. rk1[4] \in SUBSET Usable(d)
      <4>1. PICK U : U = SUBSET Usable(d)
        BY Zenon
      <4>2. rk1 \in Seq(U)
        BY <2>1, <4>1, Zenon DEF Roots
      <4> QED BY <3>2, <4>1, <4>2
    <3> QED BY <1>12, <3>1, <3>2, <3>3, Zenon DEF Usable
  <2>3. CASE id = NoPreKey \/ id \in kept[d]
    <3>1. ~Rebuilds(n)
      BY <1>14, Zenon DEF Spent
    <3>2. n.pre # NoPending
      <4>1. IK(d) # spk[d] /\ IK(d) # IK(p)
        BY <1>2, IdentityKeys, Zenon DEF StoreOK
      <4> QED BY <1>13, <2>1, <4>1 DEF PreOK, Answered
    <3>3. n.pre.ek \in MadeBy(p) /\ {n.pre.ek, IK(d)} = {IK(d), ek}
      BY <1>13, <2>1, <3>2, Zenon DEF PreOK, PreKeyMessages
    <3>4. IK(d) \notin MadeBy(p)
      BY <1>2, IdentityKeys, Zenon DEF MadeBy
    <3>5. n.pre.ek = m.pre.ek
      BY <1>2, <1>3, <3>3, <3>4, Zenon
    <3>6. Pending(p, d, n.pre) /\ Pending(p, d, m.pre)
      BY <1>14, <3>2, Zenon DEF Pending
    <3>7. n.pre = m.pre
      BY <1>1, <1>2, <3>5, <3>6, Zenon DEF Pendings
    <3> QED BY <1>14, <2>3, <3>1, <3>2, <3>7, Zenon DEF Rebuilds
  <2> QED BY <2>2, <2>3, Zenon
<1>15. IK(p) \in r.RK[1] /\ spk[d] \in MadeBy(d)
  BY <1>2, <1>8, <1>10, Zenon DEF StoreOK
<1>16. Starts(d, p, s, dh, K)
  BY <1>8, <1>9, <1>11, <1>14, <1>15, Zenon DEF Starts
<1> QED BY <1>3, <1>5, <1>16, Zenon

\* The removal of the one-time pre-key, or its failure, makes the pre-key usable.
LEMMA RemovePreKeyDoes ==
    ASSUME Inv, NEW d \in Devices, NEW id, NEW removed \in BOOLEAN,
           RemovePreKey(d, id, removed),
           id = NoPreKey \/ id \in DOMAIN opks[d],
           NEW opk, opk = IF id = NoPreKey THEN NoKey ELSE opks[d][id],
           UNCHANGED <<spk, published, bundles, calls, net>>
    PROVE  Shrinks /\ (Grows => With(d, opk) \subseteq Usable(d)')
<1>1. /\ DOMAIN opks = Devices /\ DOMAIN kept = Devices /\ StoreOK(d)
      /\ \A e \in Devices : IsFunction(opks[e])
  BY Zenon DEF Inv, Shapes, Stores
<1>2. /\ DOMAIN opks' = Devices /\ DOMAIN kept' = Devices
      /\ \A e \in Devices : /\ kept[e] \subseteq kept'[e] /\ IsFunction(opks'[e])
                            /\ DOMAIN opks'[e] \subseteq DOMAIN opks[e]
                            /\ \A i \in DOMAIN opks'[e] : opks'[e][i] = opks[e][i]
      /\ id \notin DOMAIN opks'[d] \/ id \in kept'[d]
  <2>1. CASE removed
    <3>1. /\ opks' = [opks EXCEPT ![d] = [i \in DOMAIN opks[d] \ {id} |-> opks[d][i]]]
          /\ kept' = kept
      BY <2>1, Zenon DEF RemovePreKey
    <3> QED BY <1>1, <3>1, Zenon DEF IsFunction
  <2>2. CASE ~removed
    <3>1. kept' = [kept EXCEPT ![d] = @ \cup {id}] /\ opks' = opks
      BY <2>2, Zenon DEF RemovePreKey
    <3> QED BY <1>1, <3>1, Zenon
  <2> QED BY <2>1, <2>2, Zenon
<1>3. Shrinks
  BY <1>2, Zenon DEF Shrinks
<1>4. ASSUME Grows PROVE With(d, opk) \subseteq Usable(d)'
  <2>1. Usable(d) \subseteq Usable(d)' /\ Made \subseteq Made'
    BY <1>4, Zenon DEF Grows
  <2>2. CASE id = NoPreKey
    BY <2>1, <2>2, Zenon DEF With
  <2>3. CASE id # NoPreKey
    <3>1. opk \in Made /\ \A j \in DOMAIN opks[d] : opks[d][j] = opk => j = id
      BY <1>1, <2>3, MadeByMade, Zenon DEF StoreOK
    <3>2. opk \notin Unused(d)'
      BY <1>2, <3>1, Zenon DEF Unused
    <3> QED BY <2>1, <3>1, <3>2, Zenon DEF With, Usable
  <2> QED BY <2>2, <2>3, Zenon
<1> QED BY <1>3, <1>4, Zenon

\* DecryptPreKeyMessage (manager.go:315).
LEMMA DecryptPreKeyMessageKeeps ==
    ASSUME Inv, NEW m \in net, DecryptPreKeyMessage(m)
    PROVE  Inv'
<1>1. PICK d, p, id : d = m.to /\ p = m.from /\ id = m.pre.id
  BY Zenon
<1>2. PICK opk : opk = IF id = NoPreKey THEN NoKey ELSE opks[d][id]
  BY Zenon
<1>3. PICK s : s = InitSessionAsBob(IK(d), spk[d], opk, IK(p), m.pre.ek)
  BY Zenon
<1>4. PICK res : res = RatchetDecrypt(s.ratchet, m.header, m.key, Fresh(d, 1))
  BY Zenon
<1>5. m.pre # NoPending /\ UNCHANGED <<spk, published, bundles, calls, net>>
  BY Zenon DEF DecryptPreKeyMessage
<1>6. \/ /\ Rejected(m) /\ UNCHANGED <<opks, kept>>
      \/ /\ id = NoPreKey \/ id \in DOMAIN opks[d]
         /\ \E ok, removed \in BOOLEAN :
                Finish(d, m, s, res, ok) /\ RemovePreKey(d, id, removed)
      \/ /\ id = NoPreKey \/ id \in DOMAIN opks[d]
         /\ RemovePreKey(d, id, TRUE)
         /\ Rejected(m)
  BY <1>1, <1>2, <1>3, <1>4, Zenon DEF DecryptPreKeyMessage
<1>7. /\ d \in Devices /\ DOMAIN opks = Devices /\ DOMAIN kept = Devices
      /\ \A e \in Devices : IsFunction(opks[e])
  BY <1>1, Zenon DEF Inv, Messages, MessageOK, Shapes
<1>8. CASE Rejected(m) /\ UNCHANGED <<opks, kept>>
  <2>1. Shrinks
    BY <1>5, <1>7, <1>8, Zenon DEF Shrinks
  <2> QED BY <1>8, <2>1, RejectedKeeps, Zenon
<1>9. CASE /\ id = NoPreKey \/ id \in DOMAIN opks[d]
           /\ \E ok, removed \in BOOLEAN :
                Finish(d, m, s, res, ok) /\ RemovePreKey(d, id, removed)
  <2>1. PICK ok \in BOOLEAN, removed \in BOOLEAN :
            Finish(d, m, s, res, ok) /\ RemovePreKey(d, id, removed)
    BY <1>9, Zenon
  <2>2. Shrinks /\ (Grows => With(d, opk) \subseteq Usable(d)')
    BY <1>2, <1>5, <1>7, <1>9, <2>1, RemovePreKeyDoes, Zenon
  <2>3. Starts(d, p, s, m.header.dh, With(d, opk)) /\ m.header.dh \in With(d, opk)
    BY <1>1, <1>2, <1>3, <1>5, <1>9, RespondStarts, Zenon
  <2> QED BY <1>1, <1>4, <2>1, <2>2, <2>3, FinishKeeps, Zenon
<1>10. CASE /\ id = NoPreKey \/ id \in DOMAIN opks[d]
            /\ RemovePreKey(d, id, TRUE)
            /\ Rejected(m)
  <2>1. Shrinks
    BY <1>2, <1>5, <1>7, <1>10, RemovePreKeyDoes, Zenon
  <2> QED BY <1>10, <2>1, RejectedKeeps, Zenon
<1> QED BY <1>6, <1>8, <1>9, <1>10, Zenon

-----------------------------------------------------------------------------
(* The invariant and what follows from it. *)

\* A device starts with the keys of its first bundle (bundle.go:21).
LEMMA InitStores ==
    ASSUME Init, NEW d \in Devices
    PROVE  StoreOK(d)
<1> DEFINE T == [id : Ids, key : MadeBy(d)]
           f == [i \in 1 .. PreKeyCount |-> [id |-> i, key |-> <<d, 1 + i>>]]
           b == BundleFrom(d, 1, PreKeyCount)
<1>1. PreKeyCount \in Nat
  BY ManagerAssumption, Zenon
<1>2. /\ made[d] = PreKeyCount + 1 /\ spk[d] = <<d, 1>>
      /\ opks[d] = [i \in Ids |-> <<d, i + 1>>]
      /\ published[d] = b /\ \A p \in Devices : bundles[d][p] = NoBundle
  BY Zenon DEF Init
<1>3. ASSUME NEW k \in Nat, k <= PreKeyCount + 1 PROVE <<d, k>> \in MadeBy(d)
  <2>1. PICK x : x = <<d, k>>
    BY Zenon
  <2>2. x \in Devices \X Nat /\ x[1] = d /\ x[2] = k
    BY <2>1, Zenon
  <2> QED BY <1>2, <1>3, <2>1, <2>2, Zenon DEF MadeBy, Made, Keys
<1>4. spk[d] \in MadeBy(d) /\ spk[d] # IK(d)
  BY <1>1, <1>2, <1>3 DEF IK
<1>5. ASSUME NEW i \in DOMAIN opks[d]
      PROVE  /\ opks[d][i] \in MadeBy(d) /\ opks[d][i] # IK(d) /\ opks[d][i] # spk[d]
             /\ \A j \in DOMAIN opks[d] : opks[d][i] = opks[d][j] => i = j
  <2>1. i \in 1 .. PreKeyCount /\ opks[d][i] = <<d, i + 1>>
    BY <1>2, Zenon DEF Ids
  <2>2. <<d, i + 1>> \in MadeBy(d)
    BY <1>1, <1>3, <2>1
  <2>3. \A j \in DOMAIN opks[d] : j \in 1 .. PreKeyCount /\ opks[d][j] = <<d, j + 1>>
    BY <1>2, Zenon DEF Ids
  <2> QED BY <1>1, <1>2, <2>1, <2>2, <2>3 DEF IK
<1>6. BundleOK(d, published[d])
  <2>1. ASSUME NEW i \in 1 .. PreKeyCount PROVE f[i] \in T
    <3>1. 1 + i \in Nat /\ 1 + i <= PreKeyCount + 1 /\ i \in Ids
      BY <1>1 DEF Ids
    <3>2. <<d, 1 + i>> \in MadeBy(d)
      BY <1>3, <3>1, Zenon
    <3> QED BY <3>1, <3>2, Zenon
  <2>2. f \in Seq(T)
    <3>1. f \in [1 .. PreKeyCount -> T]
      BY <2>1, Zenon
    <3> HIDE DEF f, T
    <3> QED BY <1>1, <3>1
  <2>3. b = [ik |-> IK(d), spk |-> <<d, 1>>, preKeys |-> f]
    BY Zenon DEF BundleFrom
  <2> HIDE DEF f, T
  <2>4. /\ DOMAIN b = {"ik", "spk", "preKeys"} /\ b.ik = IK(d)
        /\ b.spk = <<d, 1>> /\ b.preKeys = f
    BY <2>3
  <2>5. b.spk \in MadeBy(d) /\ b.preKeys \in Seq(T)
    BY <1>2, <1>4, <2>2, <2>4, Zenon
  <2> HIDE DEF b
  <2> QED BY <1>2, <2>4, <2>5, Zenon DEF BundleOK, T
<1> QED BY <1>2, <1>4, <1>5, <1>6, Zenon DEF StoreOK

\* The invariant holds at the start.
LEMMA InitInv ==
    ASSUME Init
    PROVE  Inv
<1>1. PreKeyCount \in Nat /\ MaxSent \in Nat
  BY ManagerAssumption, Zenon
<1>2. Shapes
  BY <1>1 DEF Init, Shapes, IsTable, IsFunction
<1>3. Stores
  BY InitStores, Zenon DEF Stores
<1>4. net = {} /\ \A d, p \in Devices : \A s : ~Session(d, p, s)
  BY Zenon DEF Init, Session
<1>5. Sessions /\ Messages /\ AllClosed /\ RootKeys
  BY <1>4, Zenon DEF Sessions, Messages, AllClosed, RootKeys
<1>6. Pendings
  BY <1>4, Zenon DEF Pendings, Pending
<1> QED BY <1>2, <1>3, <1>5, <1>6, Zenon DEF Inv

\* Every step keeps it.
LEMMA NextInv ==
    ASSUME Inv, [Next]_vars
    PROVE  Inv'
<1>1. CASE Next
  BY <1>1, GenerateBundleKeeps, GenerateBundleFailsKeeps, RestartKeeps, ProcessBundleKeeps,
     EncryptKeeps, EncryptFailsKeeps, DecryptKeeps, DecryptPreKeyMessageKeeps, Zenon DEF Next
<1>2. CASE UNCHANGED vars
  <2>1. UNCHANGED <<made, spk, opks, saved, published, bundles, sessions, calls, net,
                    returned, failed, kept>>
    BY <1>2, Zenon DEF vars, storeVars
  <2>2. Shapes /\ Stores
    BY Zenon DEF Inv
  <2>3. Grows
    BY <2>1, <2>2, GrowsWhen DEF Shapes
  <2>4. Shapes'
    BY <2>1, <2>2, Zenon DEF Shapes, IsTable
  <2>5. Stores'
    BY <2>1, <2>2, <2>3, StoreStays, Zenon DEF Stores
  <2>6. \A e, q \in Devices : \A s : Session(e, q, s)' => Session(e, q, s)
    BY <2>1, Zenon DEF Session
  <2>7. calls <= calls'
    BY <2>1, <2>2 DEF Shapes
  <2> QED BY <2>1, <2>3, <2>4, <2>5, <2>6, <2>7, QuietStep, Zenon
<1> QED BY <1>1, <1>2, Zenon

\* The inductive invariant: every session, message and store is made of key pairs
\* that were made; root keys are shared only by the memory and the store of one
\* device about one peer; no session gives the key of a spent message away.
THEOREM Invariance == Spec => []Inv
<1>1. Init => Inv
  BY InitInv, Zenon
<1>2. Inv /\ [Next]_vars => Inv'
  BY NextInv, Zenon
<1> QED BY <1>1, <1>2, PTL DEF Spec

\* The types of sessions, stores and messages.
THEOREM TypeCorrect == Spec => []TypeOK
<1>1. Inv => TypeOK
  <2> SUFFICES ASSUME Inv PROVE TypeOK
    BY Zenon
  <2>1. Shapes /\ Stores /\ Sessions /\ Messages
    BY Zenon DEF Inv
  <2>2. ASSUME NEW d \in Devices, NEW p \in Devices, NEW s, Session(d, p, s)
        PROVE  IsRatchet(s.ratchet) /\ (s.pending = NoPending \/ s.pending.ek \in Keys)
    <3>1. SessionOK(d, p, s)
      BY <2>1, <2>2, Zenon DEF Sessions
    <3>2. RatchetInv(s.ratchet, Keys)
      <4>1. RatchetInv(s.ratchet, Usable(d)) /\ Usable(d) \subseteq Keys
        BY <3>1, MadeByMade, Zenon DEF SessionOK
      <4> QED BY <4>1, InvGrows, Zenon
    <3>3. Roots(Keys) = Seq(SUBSET Keys) /\ ChainsOver(Keys) = Chains
      BY Zenon DEF Roots, ChainsOver, Chains
    <3>4. IsRatchet(s.ratchet)
      BY <3>2, <3>3, Zenon DEF IsRatchet, RatchetInv, RatchetBase
    <3>5. s.pending = NoPending \/ s.pending.ek \in Keys
      BY <3>1, MadeByMade, Zenon DEF SessionOK, PreOK, PreKeyMessages
    <3> QED BY <3>4, <3>5, Zenon
  <2>3. \A d, p \in Devices : \A s \in {sessions[d][p], saved[d][p]} \ {NoSession} :
            IsRatchet(s.ratchet) /\ (s.pending = NoPending \/ s.pending.ek \in Keys)
    BY <2>2, Zenon DEF Session
  <2>4. ASSUME NEW d \in Devices
        PROVE  opks[d] \in [DOMAIN opks[d] -> Keys] /\ spk[d] \in Keys
    <3>1. StoreOK(d) /\ MadeBy(d) \subseteq Keys
      BY <2>1, MadeByMade, Zenon DEF Stores
    <3>2. IsFunction(opks[d]) /\ \A i \in DOMAIN opks[d] : opks[d][i] \in Keys
      BY <2>1, <3>1, Zenon DEF StoreOK, Shapes
    <3>3. opks[d] \in [DOMAIN opks[d] -> Keys]
      BY <3>2, Zenon DEF IsFunction
    <3> QED BY <3>1, <3>3, Zenon DEF StoreOK
  <2>5. ASSUME NEW m \in net PROVE m.key \in Chains /\ {m.from, m.to} \subseteq Devices
    <3>1. MessageOK(m) /\ ChainsOver(Made) \subseteq ChainsOver(Keys)
      BY <2>1, MadeByMade, ChainsGrow, Zenon DEF Messages
    <3> QED BY <3>1, Zenon DEF MessageOK, ChainsOver, Chains, Roots
  <2>6. failed \subseteq 1 .. calls
    BY <2>1, Zenon DEF Shapes
  <2> QED BY <2>3, <2>4, <2>5, <2>6, Zenon DEF TypeOK
<1> QED BY <1>1, Invariance, PTL

\* Encrypt never hands two messages under one key to the network, whatever the
\* restarts, failed saves and repeated deliveries (manager.go:104).
THEOREM KeysUsedOnce == Spec => []KeyUsedOnce
<1>1. Inv => KeyUsedOnce
  BY Zenon DEF Inv, Messages, KeyUsedOnce
<1> QED BY <1>1, Invariance, PTL

\* Decrypt and DecryptPreKeyMessage return no plaintext twice, unless the pre-key
\* message builds its session again (manager.go:180, 423).
THEOREM DecryptedAtMostOnce == Spec => []AtMostOnce
<1>1. Inv => AtMostOnce
  BY Zenon DEF Inv, Messages, MessageOK, AtMostOnce
<1> QED BY <1>1, Invariance, PTL

\* A key whose plaintext was returned is out of reach of the memory and of the
\* store (ratchet.go:131, 147).
THEOREM KeysForgotten == Spec => []ForwardSecrecy
<1>1. Inv => ForwardSecrecy
  BY Zenon DEF Inv, AllClosed, Closed, Session, Spent, ForwardSecrecy
<1> QED BY <1>1, Invariance, PTL

=============================================================================
