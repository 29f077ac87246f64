--------------------------- MODULE OmemoManager ----------------------------
(***************************************************************************)
(* Devices that talk through crypto/omemo/manager.go: sessions in memory   *)
(* and in the device's Store, one-time pre-keys, published bundles, and a  *)
(* network that delays, reorders, loses and repeats messages.              *)
(*                                                                         *)
(* Manager.mu makes every method one step.  A step ends where a device may *)
(* crash with a difference: a SaveSession that fails or is never reached   *)
(* leaves the memory ahead of the store, and Restart falls back to what    *)
(* was saved.  Plaintexts, IVs and authentication tags are left out: what  *)
(* the ratchet protects is the key of one message.                         *)
(*                                                                         *)
(* Identity keys never change here, so of SaveRemoteIdentity only its      *)
(* failure is modelled.                                                    *)
(***************************************************************************)
EXTENDS OmemoRatchet

CONSTANTS
    Devices,        \* addresses, one manager and one store each
    Initiators,     \* devices whose application fetches bundles
    Responders,     \* devices whose bundles are fetched
    PreKeyCount,    \* one-time pre-keys in a bundle
    Dispatches,     \* how applications tell pre-key messages: "flag", "session"
    MaxSent,        \* bound: calls of Encrypt
    MaxRepeats,     \* bound: deliveries of messages that were delivered before
    MaxRestarts,    \* bound: restarts of a device
    MaxFaults,      \* bound: writes to the store that fail
    MaxBundles,     \* bound: calls of GenerateBundle after the first
    NoSession, NoBundle

ASSUME ManagerAssumption ==
    /\ Initiators \subseteq Devices
    /\ Responders \subseteq Devices
    /\ Dispatches \subseteq {"flag", "session"}
    /\ {PreKeyCount, MaxSent, MaxRepeats, MaxRestarts, MaxFaults, MaxBundles} \subseteq Nat

\* Key pairs by the device that made them, and ids of one-time pre-keys.
Keys == Devices \X Nat

Ids == 1 .. PreKeyCount

\* The nil values are no keys and no pending pre-key messages.
ASSUME NilAssumption ==
    /\ NoKey \notin Keys
    /\ NoPending \notin [id : Ids \cup {NoPreKey}, ek : Keys]

VARIABLES
    made,        \* key pairs each device has generated
    spk,         \* store: the signed pre-key (its id is always 1)
    opks,        \* store: one-time pre-keys by id
    saved,       \* store: sessions by peer
    published,   \* the bundle on the server (PEP)
    bundles,     \* memory: Manager.bundles
    sessions,    \* memory: Manager.sessions
    calls,       \* calls of Encrypt so far
    net,         \* messages that were handed to the network
    tried,       \* messages that were delivered
    returned,    \* how often its plaintext was returned to the application
    failed,      \* messages a delivery of which returned an error
    kept,        \* history: ids of pre-keys whose removal failed
    repeats, restarts, faults, regenerated

storeVars == <<spk, opks, saved, published>>
boundVars == <<repeats, restarts, faults, regenerated>>
vars == <<made, storeVars, bundles, sessions, calls, net, tried, returned, failed,
          kept, boundVars>>

IK(d) == <<d, 0>>

\* The i-th key pair device d generates from now on.
Fresh(d, i) == <<d, made[d] + i>>

\* The bundle whose signed pre-key is key pair first, with n one-time pre-keys.
BundleFrom(d, first, n) ==
    [ik |-> IK(d), spk |-> <<d, first>>,
     preKeys |-> [i \in 1 .. n |-> [id |-> i, key |-> <<d, first + i>>]]]

Init ==
    /\ made = [d \in Devices |-> PreKeyCount + 1]
    /\ spk = [d \in Devices |-> <<d, 1>>]
    /\ opks = [d \in Devices |-> [i \in Ids |-> <<d, i + 1>>]]
    /\ saved = [d \in Devices |-> [p \in Devices |-> NoSession]]
    /\ published = [d \in Devices |-> BundleFrom(d, 1, PreKeyCount)]
    /\ bundles = [d \in Devices |-> [p \in Devices |-> NoBundle]]
    /\ sessions = [d \in Devices |-> [p \in Devices |-> NoSession]]
    /\ calls = 0
    /\ net = {}
    /\ tried = {}
    /\ returned = [i \in 1 .. MaxSent |-> 0]
    /\ failed = {}
    /\ kept = [d \in Devices |-> {}]
    /\ repeats = 0
    /\ restarts = 0
    /\ faults = 0
    /\ regenerated = 0

-----------------------------------------------------------------------------
(* Bundles (bundle.go). *)

\* A new signed pre-key under the same id 1 and new one-time pre-keys under the
\* same ids replace the old ones (ids above n keep theirs); the application
\* publishes them.
GenerateBundle(d, n) ==
    /\ regenerated < MaxBundles
    /\ regenerated' = regenerated + 1
    /\ made' = [made EXCEPT ![d] = @ + n + 1]
    /\ spk' = [spk EXCEPT ![d] = Fresh(d, 1)]
    /\ opks' = [opks EXCEPT ![d] = [i \in DOMAIN @ \cup 1 .. n |->
                                        IF i \in 1 .. n THEN Fresh(d, i + 1) ELSE @[i]]]
    /\ published' = [published EXCEPT ![d] = BundleFrom(d, made[d] + 1, n)]
    /\ UNCHANGED <<saved, bundles, sessions, calls, net, tried, returned, failed,
                   kept, repeats, restarts, faults>>

\* The store fails at one of GenerateBundle's writes: the k-th one-time pre-key,
\* or the signed pre-key when k is 0.  What was written before stays, and no new
\* bundle is returned.
GenerateBundleFails(d, k) ==
    /\ regenerated < MaxBundles
    /\ regenerated' = regenerated + 1
    /\ faults < MaxFaults
    /\ faults' = faults + 1
    /\ made' = [made EXCEPT ![d] = @ + k + 1]
    /\ spk' = [spk EXCEPT ![d] = IF k = 0 THEN @ ELSE Fresh(d, 1)]
    /\ opks' = [opks EXCEPT ![d] = [i \in DOMAIN @ \cup 1 .. k - 1 |->
                                        IF i \in 1 .. k - 1 THEN Fresh(d, i + 1) ELSE @[i]]]
    /\ UNCHANGED <<saved, published, bundles, sessions, calls, net, tried, returned,
                   failed, kept, repeats, restarts>>

\* The application fetched p's bundle from the server (again fetching the same one
\* changes nothing).
ProcessBundle(d, p) ==
    /\ d \in Initiators /\ p \in Responders /\ d # p
    /\ bundles[d][p] # published[p]
    /\ bundles' = [bundles EXCEPT ![d][p] = published[p]]
    /\ UNCHANGED <<made, storeVars, sessions, calls, net, tried, returned, failed,
                   kept, boundVars>>

-----------------------------------------------------------------------------
(* Sessions. *)

\* The session in memory, else the one in the store.
Loaded(d, p) == IF sessions[d][p] # NoSession THEN sessions[d][p] ELSE saved[d][p]

\* The outcomes of a call's writes to the store; at most one of them fails.
Writes(ok1, ok2) ==
    \/ ok1 /\ ok2 /\ UNCHANGED faults
    \/ ok1 # ok2 /\ faults < MaxFaults /\ faults' = faults + 1

saveSession(d, p, s, ok) ==
    saved' = IF ok THEN [saved EXCEPT ![d][p] = s] ELSE saved

\* getOrCreateSession without a session: X3DH with the cached bundle, whose
\* first one-time pre-key is used up.
CreateSession(d, p) ==
    InitSessionAsAlice(IK(d), bundles[d][p], Fresh(d, 1), Fresh(d, 2))

DropPreKey(b) == [b EXCEPT !.preKeys = IF @ = <<>> THEN @ ELSE Tail(@)]

Advanced(s) == [s EXCEPT !.ratchet = RatchetEncrypt(@)]

\* Mutant: the session is saved before it encrypts.
saveSentEarly(d, p, s, ok) == saveSession(d, p, s, ok)

\* The save at the end of Encrypt's loop body; s is the session before.
saveSent(d, p, s, ok) == saveSession(d, p, Advanced(s), ok)

\* The store refuses the peer's identity key before a new session is kept.
SaveRemoteIdentityFails == faults < MaxFaults /\ faults' = faults + 1

\* Encrypt for p without a session fails there: the key pairs of the session are
\* thrown away and the cached bundle keeps its pre-key.
EncryptFails(d, p) ==
    /\ calls < MaxSent
    /\ d # p
    /\ Loaded(d, p) = NoSession
    /\ bundles[d][p] # NoBundle
    /\ SaveRemoteIdentityFails
    /\ made' = [made EXCEPT ![d] = @ + 2]
    /\ calls' = calls + 1
    /\ UNCHANGED <<storeVars, bundles, sessions, net, tried, returned, failed, kept,
                   repeats, restarts, regenerated>>

\* Encrypt for p.  The message reaches the network only when the session was
\* saved and the other recipients of the same call did not fail.
Encrypt(d, p) ==
    /\ calls < MaxSent
    /\ d # p
    /\ Loaded(d, p) # NoSession \/ bundles[d][p] # NoBundle
    /\ LET new == Loaded(d, p) = NoSession
           s == IF new THEN CreateSession(d, p) ELSE Loaded(d, p)
       IN  /\ made' = IF new THEN [made EXCEPT ![d] = @ + 2] ELSE made
           /\ bundles' = IF new THEN [bundles EXCEPT ![d][p] = DropPreKey(@)] ELSE bundles
           /\ calls' = calls + 1
           /\ sessions' = [sessions EXCEPT ![d][p] = Advanced(s)]
           /\ \E ok, others \in BOOLEAN :
                /\ Writes(ok, others)
                /\ saveSent(d, p, s, ok)
                /\ net' = IF ok /\ others
                          THEN net \cup {[id |-> calls + 1, from |-> d, to |-> p,
                                          pre |-> s.pending,
                                          header |-> EncryptHeader(s.ratchet),
                                          key |-> EncryptKey(s.ratchet)]}
                          ELSE net
    /\ UNCHANGED <<spk, opks, published, tried, returned, failed, kept,
                   repeats, restarts, regenerated>>

-----------------------------------------------------------------------------
(* Receiving. *)

\* The end of Decrypt and DecryptPreKeyMessage: s is the session the ratchet
\* works on.  A failed decryption leaves the changed session in memory and the
\* store as it was.
Finish(d, m, s, res, ok) ==
    LET s2 == [ratchet |-> res.ratchet,
               pending |-> IF res.ok THEN NoPending ELSE s.pending]
    IN  /\ sessions' = [sessions EXCEPT ![d][m.from] = s2]
        /\ made' = IF res.took THEN [made EXCEPT ![d] = @ + 1] ELSE made
        /\ saveSession(d, m.from, s2, res.ok /\ ok)
        /\ returned' = IF res.ok /\ ok THEN [returned EXCEPT ![m.id] = @ + 1] ELSE returned
        /\ failed' = IF res.ok /\ ok THEN failed ELSE failed \cup {m.id}

Rejected(m) ==
    /\ failed' = failed \cup {m.id}
    /\ UNCHANGED <<made, saved, sessions, returned>>

Delivered(m) ==
    /\ tried' = tried \cup {m.id}
    /\ IF m.id \in tried
       THEN repeats < MaxRepeats /\ repeats' = repeats + 1
       ELSE UNCHANGED repeats

\* An application calls Decrypt for a message without the pre-key flag or, when
\* it goes by the store ("session"), for any message of a peer it has a session
\* with.
Decrypt(m) ==
    LET d == m.to
        s == Loaded(d, m.from)
    IN  /\ Delivered(m)
        /\ \/ m.pre = NoPending
           \/ "session" \in Dispatches /\ saved[d][m.from] # NoSession
        /\ \/ /\ s = NoSession
              /\ Rejected(m)
              /\ UNCHANGED faults
           \/ /\ s # NoSession
              /\ \E ok \in BOOLEAN :
                    /\ Writes(ok, TRUE)
                    /\ Finish(d, m, s, RatchetDecrypt(s.ratchet, m.header, m.key, Fresh(d, 1)), ok)
        /\ UNCHANGED <<spk, opks, published, bundles, calls, net, kept, restarts, regenerated>>

\* Mutant: the one-time pre-key is not removed.
RemovePreKeyNot(d, id, removed) == UNCHANGED <<opks, kept>>

RemovePreKey(d, id, removed) ==
    IF removed
    THEN /\ opks' = [opks EXCEPT ![d] = [i \in DOMAIN @ \ {id} |-> @[i]]]
         /\ UNCHANGED kept
    ELSE /\ kept' = [kept EXCEPT ![d] = @ \cup {id}]
         /\ UNCHANGED opks

\* The one-time pre-key is removed, whatever comes after, and an error of the
\* removal is ignored.  A session that exists already is replaced.
DecryptPreKeyMessage(m) ==
    LET d == m.to
        id == m.pre.id
        opk == IF id = NoPreKey THEN NoKey ELSE opks[d][id]
        s == InitSessionAsBob(IK(d), spk[d], opk, IK(m.from), m.pre.ek)
    IN  /\ Delivered(m)
        /\ m.pre # NoPending
        /\ \/ "flag" \in Dispatches
           \/ "session" \in Dispatches /\ saved[d][m.from] = NoSession
        /\ \/ /\ id # NoPreKey /\ id \notin DOMAIN opks[d]
              /\ Rejected(m)
              /\ UNCHANGED faults
              /\ UNCHANGED <<opks, kept>>
           \/ /\ id = NoPreKey \/ id \in DOMAIN opks[d]
              /\ \E ok, removed \in BOOLEAN :
                    /\ id = NoPreKey => removed
                    /\ Writes(ok, removed)
                    /\ Finish(d, m, s, RatchetDecrypt(s.ratchet, m.header, m.key, Fresh(d, 1)), ok)
                    /\ RemovePreKey(d, id, removed)
           \/ /\ id = NoPreKey \/ id \in DOMAIN opks[d]
              /\ SaveRemoteIdentityFails
              /\ RemovePreKey(d, id, TRUE)
              /\ Rejected(m)
        /\ UNCHANGED <<spk, published, bundles, calls, net, restarts, regenerated>>

\* NewManager on the same store.
Restart(d) ==
    /\ restarts < MaxRestarts
    /\ restarts' = restarts + 1
    /\ bundles' = [bundles EXCEPT ![d] = [p \in Devices |-> NoBundle]]
    /\ sessions' = [sessions EXCEPT ![d] = [p \in Devices |-> NoSession]]
    /\ UNCHANGED <<made, storeVars, calls, net, tried, returned, failed, kept,
                   repeats, faults, regenerated>>

Next ==
    \/ \E d \in Devices, n \in 0 .. PreKeyCount :
            GenerateBundle(d, n) \/ GenerateBundleFails(d, n)
    \/ \E d \in Devices : Restart(d)
    \/ \E d, p \in Devices : ProcessBundle(d, p) \/ Encrypt(d, p) \/ EncryptFails(d, p)
    \/ \E m \in net : Decrypt(m) \/ DecryptPreKeyMessage(m)

Spec == Init /\ [][Next]_vars

-----------------------------------------------------------------------------
(* Properties. *)

Chains == [root : Seq(SUBSET Keys), n : Nat]

IsRatchet(r) ==
    /\ r.DHs \in Keys /\ r.DHr \in Keys \cup {NoKey}
    /\ r.RK \in Seq(SUBSET Keys) /\ {r.CKs, r.CKr} \subseteq Chains
    /\ {r.Ns, r.Nr, r.PN} \subseteq Nat
    /\ \A x \in DOMAIN r.MKSkipped : x \in Keys \X Nat /\ r.MKSkipped[x] \in Chains

TypeOK ==
    /\ \A d, p \in Devices : \A s \in {sessions[d][p], saved[d][p]} \ {NoSession} :
            /\ IsRatchet(s.ratchet)
            /\ s.pending = NoPending \/ s.pending.ek \in Keys
    /\ \A d \in Devices : opks[d] \in [DOMAIN opks[d] -> Keys] /\ spk[d] \in Keys
    /\ \A m \in net : m.key \in Chains /\ {m.from, m.to} \subseteq Devices
    /\ failed \subseteq 1 .. calls

\* No two messages that reached the network are encrypted with the same key,
\* through restarts, failed saves, replaced sessions and repeated deliveries
\* (docs/omemo.md:10).  Encrypt saves the advanced ratchet before it returns
\* the message (manager.go:104).
KeyUsedOnce ==
    \A m1, m2 \in net : m1.key = m2.key => m1 = m2

\* A pre-key message from which the receiver can build the session again: it
\* uses no one-time pre-key, or one that the store failed to remove.
Rebuilds(m) ==
    m.pre # NoPending /\ (m.pre.id = NoPreKey \/ m.pre.id \in kept[m.to])

\* A message is decrypted at most once however often it is delivered, also when
\* the device restarts in between: its key is deleted or passed and the session
\* saved before the plaintext is returned (manager.go:180, 357, 423).
AtMostOnce ==
    \A m \in net : returned[m.id] > 1 => Rebuilds(m)

\* Once the plaintext of a message has been returned neither the session in
\* memory nor the one a restart would load can derive its key again
\* (ratchet.go:131, 147; docs/omemo.md:10).
ForwardSecrecy ==
    \A m \in net : \A s \in {sessions[m.to][m.from], saved[m.to][m.from]} :
        returned[m.id] > 0 /\ ~Rebuilds(m) /\ s # NoSession
            => ~CanDerive(s.ratchet, m.key)

\* A message that is delivered once is decrypted, in whatever order messages
\* arrive and whichever are lost, as long as no more than MaxSkip are skipped:
\* docs/omemo.md:415 says so of first and later messages, ratchet_test.go:136 of
\* messages in reverse order.
DeliveredOnceDecrypts == failed = {}

\* A ratchet stores at most maxSkippedKeys skipped keys: skipMessageKeys returns
\* ErrSkippedKeyLimit above that (ratchet.go:168).
SkippedKeysBounded ==
    \A d, p \in Devices :
        sessions[d][p] # NoSession =>
            Cardinality(DOMAIN sessions[d][p].ratchet.MKSkipped) <= MaxSkip
=============================================================================
