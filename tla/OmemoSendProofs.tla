-------------------------- MODULE OmemoSendProofs ---------------------------
(***************************************************************************)
(* The actions of OmemoManager that make keys, exchange bundles, restart a *)
(* device or send a message keep the invariant of OmemoInvariant.          *)
(***************************************************************************)
EXTENDS OmemoInvariant

(* Steps that touch no session. *)

\* ProcessBundle only fills the cache of bundles (manager.go:29).
LEMMA ProcessBundleKeeps ==
    ASSUME Inv, NEW d \in Devices, NEW p \in Devices, ProcessBundle(d, p)
    PROVE  Inv'
<1>1. Shapes /\ Stores
  BY Zenon DEF Inv
<1>2. /\ UNCHANGED <<made, spk, opks, saved, published, sessions, calls, net, returned,
                     failed, kept>>
      /\ bundles' = [bundles EXCEPT ![d][p] = published[p]]
  BY Zenon DEF ProcessBundle, storeVars
<1>3. Grows
  BY <1>1, <1>2, GrowsWhen DEF Shapes
<1>4. /\ IsTable(bundles')
      /\ \A e, q \in Devices :
            bundles'[e][q] = IF e = d /\ q = p THEN published[p] ELSE bundles[e][q]
  BY <1>1, <1>2, Zenon DEF Shapes, IsTable
<1>5. Shapes'
  BY <1>1, <1>2, <1>4, Zenon DEF Shapes, IsTable
<1>6. Stores'
  <2> SUFFICES ASSUME NEW e \in Devices PROVE StoreOK(e)'
    BY Zenon DEF Stores
  <2>1. BundleOK(p, published[p])
    BY <1>1, Zenon DEF Stores, StoreOK
  <2> QED BY <1>1, <1>2, <1>3, <1>4, <2>1, StoreStays DEF Stores
<1>7. \A e, q \in Devices : \A s : Session(e, q, s)' => Session(e, q, s)
  BY <1>2, Zenon DEF Session
<1>8. calls <= calls'
  BY <1>1, <1>2 DEF Shapes
<1> QED BY <1>2, <1>3, <1>5, <1>6, <1>7, <1>8, QuietStep, Zenon

\* A restart forgets sessions and bundles, and the store keeps what it has.
LEMMA RestartKeeps ==
    ASSUME Inv, NEW d \in Devices, Restart(d)
    PROVE  Inv'
<1>1. Shapes /\ Stores
  BY Zenon DEF Inv
<1>2. /\ UNCHANGED <<made, spk, opks, saved, published, calls, net, returned, failed, kept>>
      /\ bundles' = [bundles EXCEPT ![d] = [p \in Devices |-> NoBundle]]
      /\ sessions' = [sessions EXCEPT ![d] = [p \in Devices |-> NoSession]]
  BY Zenon DEF Restart, storeVars
<1>3. Grows
  BY <1>1, <1>2, GrowsWhen DEF Shapes
<1>4. /\ IsTable(bundles') /\ IsTable(sessions')
      /\ \A e, q \in Devices :
            /\ bundles'[e][q] = IF e = d THEN NoBundle ELSE bundles[e][q]
            /\ sessions'[e][q] = IF e = d THEN NoSession ELSE sessions[e][q]
  BY <1>1, <1>2, Zenon DEF Shapes, IsTable
<1>5. Shapes'
  BY <1>1, <1>2, <1>4, Zenon DEF Shapes, IsTable
<1>6. Stores'
  BY <1>1, <1>2, <1>3, <1>4, StoreStays DEF Stores
<1>7. \A e, q \in Devices : \A s : Session(e, q, s)' => Session(e, q, s)
  BY <1>2, <1>4 DEF Session
<1>8. calls <= calls'
  BY <1>1, <1>2 DEF Shapes
<1> QED BY <1>2, <1>3, <1>5, <1>6, <1>7, <1>8, QuietStep, Zenon

\* Encrypt that fails before a session is kept leaves two pairs that nobody uses.
LEMMA EncryptFailsKeeps ==
    ASSUME Inv, NEW d \in Devices, NEW p \in Devices, EncryptFails(d, p)
    PROVE  Inv'
<1>1. Shapes /\ Stores
  BY Zenon DEF Inv
<1>2. /\ UNCHANGED <<spk, opks, saved, published, bundles, sessions, net, returned,
                     failed, kept>>
      /\ made' = [made EXCEPT ![d] = @ + 2]
      /\ calls < MaxSent /\ calls' = calls + 1
  BY Zenon DEF EncryptFails, storeVars
<1>3. made \in [Devices -> Nat] /\ calls \in Nat
  BY <1>1, Zenon DEF Shapes
<1>4. made' \in [Devices -> Nat] /\ \A e \in Devices : made[e] <= made'[e]
  BY <1>2, <1>3
<1>5. Grows
  BY <1>2, <1>3, <1>4, GrowsWhen, Zenon
<1>6. MaxSent \in Nat
  BY ManagerAssumption, Zenon
<1>7. Shapes'
  <2>1. /\ returned \in [1 .. MaxSent -> Nat] /\ failed \subseteq 1 .. calls
        /\ \A i \in 1 .. MaxSent : i > calls => returned[i] = 0
    BY <1>1, Zenon DEF Shapes
  <2>2. \A i \in 1 .. MaxSent : i > calls + 1 => returned[i] = 0
    BY <1>3, <1>6, <2>1
  <2>3. failed \subseteq 1 .. calls + 1 /\ calls + 1 \in Nat /\ calls + 1 <= MaxSent
    BY <1>2, <1>3, <1>6, <2>1
  <2> QED BY <1>1, <1>2, <1>4, <2>1, <2>2, <2>3, Zenon DEF Shapes, IsTable
<1>8. Stores'
  BY <1>1, <1>2, <1>5, StoreStays, Zenon DEF Stores
<1>9. \A e, q \in Devices : \A s : Session(e, q, s)' => Session(e, q, s)
  BY <1>2, Zenon DEF Session
<1> QED BY <1>2, <1>3, <1>5, <1>7, <1>8, <1>9, QuietStep

\* Pre-keys 1 to n of d are replaced by new ones: the pairs after the signed
\* pre-key, which is new too if there is one to replace (bundle.go:38-61).
LEMMA PreKeysStep ==
    ASSUME Shapes, NEW d \in Devices, StoreOK(d), NEW n \in Int, NEW g \in Nat, n < g,
           made' = [made EXCEPT ![d] = @ + g],
           spk'[d] = spk[d] \/ (g > 0 /\ spk'[d] = Fresh(d, 1)),
           opks'[d] = [i \in DOMAIN opks[d] \cup 1 .. n |->
                            IF i \in 1 .. n THEN Fresh(d, i + 1) ELSE opks[d][i]],
           \A e \in Devices : e # d => opks'[e] = opks[e], kept' = kept
    PROVE  /\ Grows
           /\ spk'[d] \in MadeBy(d)' /\ spk'[d] # IK(d)
           /\ \A i \in DOMAIN opks'[d] :
                /\ opks'[d][i] \in MadeBy(d)' /\ opks'[d][i] # IK(d) /\ opks'[d][i] # spk'[d]
                /\ \A j \in DOMAIN opks'[d] : opks'[d][i] = opks'[d][j] => i = j
<1>1. made \in [Devices -> Nat]
  BY Zenon DEF Shapes
<1>2. /\ made' \in [Devices -> Nat] /\ made'[d] = made[d] + g
      /\ \A e \in Devices : made[e] <= made'[e]
  BY <1>1
<1>3. ASSUME NEW i \in Nat, i >= 1, i <= g
      PROVE  /\ Fresh(d, i) \in MadeBy(d)' /\ Fresh(d, i) \notin Made
             /\ Fresh(d, i) # IK(d)
  <2>1. Fresh(d, i) = <<d, made[d] + i>> /\ made[d] + i \in Nat /\ made[d] + i <= made'[d]
    BY <1>1, <1>2, <1>3 DEF Fresh
  <2>2. Fresh(d, i) \notin Made
    BY <1>1, <1>3, FreshKeys, Zenon
  <2>3. IK(d) \in Made
    BY <1>1, IdentityKeys, MadeByMade, Zenon
  <2> QED BY <2>1, <2>2, <2>3 DEF MadeBy, Made, Keys
<1>4. \A i, j \in Nat : Fresh(d, i) = Fresh(d, j) => i = j
  BY <1>1 DEF Fresh
<1>5. ASSUME NEW i \in 1 .. n
      PROVE  /\ opks'[d][i] = Fresh(d, i + 1) /\ opks'[d][i] \in MadeBy(d)'
             /\ opks'[d][i] \notin Made /\ opks'[d][i] # IK(d) /\ i + 1 \in Nat /\ i + 1 # 1
  <2>1. i + 1 \in Nat /\ i + 1 >= 1 /\ i + 1 <= g /\ i + 1 # 1
    OBVIOUS
  <2>2. opks'[d][i] = Fresh(d, i + 1)
    BY Zenon
  <2> QED BY <1>3, <2>1, <2>2, Zenon
<1>6. ASSUME NEW i \in DOMAIN opks'[d], i \notin 1 .. n
      PROVE  i \in DOMAIN opks[d] /\ opks'[d][i] = opks[d][i]
  BY <1>6, Zenon
<1>7. \A e \in Devices : \A i \in DOMAIN opks'[e] \ kept'[e] :
            \/ opks'[e][i] \notin Made
            \/ i \in DOMAIN opks[e] /\ opks'[e][i] = opks[e][i]
  BY <1>5, <1>6, Zenon
<1>8. Grows
  BY <1>1, <1>2, <1>7, GrowsWhen, Zenon
<1>9. MadeBy(d) \subseteq MadeBy(d)' /\ MadeBy(d) \subseteq Made
  BY <1>8, MadeByMade, Zenon DEF Grows
<1>10. spk'[d] \in MadeBy(d)' /\ spk'[d] # IK(d)
  BY <1>3, <1>9 DEF StoreOK
<1>11. ASSUME NEW i \in DOMAIN opks'[d]
       PROVE  /\ opks'[d][i] \in MadeBy(d)' /\ opks'[d][i] # IK(d) /\ opks'[d][i] # spk'[d]
              /\ \A j \in DOMAIN opks'[d] : opks'[d][i] = opks'[d][j] => i = j
  <2>1. CASE i \in 1 .. n
    <3>1. opks'[d][i] # spk'[d]
      <4>1. CASE spk'[d] = spk[d]
        BY <1>5, <1>9, <2>1, <4>1, Zenon DEF StoreOK
      <4>2. CASE spk'[d] = Fresh(d, 1)
        BY <1>4, <1>5, <2>1, <4>2
      <4> QED BY <4>1, <4>2, Zenon
    <3>2. ASSUME NEW j \in DOMAIN opks'[d], opks'[d][i] = opks'[d][j] PROVE i = j
      <4>1. CASE j \in 1 .. n
        <5>1. i + 1 = j + 1
          BY <1>4, <1>5, <2>1, <3>2, <4>1
        <5> QED BY <2>1, <4>1, <5>1
      <4>2. CASE j \notin 1 .. n
        BY <1>5, <1>6, <1>9, <2>1, <3>2, <4>2, Zenon DEF StoreOK
      <4> QED BY <4>1, <4>2, Zenon
    <3> QED BY <1>5, <2>1, <3>1, <3>2, Zenon
  <2>2. CASE i \notin 1 .. n
    <3>1. i \in DOMAIN opks[d] /\ opks'[d][i] = opks[d][i]
      BY <1>6, <2>2, Zenon
    <3>2. opks[d][i] \in MadeBy(d) /\ opks[d][i] # IK(d) /\ opks[d][i] # spk[d]
      BY <3>1, Zenon DEF StoreOK
    <3>3. opks'[d][i] # spk'[d]
      BY <1>3, <1>9, <3>1, <3>2
    <3>4. ASSUME NEW j \in DOMAIN opks'[d], opks'[d][i] = opks'[d][j] PROVE i = j
      <4>1. CASE j \in 1 .. n
        BY <1>5, <1>9, <3>1, <3>2, <3>4, <4>1, Zenon
      <4>2. CASE j \notin 1 .. n
        BY <1>6, <3>1, <3>4, <4>2, Zenon DEF StoreOK
      <4> QED BY <4>1, <4>2, Zenon
    <3> QED BY <1>9, <3>1, <3>2, <3>3, <3>4, Zenon
  <2> QED BY <2>1, <2>2, Zenon
<1> QED BY <1>8, <1>10, <1>11, Zenon

\* The bundle GenerateBundle returns holds pairs that were made for it
\* (bundle.go:64).
LEMMA BundleMade ==
    ASSUME made \in [Devices -> Nat], made' \in [Devices -> Nat], NEW d \in Devices,
           NEW n \in 0 .. PreKeyCount, made'[d] = made[d] + n + 1,
           NEW b, b = BundleFrom(d, made[d] + 1, n)
    PROVE  BundleOK(d, b)'
<1> DEFINE T == [id : Ids, key : MadeBy(d)']
           f == [i \in 1 .. n |-> [id |-> i, key |-> <<d, made[d] + 1 + i>>]]
<1>1. PreKeyCount \in Nat
  BY ManagerAssumption, Zenon
<1>2. made[d] \in Nat /\ n \in Nat
  BY <1>1
<1>3. ASSUME NEW k \in Nat, k <= made'[d] PROVE <<d, k>> \in MadeBy(d)'
  BY <1>3, Zenon DEF MadeBy, Made, Keys
<1>4. ASSUME NEW i \in 1 .. n PROVE f[i] \in T
  <2>1. made[d] + 1 + i \in Nat /\ made[d] + 1 + i <= made'[d] /\ i \in Ids
    BY <1>1, <1>2 DEF Ids
  <2>2. <<d, made[d] + 1 + i>> \in MadeBy(d)'
    BY <1>3, <2>1, Zenon
  <2> QED BY <2>1, <2>2, Zenon
<1>5. f \in Seq(T)
  <2>1. f \in [1 .. n -> T]
    BY <1>4, Zenon
  <2> HIDE DEF f, T
  <2> QED BY <1>2, <2>1
<1>6. <<d, made[d] + 1>> \in MadeBy(d)'
  BY <1>2, <1>3
<1>7. b = [ik |-> IK(d), spk |-> <<d, made[d] + 1>>, preKeys |-> f]
  BY Zenon DEF BundleFrom
<1> HIDE DEF f, T
<1>8. /\ DOMAIN b = {"ik", "spk", "preKeys"} /\ b.ik = IK(d)
      /\ b.spk = <<d, made[d] + 1>> /\ b.preKeys = f
  BY <1>7
<1>9. b.spk \in MadeBy(d)' /\ b.preKeys \in Seq(T)
  BY <1>5, <1>6, <1>8, Zenon
<1> QED BY <1>8, <1>9, Zenon DEF BundleOK, IK, T

\* GenerateBundle replaces pre-keys by new ones: a message to an old one finds no
\* session key it could repeat (bundle.go:21).
LEMMA GenerateBundleKeeps ==
    ASSUME Inv, NEW d \in Devices, NEW n \in 0 .. PreKeyCount, GenerateBundle(d, n)
    PROVE  Inv'
<1> DEFINE g == n + 1
           b == BundleFrom(d, made[d] + 1, n)
           o == [i \in DOMAIN opks[d] \cup 1 .. n |->
                    IF i \in 1 .. n THEN Fresh(d, i + 1) ELSE opks[d][i]]
<1>1. Shapes /\ Stores
  BY Zenon DEF Inv
<1>2. /\ UNCHANGED <<saved, bundles, sessions, calls, net, returned, failed, kept>>
      /\ made' = [made EXCEPT ![d] = @ + n + 1]
      /\ spk' = [spk EXCEPT ![d] = Fresh(d, 1)]
      /\ opks' = [opks EXCEPT ![d] = o]
      /\ published' = [published EXCEPT ![d] = b]
  BY Zenon DEF GenerateBundle
<1>3. n \in Int /\ g \in Nat /\ n < g /\ g > 0
  BY ManagerAssumption
<1>4. made \in [Devices -> Nat] /\ made' = [made EXCEPT ![d] = @ + g]
  <2>1. made \in [Devices -> Nat]
    BY <1>1, Zenon DEF Shapes
  <2>2. made[d] + n + 1 = made[d] + g
    BY <1>3, <2>1
  <2> HIDE DEF g
  <2> QED BY <1>2, <2>1, <2>2, Zenon
<1>5. made' \in [Devices -> Nat] /\ made'[d] = made[d] + n + 1
  BY <1>3, <1>4
<1> HIDE DEF g, b, o
<1>6. /\ DOMAIN spk' = Devices /\ DOMAIN opks' = Devices /\ DOMAIN published' = Devices
      /\ spk'[d] = Fresh(d, 1) /\ opks'[d] = o /\ published'[d] = b
      /\ \A e \in Devices : e # d => /\ spk'[e] = spk[e] /\ opks'[e] = opks[e]
                                     /\ published'[e] = published[e]
  BY <1>1, <1>2, Zenon DEF Shapes
<1>7. Shapes'
  <2>1. IsFunction(o)
    BY Zenon DEF IsFunction, o
  <2>2. \A e \in Devices : IsFunction(opks'[e])
    BY <1>1, <1>6, <2>1, Zenon DEF Shapes
  <2> QED BY <1>1, <1>2, <1>5, <1>6, <2>2, Zenon DEF Shapes, IsTable
<1>8. /\ Grows
      /\ spk'[d] \in MadeBy(d)' /\ spk'[d] # IK(d)
      /\ \A i \in DOMAIN opks'[d] :
            /\ opks'[d][i] \in MadeBy(d)' /\ opks'[d][i] # IK(d) /\ opks'[d][i] # spk'[d]
            /\ \A j \in DOMAIN opks'[d] : opks'[d][i] = opks'[d][j] => i = j
  <2>1. StoreOK(d)
    BY <1>1, Zenon DEF Stores
  <2>2. opks'[d] = [i \in DOMAIN opks[d] \cup 1 .. n |->
                        IF i \in 1 .. n THEN Fresh(d, i + 1) ELSE opks[d][i]]
    BY <1>6, Zenon DEF o
  <2> QED BY <1>1, <1>2, <1>3, <1>4, <1>6, <2>1, <2>2, PreKeysStep, Zenon
<1>9. BundleOK(d, published[d])'
  <2>1. \A c : c = BundleFrom(d, made[d] + 1, n) => BundleOK(d, c)'
    BY <1>4, <1>5, BundleMade, Zenon
  <2>2. published'[d] = BundleFrom(d, made[d] + 1, n)
    BY <1>6, Zenon DEF b
  <2> QED BY <2>1, <2>2, Zenon DEF BundleOK
<1>10. ASSUME NEW e \in Devices, NEW p \in Devices, bundles'[e][p] # NoBundle
       PROVE  BundleOK(p, bundles[e][p])'
  <2>1. BundleOK(p, bundles[e][p]) /\ bundles'[e][p] = bundles[e][p]
    BY <1>1, <1>2, <1>10, Zenon DEF Stores, StoreOK
  <2>2. \A c : BundleOK(p, c) => BundleOK(p, c)'
    BY <1>8, BundleGrows, Zenon
  <2> QED BY <2>1, <2>2, Zenon DEF BundleOK
<1>11. Stores'
  <2> SUFFICES ASSUME NEW e \in Devices PROVE StoreOK(e)'
    BY Zenon DEF Stores
  <2>1. CASE e = d
    BY <1>8, <1>9, <1>10, <2>1, Zenon DEF StoreOK, IK
  <2>2. CASE e # d
    BY <1>1, <1>2, <1>6, <1>8, <2>2, StoreStays, Zenon DEF Stores
  <2> QED BY <2>1, <2>2, Zenon
<1>12. \A e, q \in Devices : \A s : Session(e, q, s)' => Session(e, q, s)
  BY <1>2, Zenon DEF Session
<1>13. calls <= calls'
  BY <1>1, <1>2 DEF Shapes
<1> QED BY <1>2, <1>7, <1>8, <1>11, <1>12, <1>13, QuietStep, Zenon

\* The same for the part of it that was written before the store failed.
LEMMA GenerateBundleFailsKeeps ==
    ASSUME Inv, NEW d \in Devices, NEW k \in 0 .. PreKeyCount, GenerateBundleFails(d, k)
    PROVE  Inv'
<1> DEFINE g == k + 1
           n == k - 1
           o == [i \in DOMAIN opks[d] \cup 1 .. n |->
                    IF i \in 1 .. n THEN Fresh(d, i + 1) ELSE opks[d][i]]
<1>1. Shapes /\ Stores
  BY Zenon DEF Inv
<1>2. /\ UNCHANGED <<saved, published, bundles, sessions, calls, net, returned, failed, kept>>
      /\ made' = [made EXCEPT ![d] = @ + k + 1]
      /\ spk' = [spk EXCEPT ![d] = IF k = 0 THEN @ ELSE Fresh(d, 1)]
      /\ opks' = [opks EXCEPT ![d] = o]
  BY Zenon DEF GenerateBundleFails
<1>3. n \in Int /\ g \in Nat /\ n < g /\ g > 0
  BY ManagerAssumption
<1>4. made \in [Devices -> Nat] /\ made' = [made EXCEPT ![d] = @ + g]
  <2>1. made \in [Devices -> Nat]
    BY <1>1, Zenon DEF Shapes
  <2>2. made[d] + k + 1 = made[d] + g
    BY <1>3, <2>1
  <2> HIDE DEF g
  <2> QED BY <1>2, <2>1, <2>2, Zenon
<1>5. made' \in [Devices -> Nat] /\ made'[d] = made[d] + k + 1
  BY <1>3, <1>4
<1> HIDE DEF g, n, o
<1>6. /\ DOMAIN spk' = Devices /\ DOMAIN opks' = Devices
      /\ spk'[d] = spk[d] \/ spk'[d] = Fresh(d, 1)
      /\ opks'[d] = o
      /\ \A e \in Devices : e # d => spk'[e] = spk[e] /\ opks'[e] = opks[e]
  BY <1>1, <1>2, Zenon DEF Shapes
<1>7. Shapes'
  <2>1. IsFunction(o)
    BY Zenon DEF IsFunction, o
  <2>2. \A e \in Devices : IsFunction(opks'[e])
    BY <1>1, <1>6, <2>1, Zenon DEF Shapes
  <2> QED BY <1>1, <1>2, <1>5, <1>6, <2>2, Zenon DEF Shapes, IsTable
<1>8. /\ Grows
      /\ spk'[d] \in MadeBy(d)' /\ spk'[d] # IK(d)
      /\ \A i \in DOMAIN opks'[d] :
            /\ opks'[d][i] \in MadeBy(d)' /\ opks'[d][i] # IK(d) /\ opks'[d][i] # spk'[d]
            /\ \A j \in DOMAIN opks'[d] : opks'[d][i] = opks'[d][j] => i = j
  <2>1. StoreOK(d)
    BY <1>1, Zenon DEF Stores
  <2>2. opks'[d] = [i \in DOMAIN opks[d] \cup 1 .. n |->
                        IF i \in 1 .. n THEN Fresh(d, i + 1) ELSE opks[d][i]]
    BY <1>6, Zenon DEF o
  <2> QED BY <1>1, <1>2, <1>3, <1>4, <1>6, <2>1, <2>2, PreKeysStep, Zenon
<1>9. BundleOK(d, published[d])'
  <2>1. BundleOK(d, published[d]) /\ published' = published
    BY <1>1, <1>2, Zenon DEF Stores, StoreOK
  <2>2. \A c : BundleOK(d, c) => BundleOK(d, c)'
    BY <1>8, BundleGrows, Zenon
  <2> QED BY <2>1, <2>2, Zenon DEF BundleOK
<1>10. ASSUME NEW e \in Devices, NEW p \in Devices, bundles'[e][p] # NoBundle
       PROVE  BundleOK(p, bundles[e][p])'
  <2>1. BundleOK(p, bundles[e][p]) /\ bundles'[e][p] = bundles[e][p]
    BY <1>1, <1>2, <1>10, Zenon DEF Stores, StoreOK
  <2>2. \A c : BundleOK(p, c) => BundleOK(p, c)'
    BY <1>8, BundleGrows, Zenon
  <2> QED BY <2>1, <2>2, Zenon DEF BundleOK
<1>11. Stores'
  <2> SUFFICES ASSUME NEW e \in Devices PROVE StoreOK(e)'
    BY Zenon DEF Stores
  <2>1. CASE e = d
    BY <1>8, <1>9, <1>10, <2>1, Zenon DEF StoreOK, IK
  <2>2. CASE e # d
    BY <1>1, <1>2, <1>6, <1>8, <2>2, StoreStays, Zenon DEF Stores
  <2> QED BY <2>1, <2>2, Zenon
<1>12. \A e, q \in Devices : \A s : Session(e, q, s)' => Session(e, q, s)
  BY <1>2, Zenon DEF Session
<1>13. calls <= calls'
  BY <1>1, <1>2 DEF Shapes
<1> QED BY <1>2, <1>7, <1>8, <1>11, <1>12, <1>13, QuietStep, Zenon

-----------------------------------------------------------------------------
(* Sending. *)

\* Encrypt advances the sending chain of session s, whose next key no message
\* has, keeps the result z and at most sends m (manager.go:78-108).
LEMMA EncryptSends ==
    ASSUME Inv, Grows, Shapes', Stores', NEW d \in Devices, NEW p \in Devices, d # p,
           NEW s, SessionOK(d, p, s)', ClosedFor(d, p, s), RootFrom(d, p, s),
           PendingFrom(d, p, s), \A n \in net : n.key # s.ratchet.CKs,
           NEW z, z = Advanced(s), Writes1(d, p, z),
           returned' = returned, calls' = calls + 1,
           NEW m, m = [id |-> calls + 1, from |-> d, to |-> p, pre |-> s.pending,
                       header |-> EncryptHeader(s.ratchet), key |-> EncryptKey(s.ratchet)],
           \/ net' = net
           \/ net' = net \cup {m} /\ \A x : Session(d, p, x)' => x = z
    PROVE  Inv'
<1>1. Shapes /\ Sessions /\ Messages /\ AllClosed /\ Pendings /\ RootKeys
  BY Zenon DEF Inv
<1>2. /\ calls \in Nat /\ calls' \in Nat /\ calls <= calls'
      /\ returned'[calls + 1] = 0
  BY <1>1 DEF Shapes
<1> DEFINE r == s.ratchet
           q == z.ratchet
<1>3. DOMAIN s = {"ratchet", "pending"} /\ RatchetInv(r, Usable(d)')
  BY Zenon DEF SessionOK
<1>4. DOMAIN z = {"ratchet", "pending"} /\ q = RatchetEncrypt(r) /\ z.pending = s.pending
  BY <1>3, Zenon DEF Advanced
<1> HIDE DEF r, q
<1>5. /\ RatchetInv(q, Usable(d)')
      /\ q.DHs = r.DHs /\ q.RK = r.RK /\ q.CKr = r.CKr /\ q.MKSkipped = r.MKSkipped
      /\ q.CKs.root = r.CKs.root /\ q.CKs.n = r.CKs.n + 1
  BY <1>3, <1>4, EncryptDoes
<1>6. /\ r.CKs \in ChainsOver(Usable(d)') /\ r.CKs.root = r.RK /\ Len(r.RK) >= 4
      /\ r.CKs.n \in Nat /\ r.Ns \in Nat /\ r.PN \in Nat
  BY <1>3, Zenon DEF RatchetInv, RatchetBase, ChainsOver
<1>7. \A c : CanDerive(q, c) <=> CanDerive(r, c)
  BY <1>5, Zenon DEF CanDerive
<1>8. SessionOK(d, p, z)'
  BY <1>4, <1>5, <1>7, Zenon DEF SessionOK, r, q
<1>9. RootFrom(d, p, z)
  <2>1. ASSUME NEW t, Session(d, p, t), r.RK = t.ratchet.RK, t.ratchet.CKs.n <= r.CKs.n
        PROVE  q.RK = t.ratchet.RK /\ t.ratchet.CKs.n <= q.CKs.n
    <3>1. t.ratchet.CKs.n \in Nat
      BY <1>1, <2>1, KnownRoots, Zenon
    <3> QED BY <1>5, <1>6, <2>1, <3>1
  <2> QED BY <1>5, <2>1, Zenon DEF RootFrom, r, q
<1>10. PendingFrom(d, p, z)
  BY <1>4, Zenon DEF PendingFrom
<1>11. ClosedFor(d, p, z)
  BY <1>5, <1>7, Zenon DEF ClosedFor, Closed, r, q
<1>12. /\ m.id = calls + 1 /\ m.from = d /\ m.to = p /\ m.pre = s.pending /\ m.key = r.CKs
       /\ m.header.dh = r.DHs /\ m.header.n = r.Ns /\ m.header.pn = r.PN
  BY Zenon DEF EncryptHeader, EncryptKey, r
<1>13. Sends1(d, p, z)
  BY <1>4, <1>5, <1>6, <1>12 DEF Sends1, q
<1>14. q.CKs.n \in Nat
  BY <1>5, <1>6
<1>15. Sessions'
  BY <1>1, <1>8, SessionsStep, Zenon
<1>16. RootKeys'
  BY <1>1, <1>9, <1>13, <1>14, RootKeysStep, Zenon DEF q
<1>17. Pendings'
  BY <1>1, <1>10, <1>13, PendingsStep, Zenon
<1>18. \A n \in net : MessageOK(n)' /\ (Spent(n)' => Spent(n))
  BY <1>1, <1>2, MessageGrows, Zenon DEF Messages
<1>19. MessageOK(m)' /\ ~Spent(m)'
  <2>1. Usable(d)' \subseteq Made'
    BY Zenon DEF Usable
  <2>2. r.CKs \in ChainsOver(Made')
    BY <1>6, <2>1, ChainsGrow, Zenon
  <2>3. r.DHs \in MadeBy(d)' /\ PreOK(d, p, s.pending, r.RK)'
    BY Zenon DEF SessionOK, r
  <2>4. ~Spent(m)'
    BY <1>2, <1>12 DEF Spent
  <2>5. m.id \in 1 .. calls' /\ ~(returned'[m.id] > 1) /\ Len(m.key.root) >= 4
    BY <1>2, <1>6, <1>12
  <2>6. PreOK(m.from, m.to, m.pre, m.key.root)'
    BY <1>6, <1>12, <2>3, Zenon
  <2> QED BY <1>6, <1>12, <2>2, <2>3, <2>4, <2>5, <2>6, Zenon DEF MessageOK
<1>20. Messages'
  <2>1. \A n \in net : n.id # m.id
    <3>1. \A n \in net : n.id \in 1 .. calls
      BY <1>1, Zenon DEF Messages, MessageOK
    <3> QED BY <1>2, <1>12, <3>1
  <2>2. \A n \in net : n.key # m.key
    BY <1>12, Zenon DEF r
  <2> QED BY <1>1, <1>18, <1>19, <2>1, <2>2, Zenon DEF Messages
<1>21. AllClosed'
  <2> SUFFICES ASSUME NEW n \in net', NEW x, Spent(n)', Session(n.to, n.from, x)'
               PROVE  Closed(x, n)
    BY Zenon DEF AllClosed, Closed
  <2>1. n \in net /\ Spent(n)
    BY <1>18, <1>19, Zenon
  <2> QED BY <1>1, <1>11, <2>1, ClosedStep, Zenon
<1> QED BY <1>15, <1>16, <1>17, <1>20, <1>21, Zenon DEF Inv

\* X3DH with a cached bundle: the new session sends under a root key with two
\* new pairs, and has nothing to decrypt with (session.go:23, manager.go:215).
LEMMA CreateSessionDoes ==
    ASSUME Shapes, NEW d \in Devices, NEW p \in Devices, d # p, StoreOK(d),
           NEW b, BundleOK(p, b), Grows, made'[d] = made[d] + 2, opks' = opks,
           NEW s, s = InitSessionAsAlice(IK(d), b, Fresh(d, 1), Fresh(d, 2))
    PROVE  /\ SessionOK(d, p, s)'
           /\ s.pending.ek \notin Made
           /\ s.ratchet.RK \notin Roots(Made)
           /\ \A root \in Roots(Made) : ~StartsWith(root, s.ratchet.RK)
           /\ \A c : CanDerive(s.ratchet, c) => c.root = <<>>
<1> DEFINE ek == Fresh(d, 1)
           dhs == Fresh(d, 2)
           K == Usable(d)'
           T == [id : Ids, key : MadeBy(p)]
           opk == IF b.preKeys = <<>> THEN NoKey ELSE b.preKeys[1].key
           id == IF b.preKeys = <<>> THEN NoPreKey ELSE b.preKeys[1].id
           sec == X3DHInitiate(IK(d), ek, b.ik, b.spk, opk)
           r == InitRatchetAsAlice(sec, dhs, b.spk)
<1>1. made \in [Devices -> Nat] /\ made' \in [Devices -> Nat]
  BY Zenon DEF Shapes, Grows
<1>2. ek \notin Made /\ dhs \notin Made /\ ek \in MadeBy(d)' /\ dhs \in MadeBy(d)'
  BY <1>1, FreshKeys DEF Fresh, MadeBy, Made, Keys
<1>3. ek \in K /\ dhs \in K
  <2>1. \A k \in Unused(d)' : k \in Made
    BY MadeByMade, Zenon DEF Unused, StoreOK
  <2> QED BY <1>2, <2>1, Zenon DEF Usable, MadeBy
<1>4. IK(d) \in K /\ MadeBy(p) \subseteq K
  BY <1>1, UsableKeys, Zenon DEF Grows
<1>5. b.ik \in K /\ b.ik = IK(p) /\ b.spk \in K
  BY <1>1, <1>4, IdentityKeys, Zenon DEF BundleOK
<1>6. (opk = NoKey \/ opk \in K) /\ id \in Ids \cup {NoPreKey}
  <2>1. CASE b.preKeys # <<>>
    <3>1. b.preKeys \in Seq(T) /\ b.preKeys # <<>>
      BY <2>1, Zenon DEF BundleOK
    <3>2. b.preKeys[1] \in T
      <4> HIDE DEF T
      <4> QED BY <3>1
    <3> QED BY <1>4, <2>1, <3>2, Zenon
  <2> QED BY <2>1, Zenon
<1>7. s = [ratchet |-> r, pending |-> [id |-> id, ek |-> ek]]
  BY Zenon DEF InitSessionAsAlice
<1> HIDE DEF ek, dhs, K, opk, id
<1>8. IsSecret(sec, K, {IK(d), b.spk}, {ek, b.ik})
  BY <1>3, <1>4, <1>5, <1>6, InitiateDoes, Zenon
<1> HIDE DEF sec
<1>9. /\ RatchetInv(r, K)
      /\ r.DHs = dhs /\ r.RK[2] = {ek, b.ik}
      /\ r.RK[Len(sec) + 1] = {dhs, b.spk} /\ Len(r.RK) = Len(sec) + 1
      /\ r.CKr.root = <<>> /\ DOMAIN r.MKSkipped = {}
  BY <1>3, <1>5, <1>8, AliceStarts
<1> HIDE DEF r
<1>10. s.ratchet = r /\ s.pending = [id |-> id, ek |-> ek] /\ s.pending.ek = ek
       /\ DOMAIN s = {"ratchet", "pending"}
  BY <1>7
<1>11. s.pending \in PreKeyMessages(d)' /\ s.pending # NoPending
  <2>1. s.pending \in PreKeyMessages(d)'
    BY <1>2, <1>6, <1>10 DEF PreKeyMessages
  <2>2. s.pending \in [id : Ids \cup {NoPreKey}, ek : Keys]
    BY <1>2, <1>6, <1>10 DEF MadeBy, Made
  <2> QED BY <2>1, <2>2, NilAssumption, Zenon
<1>12. \A c : CanDerive(r, c) => c.root = <<>>
  BY <1>9, Zenon DEF CanDerive
<1>13. SessionOK(d, p, s)'
  BY <1>2, <1>5, <1>9, <1>10, <1>11, <1>12, Zenon DEF SessionOK, PreOK, K, IK
<1>14. r.RK \notin Roots(Made) /\ \A root \in Roots(Made) : ~StartsWith(root, r.RK)
  <2>1. Len(r.RK) \in Nat /\ Len(sec) \in Nat
    BY <1>8, <1>9 DEF IsSecret
  <2>2. PICK i \in 1 .. Len(r.RK) : i = Len(sec) + 1
    BY <1>9, <2>1
  <2>3. dhs \in r.RK[i]
    BY <1>9, <2>2, Zenon
  <2> QED BY <1>2, <2>1, <2>3, FreshRoot, Zenon
<1> QED BY <1>2, <1>10, <1>12, <1>13, <1>14, Zenon

\* A cached bundle without its first one-time pre-key (manager.go:226).
LEMMA DropPreKeyKeeps ==
    ASSUME NEW p, NEW b, BundleOK(p, b)
    PROVE  BundleOK(p, DropPreKey(b))
<1> DEFINE T == [id : Ids, key : MadeBy(p)]
           ks == IF b.preKeys = <<>> THEN b.preKeys ELSE Tail(b.preKeys)
<1>1. DOMAIN b = {"ik", "spk", "preKeys"} /\ b.preKeys \in Seq(T)
  BY Zenon DEF BundleOK
<1>2. ks \in Seq(T)
  <2> HIDE DEF T
  <2> QED BY <1>1
<1>3. DropPreKey(b) = [b EXCEPT !.preKeys = ks]
  BY Zenon DEF DropPreKey
<1> HIDE DEF ks
<1>4. /\ DOMAIN DropPreKey(b) = {"ik", "spk", "preKeys"} /\ DropPreKey(b).preKeys = ks
      /\ DropPreKey(b).ik = b.ik /\ DropPreKey(b).spk = b.spk
  BY <1>1, <1>3, Zenon
<1> QED BY <1>2, <1>4, Zenon DEF BundleOK

\* A session a device has, as the start of a call.
LEMMA SessionStarts ==
    ASSUME Inv, Grows, NEW d \in Devices, NEW p \in Devices, NEW s, Session(d, p, s)
    PROVE  /\ d # p /\ SessionOK(d, p, s) /\ SessionOK(d, p, s)'
           /\ ClosedFor(d, p, s) /\ RootFrom(d, p, s) /\ PendingFrom(d, p, s)
           /\ \A n \in net : n.key # s.ratchet.CKs
<1>1. Sessions /\ Messages /\ AllClosed /\ RootKeys
  BY Zenon DEF Inv
<1>2. d # p /\ SessionOK(d, p, s)
  BY <1>1, Zenon DEF Sessions
<1>3. s.ratchet.CKs.n \in Nat /\ s.ratchet.CKs.root = s.ratchet.RK
  BY <1>1, KnownRoots, Zenon
<1>4. SessionOK(d, p, s)'
  BY <1>2, SessionGrows, Zenon
<1>5. ClosedFor(d, p, s)
  BY <1>1, Zenon DEF AllClosed, ClosedFor
<1>6. RootFrom(d, p, s)
  BY <1>3 DEF RootFrom
<1>7. PendingFrom(d, p, s)
  BY Zenon DEF PendingFrom, Pending
<1>8. \A n \in net : n.key # s.ratchet.CKs
  BY <1>1, <1>3 DEF RootKeys
<1> QED BY <1>2, <1>4, <1>5, <1>6, <1>7, <1>8, Zenon

\* Encrypt (manager.go:41).
LEMMA EncryptKeeps ==
    ASSUME Inv, NEW d \in Devices, NEW p \in Devices, Encrypt(d, p)
    PROVE  Inv'
<1> DEFINE new == Loaded(d, p) = NoSession
<1>0. PICK s : s = IF new THEN CreateSession(d, p) ELSE Loaded(d, p)
  BY Zenon
<1> DEFINE z == Advanced(s)
           m == [id |-> calls + 1, from |-> d, to |-> p, pre |-> s.pending,
                 header |-> EncryptHeader(s.ratchet), key |-> EncryptKey(s.ratchet)]
<1>1. Shapes /\ Stores /\ Sessions /\ Messages
  BY Zenon DEF Inv
<1>2. /\ calls < MaxSent /\ d # p /\ (new => bundles[d][p] # NoBundle)
      /\ made' = IF new THEN [made EXCEPT ![d] = @ + 2] ELSE made
      /\ bundles' = IF new THEN [bundles EXCEPT ![d][p] = DropPreKey(@)] ELSE bundles
      /\ calls' = calls + 1
      /\ sessions' = [sessions EXCEPT ![d][p] = z]
      /\ UNCHANGED <<spk, opks, published, returned, failed, kept>>
  BY <1>0, Zenon DEF Encrypt
<1>3. PICK ok, others \in BOOLEAN :
        /\ saveSession(d, p, z, ok)
        /\ net' = IF ok /\ others THEN net \cup {m} ELSE net
  BY <1>0, Zenon DEF Encrypt, saveSent
<1> HIDE DEF z, m
<1>4. /\ IsTable(sessions') /\ IsTable(saved') /\ Writes1(d, p, z)
      /\ ok => \A x : Session(d, p, x)' => x = z
  BY <1>1, <1>2, <1>3, SessionWritten, Zenon
<1>5. made \in [Devices -> Nat] /\ calls \in Nat /\ IsTable(bundles)
  BY <1>1, Zenon DEF Shapes
<1>6. made' \in [Devices -> Nat] /\ \A e \in Devices : made[e] <= made'[e]
  <2>1. CASE new
    <3>1. made' = [made EXCEPT ![d] = @ + 2]
      BY <1>2, <2>1, Zenon
    <3> QED BY <1>5, <3>1
  <2>2. CASE ~new
    BY <1>2, <1>5, <2>2
  <2> QED BY <2>1, <2>2, Zenon
<1>7. Grows
  BY <1>2, <1>5, <1>6, GrowsWhen, Zenon
<1>8. MaxSent \in Nat
  BY ManagerAssumption, Zenon
<1>9. /\ IsTable(bundles')
      /\ \A e, q \in Devices :
            \/ bundles'[e][q] = bundles[e][q]
            \/ /\ e = d /\ q = p /\ bundles[d][p] # NoBundle
               /\ bundles'[e][q] = DropPreKey(bundles[d][p])
  <2>1. CASE new
    <3>1. bundles' = [bundles EXCEPT ![d][p] = DropPreKey(bundles[d][p])]
      BY <1>2, <2>1, Zenon
    <3> QED BY <1>2, <1>5, <2>1, <3>1 DEF IsTable
  <2>2. CASE ~new
    BY <1>2, <1>5, <2>2, Zenon
  <2> QED BY <2>1, <2>2, Zenon
<1>10. Shapes'
  BY <1>1, <1>2, <1>4, <1>5, <1>6, <1>8, <1>9 DEF Shapes
<1>11. Stores'
  <2> SUFFICES ASSUME NEW e \in Devices PROVE StoreOK(e)'
    BY Zenon DEF Stores
  <2>1. StoreOK(e) /\ StoreOK(d)
    BY <1>1, Zenon DEF Stores
  <2>2. bundles[d][p] # NoBundle => BundleOK(p, DropPreKey(bundles[d][p]))
    BY <2>1, DropPreKeyKeeps, Zenon DEF StoreOK
  <2>3. \A q \in Devices : bundles'[e][q] # NoBundle =>
            bundles'[e][q] = bundles[e][q] \/ BundleOK(q, bundles'[e][q])
    BY <1>9, <2>2, Zenon
  <2> QED BY <1>2, <1>7, <2>1, <2>3, StoreStays, Zenon
<1>12. \/ net' = net
       \/ net' = net \cup {m} /\ \A x : Session(d, p, x)' => x = z
  BY <1>3, <1>4, Zenon
<1>13. /\ SessionOK(d, p, s)' /\ ClosedFor(d, p, s) /\ RootFrom(d, p, s)
       /\ PendingFrom(d, p, s) /\ \A n \in net : n.key # s.ratchet.CKs
  <2>1. CASE ~new
    <3>1. Session(d, p, s)
      BY <1>0, <2>1, Zenon DEF Session, Loaded
    <3> QED BY <1>7, <3>1, SessionStarts, Zenon
  <2>2. CASE new
    <3>1. s = InitSessionAsAlice(IK(d), bundles[d][p], Fresh(d, 1), Fresh(d, 2))
      BY <1>0, <2>2, Zenon DEF CreateSession
    <3>2. StoreOK(d) /\ BundleOK(p, bundles[d][p]) /\ made'[d] = made[d] + 2
      BY <1>1, <1>2, <1>5, <2>2, Zenon DEF Stores, StoreOK
    <3>3. /\ SessionOK(d, p, s)'
          /\ s.pending.ek \notin Made
          /\ s.ratchet.RK \notin Roots(Made)
          /\ \A root \in Roots(Made) : ~StartsWith(root, s.ratchet.RK)
          /\ \A c : CanDerive(s.ratchet, c) => c.root = <<>>
      BY <1>1, <1>2, <1>7, <3>1, <3>2, CreateSessionDoes, Zenon
    <3>4. \A n \in net : n.key.root \in Roots(Made) /\ n.key.root # <<>>
      <4>1. \A n \in net : Len(n.key.root) >= 4 /\ n.key.root \in Roots(Made)
        BY <1>1, KnownRoots, Zenon DEF Messages, MessageOK
      <4>2. Len(<<>>) = 0
        BY Zenon
      <4> QED BY <4>1, <4>2
    <3>5. ClosedFor(d, p, s)
      BY <3>3, <3>4, Zenon DEF ClosedFor, Closed
    <3>6. RootFrom(d, p, s) /\ PendingFrom(d, p, s)
      BY <3>3, Zenon DEF RootFrom, PendingFrom
    <3>7. s.ratchet.CKs.root = s.ratchet.RK
      BY <3>3, Zenon DEF SessionOK, RatchetInv
    <3> QED BY <3>3, <3>4, <3>5, <3>6, <3>7, Zenon
  <2> QED BY <2>1, <2>2, Zenon
<1>14. /\ z = Advanced(s)
       /\ m = [id |-> calls + 1, from |-> d, to |-> p, pre |-> s.pending,
               header |-> EncryptHeader(s.ratchet), key |-> EncryptKey(s.ratchet)]
  BY Zenon DEF z, m
<1> QED BY <1>2, <1>4, <1>7, <1>10, <1>11, <1>12, <1>13, <1>14, EncryptSends, Zenon

=============================================================================
