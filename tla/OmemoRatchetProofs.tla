------------------------ MODULE OmemoRatchetProofs -------------------------
(***************************************************************************)
(* Lemmas about the operators of OmemoRatchet: what one call of            *)
(* RatchetEncrypt or RatchetDecrypt does to a ratchet, for every ratchet   *)
(* that satisfies RatchetInv and every header, key and limit.              *)
(*                                                                         *)
(* The argument is about length.  Every Diffie-Hellman step appends to the *)
(* root key, so the root of a chain that was left behind is shorter than   *)
(* the root key, and no later chain starts from it again.                  *)
(***************************************************************************)
EXTENDS OmemoRatchet, Integers, TLAPS

RatchetFields ==
    {"DHs", "DHr", "RK", "CKs", "CKr", "Ns", "Nr", "PN", "MKSkipped"}

\* Root and chain keys that only the key pairs in K went into.
Roots(K) == Seq(SUBSET K)

ChainsOver(K) == [root : Roots(K), n : Nat]

\* What a ratchet over the key pairs in K satisfies at every moment: the keys in
\* MKSkipped belong to chains shorter than the root key, are all different, and
\* those of the receiving chain lie behind it.
RatchetBase(r, K) ==
    /\ DOMAIN r = RatchetFields
    /\ r.DHs \in K
    /\ r.RK \in Roots(K)
    /\ r.CKr \in ChainsOver(K) /\ Len(r.CKr.root) < Len(r.RK)
    /\ r.Ns \in Nat /\ r.Nr \in Nat /\ r.PN \in Nat
    /\ \A x \in DOMAIN r.MKSkipped :
        /\ x \in K \X Nat
        /\ r.MKSkipped[x] \in ChainsOver(K)
        /\ Len(r.MKSkipped[x].root) < Len(r.RK)
        /\ r.MKSkipped[x].root = r.CKr.root => r.MKSkipped[x].n < r.CKr.n
        /\ \A y \in DOMAIN r.MKSkipped : r.MKSkipped[x] = r.MKSkipped[y] => x = y

\* A ratchet between two calls.  InitRatchetAsBob returns one that does not
\* satisfy this yet; the call that follows makes it so.
RatchetInv(r, K) ==
    /\ RatchetBase(r, K)
    /\ r.DHr \in K
    /\ Len(r.RK) >= 4
    /\ r.CKs \in ChainsOver(K) /\ r.CKs.root = r.RK

\* q derives no key that r does not derive.
NoGain(r, q) == \A c : c.n \in Nat /\ CanDerive(q, c) => CanDerive(r, c)

-----------------------------------------------------------------------------
(* Numbers, sequences and chains. *)

\* The loop of skipMessageKeys never stops before the next message of the chain
\* (ratchet.go:158).
LEMMA StopAtBounds ==
    ASSUME NEW r, r.Nr \in Nat, NEW until \in Nat
    PROVE  StopAt(r, until) \in Nat /\ StopAt(r, until) >= r.Nr
<1> DEFINE Full(k) == Cardinality(DOMAIN r.MKSkipped \cup Stored(r, k)) > MaxSkip
           first == {k \in r.Nr + 1 .. until :
                        Full(k) /\ \A j \in r.Nr + 1 .. k - 1 : ~Full(j)}
<1>1. \A k \in first : k \in Nat /\ k >= r.Nr
  OBVIOUS
<1>2. StopAt(r, until) = IF first # {} THEN CHOOSE k \in first : TRUE
                         ELSE IF until > r.Nr THEN until ELSE r.Nr
  BY Zenon DEF StopAt
<1> HIDE DEF first
<1> QED BY <1>1, <1>2

\* Fewer elements make fewer sequences.
LEMMA SeqGrows ==
    ASSUME NEW S, NEW T, S \subseteq T
    PROVE  Seq(S) \subseteq Seq(T)
OBVIOUS

\* Fewer key pairs make fewer roots and chains.
LEMMA ChainsGrow ==
    ASSUME NEW K, NEW L, K \subseteq L
    PROVE  Roots(K) \subseteq Roots(L) /\ ChainsOver(K) \subseteq ChainsOver(L)
<1>1. SUBSET K \subseteq SUBSET L
  BY Zenon
<1>2. Roots(K) \subseteq Roots(L)
  BY <1>1 DEF Roots
<1> QED BY <1>2, Zenon DEF ChainsOver

\* rootKDF makes a root that is longer by one secret (kdf.go:39).
LEMMA RootGrows ==
    ASSUME NEW K, NEW rk \in Roots(K), NEW a \in K, NEW b \in K
    PROVE  /\ rootKDF(rk, x25519DH(a, b)) \in Roots(K)
           /\ Len(rootKDF(rk, x25519DH(a, b))) = Len(rk) + 1
           /\ \A i \in 1 .. Len(rk) : rootKDF(rk, x25519DH(a, b))[i] = rk[i]
           /\ rootKDF(rk, x25519DH(a, b))[Len(rk) + 1] = {a, b}
<1> DEFINE e == {a, b}
<1>1. e \in SUBSET K /\ x25519DH(a, b) = e
  BY Zenon DEF x25519DH
<1> HIDE DEF e
<1>2. rk \in Seq(SUBSET K)
  BY Zenon DEF Roots
<1>3. /\ Append(rk, e) \in Seq(SUBSET K)
      /\ Len(Append(rk, e)) = Len(rk) + 1
      /\ \A i \in 1 .. Len(rk) : Append(rk, e)[i] = rk[i]
      /\ Append(rk, e)[Len(rk) + 1] = e
  BY <1>1, <1>2
<1>4. Append(rk, e) \in Roots(K)
  BY <1>3, Zenon DEF Roots
<1>5. rootKDF(rk, x25519DH(a, b)) = Append(rk, e)
  BY <1>1, Zenon DEF rootKDF
<1>6. e = {a, b}
  BY Zenon DEF e
<1> QED BY <1>3, <1>4, <1>5, <1>6, Zenon

\* chainKDF stays in its chain (kdf.go:24).
LEMMA ChainAdvances ==
    ASSUME NEW K, NEW c \in ChainsOver(K), NEW k \in Nat
    PROVE  /\ chainKDF(c, k) \in ChainsOver(K)
           /\ chainKDF(c, k).root = c.root
           /\ chainKDF(c, k).n = c.n + k
BY DEF chainKDF, ChainsOver

-----------------------------------------------------------------------------
(* The steps of RatchetDecrypt. *)

\* The fields that no step but the Diffie-Hellman step changes.
Kept(r, q) ==
    /\ q.DHs = r.DHs /\ q.DHr = r.DHr /\ q.RK = r.RK /\ q.CKs = r.CKs
    /\ q.Ns = r.Ns /\ q.PN = r.PN

\* trySkippedKeys deletes one entry, and the key it held is out of reach
\* (ratchet.go:147).
LEMMA DeleteKeeps ==
    ASSUME NEW K, NEW r, RatchetBase(r, K), NEW slot
    PROVE  /\ RatchetBase(deleteSkipped(r, slot), K)
           /\ Kept(r, deleteSkipped(r, slot))
           /\ deleteSkipped(r, slot).CKr = r.CKr
           /\ NoGain(r, deleteSkipped(r, slot))
           /\ slot \in DOMAIN r.MKSkipped =>
                ~CanDerive(deleteSkipped(r, slot), r.MKSkipped[slot])
<1> DEFINE q == deleteSkipped(r, slot)
           D == DOMAIN r.MKSkipped \ {slot}
<1>1. DOMAIN r = RatchetFields
  BY Zenon DEF RatchetBase
<1>2. /\ DOMAIN q = RatchetFields
      /\ q.MKSkipped = [x \in D |-> r.MKSkipped[x]]
      /\ q.DHs = r.DHs /\ q.DHr = r.DHr /\ q.RK = r.RK /\ q.CKs = r.CKs
      /\ q.CKr = r.CKr /\ q.Ns = r.Ns /\ q.Nr = r.Nr /\ q.PN = r.PN
  BY <1>1, Zenon DEF deleteSkipped, RatchetFields
<1> HIDE DEF q
<1>3. DOMAIN q.MKSkipped = D /\ \A x \in D : q.MKSkipped[x] = r.MKSkipped[x]
  BY <1>2, Zenon
<1>4. \A x \in D : x \in DOMAIN r.MKSkipped /\ x # slot
  BY Zenon
<1> HIDE DEF D
<1>5. RatchetBase(q, K)
  BY <1>2, <1>3, <1>4 DEF RatchetBase
<1>6. NoGain(r, q)
  BY <1>2, <1>3, <1>4, Zenon DEF NoGain, CanDerive
<1>7. ASSUME slot \in DOMAIN r.MKSkipped
      PROVE  ~CanDerive(q, r.MKSkipped[slot])
  <2>1. \A x \in D : q.MKSkipped[x] # r.MKSkipped[slot]
    BY <1>3, <1>4, <1>7, Zenon DEF RatchetBase
  <2>2. ~(q.CKr.root = r.MKSkipped[slot].root /\ q.CKr.n <= r.MKSkipped[slot].n)
    BY <1>2, <1>7 DEF RatchetBase, ChainsOver
  <2> QED BY <1>3, <2>1, <2>2, Zenon DEF CanDerive
<1> QED BY <1>2, <1>5, <1>6, <1>7, Zenon DEF Kept, q

\* Skipping to message k stores keys of the receiving chain only, each one once,
\* and leaves them all behind the chain (ratchet.go:158-166).
LEMMA SkipToKeeps ==
    ASSUME NEW K, NEW r, RatchetBase(r, K), r.DHr \in K,
           NEW k \in Nat, k >= r.Nr
    PROVE  /\ RatchetBase(SkipTo(r, k), K)
           /\ Kept(r, SkipTo(r, k))
           /\ NoGain(r, SkipTo(r, k))
<1> DEFINE q == SkipTo(r, k)
           D == DOMAIN r.MKSkipped
           S == Stored(r, k)
           V(x) == IF x \in S THEN chainKDF(r.CKr, x[2] - r.Nr) ELSE r.MKSkipped[x]
<1>1. DOMAIN r = RatchetFields /\ r.Nr \in Nat /\ r.CKr \in ChainsOver(K)
  BY Zenon DEF RatchetBase
<1>2. /\ DOMAIN q = RatchetFields
      /\ q.MKSkipped = [x \in D \cup S |-> V(x)]
      /\ q.CKr = chainKDF(r.CKr, k - r.Nr)
      /\ q.Nr = k
      /\ q.DHs = r.DHs /\ q.DHr = r.DHr /\ q.RK = r.RK /\ q.CKs = r.CKs
      /\ q.Ns = r.Ns /\ q.PN = r.PN
  BY <1>1, Zenon DEF SkipTo, RatchetFields
<1> HIDE DEF q
<1>3. DOMAIN q.MKSkipped = D \cup S /\ \A x \in D \cup S : q.MKSkipped[x] = V(x)
  BY <1>2, Zenon
<1>4. ASSUME NEW x \in S
      PROVE  /\ x \in K \X Nat /\ x[1] = r.DHr /\ x[2] \in Nat
             /\ r.Nr <= x[2] /\ x[2] < k
             /\ V(x) \in ChainsOver(K) /\ V(x).root = r.CKr.root
             /\ V(x).n = r.CKr.n + (x[2] - r.Nr)
  <2>1. PICK i \in r.Nr .. k - 1 : x = <<r.DHr, i>>
    BY Zenon DEF Stored
  <2>2. i \in Nat /\ r.Nr <= i /\ i < k
    BY <1>1, <2>1
  <2>3. PICK j \in Nat : j = i - r.Nr
    BY <1>1, <2>2
  <2>4. V(x) = chainKDF(r.CKr, j)
    BY <2>1, <2>3, Zenon
  <2>5. /\ chainKDF(r.CKr, j) \in ChainsOver(K)
        /\ chainKDF(r.CKr, j).root = r.CKr.root
        /\ chainKDF(r.CKr, j).n = r.CKr.n + j
    BY <1>1, ChainAdvances, Zenon
  <2> HIDE DEF V
  <2> QED BY <2>1, <2>2, <2>3, <2>4, <2>5, Zenon
<1>5. ASSUME NEW x \in D \ S
      PROVE  /\ V(x) = r.MKSkipped[x]
             /\ V(x).root = r.CKr.root => V(x).n < r.CKr.n
             /\ x \in K \X Nat /\ V(x) \in ChainsOver(K) /\ Len(V(x).root) < Len(r.RK)
  BY Zenon DEF RatchetBase
<1>6. \A x \in D \cup S : x \in S \/ x \in D \ S
  BY Zenon
<1>7. \A x, y \in D \ S : V(x) = V(y) => x = y
  BY <1>5, Zenon DEF RatchetBase
<1> HIDE DEF V, S, D
<1>8. r.CKr.n \in Nat /\ k - r.Nr \in Nat
  BY <1>1 DEF ChainsOver
<1>9. /\ q.CKr \in ChainsOver(K) /\ q.CKr.root = r.CKr.root
      /\ q.CKr.n = r.CKr.n + (k - r.Nr)
  <2>1. PICK j \in Nat : j = k - r.Nr
    BY <1>8, Zenon
  <2>2. q.CKr = chainKDF(r.CKr, j)
    BY <1>2, <2>1, Zenon
  <2>3. /\ chainKDF(r.CKr, j) \in ChainsOver(K)
        /\ chainKDF(r.CKr, j).root = r.CKr.root
        /\ chainKDF(r.CKr, j).n = r.CKr.n + j
    BY <1>1, ChainAdvances, Zenon
  <2> QED BY <2>1, <2>2, <2>3, Zenon
<1>10. ASSUME NEW x \in D \cup S
       PROVE  /\ x \in K \X Nat
              /\ V(x) \in ChainsOver(K)
              /\ Len(V(x).root) < Len(r.RK)
              /\ V(x).root = q.CKr.root => V(x).n < q.CKr.n
  <2>1. CASE x \in S
    <3>1. Len(r.CKr.root) < Len(r.RK)
      BY Zenon DEF RatchetBase
    <3> QED BY <1>1, <1>4, <1>8, <1>9, <2>1, <3>1
  <2>2. CASE x \in D \ S
    <3>1. V(x).n \in Nat
      BY <1>5, <2>2, Zenon DEF ChainsOver
    <3> QED BY <1>1, <1>5, <1>8, <1>9, <2>2, <3>1
  <2> QED BY <1>6, <2>1, <2>2, Zenon
<1>11. ASSUME NEW x \in D \cup S, NEW y \in D \cup S, V(x) = V(y)
       PROVE  x = y
  <2>1. CASE x \in S /\ y \in S
    <3>1. x[2] = y[2]
      BY <1>1, <1>4, <1>8, <1>11, <2>1
    <3> QED BY <1>4, <2>1, <3>1
  <2>2. CASE x \in S /\ y \in D \ S
    BY <1>1, <1>4, <1>5, <1>8, <1>11, <2>2
  <2>3. CASE x \in D \ S /\ y \in S
    BY <1>1, <1>4, <1>5, <1>8, <1>11, <2>3
  <2>4. CASE x \in D \ S /\ y \in D \ S
    BY <1>7, <1>11, <2>4, Zenon
  <2> QED BY <1>6, <2>1, <2>2, <2>3, <2>4, Zenon
<1>12. RatchetBase(q, K)
  <2>1. /\ q.DHs \in K /\ q.RK \in Roots(K)
        /\ q.Ns \in Nat /\ q.Nr \in Nat /\ q.PN \in Nat
        /\ Len(q.CKr.root) < Len(q.RK)
    BY <1>2, <1>9, Zenon DEF RatchetBase
  <2> QED BY <1>2, <1>3, <1>9, <1>10, <1>11, <2>1 DEF RatchetBase
<1>13. ASSUME NEW c, c.n \in Nat, CanDerive(q, c) PROVE CanDerive(r, c)
  <2>1. CASE \E x \in D \cup S : V(x) = c
    <3>1. PICK x \in D \cup S : V(x) = c
      BY <2>1, Zenon
    <3>2. CASE x \in S
      BY <1>1, <1>4, <1>8, <3>1, <3>2 DEF CanDerive
    <3>3. CASE x \in D \ S
      BY <1>5, <3>1, <3>3, Zenon DEF CanDerive, D
    <3> QED BY <1>6, <3>2, <3>3, Zenon
  <2>2. CASE q.CKr.root = c.root /\ q.CKr.n <= c.n
    <3>1. r.CKr.n <= c.n
      BY <1>1, <1>8, <1>9, <1>13, <2>2
    <3> QED BY <1>9, <2>2, <3>1, Zenon DEF CanDerive
  <2> QED BY <1>3, <1>13, <2>1, <2>2, Zenon DEF CanDerive
<1> QED BY <1>2, <1>12, <1>13, Zenon DEF Kept, NoGain, q

\* skipMessageKeys, whether it comes to its end or stops at the limit
\* (ratchet.go:151).
LEMMA SkipKeeps ==
    ASSUME NEW K, NEW r, RatchetBase(r, K), r.DHr \in K \/ r.CKr = NilChain,
           NEW until \in Nat
    PROVE  /\ RatchetBase(skipMessageKeys(r, until), K)
           /\ Kept(r, skipMessageKeys(r, until))
           /\ NoGain(r, skipMessageKeys(r, until))
<1>1. CASE r.CKr = NilChain \/ until > r.Nr + MaxSkip
  <2>1. skipMessageKeys(r, until) = r
    BY <1>1, Zenon DEF skipMessageKeys
  <2> QED BY <2>1, Zenon DEF Kept, NoGain
<1>2. CASE ~(r.CKr = NilChain \/ until > r.Nr + MaxSkip)
  <2>1. skipMessageKeys(r, until) = SkipTo(r, StopAt(r, until))
    BY <1>2, Zenon DEF skipMessageKeys
  <2>2. StopAt(r, until) \in Nat /\ StopAt(r, until) >= r.Nr
    BY StopAtBounds, Zenon DEF RatchetBase
  <2>3. r.DHr \in K
    BY <1>2, Zenon
  <2> QED BY <2>1, <2>2, <2>3, SkipToKeeps, Zenon
<1> QED BY <1>1, <1>2, Zenon

\* The key of the message is taken from the receiving chain, which moves on: the
\* key is out of reach (ratchet.go:130-131).
LEMMA AdvanceKeeps ==
    ASSUME NEW K, NEW r, RatchetBase(r, K), NEW q,
           q = [r EXCEPT !.CKr = chainKDF(@, 1), !.Nr = @ + 1]
    PROVE  /\ RatchetBase(q, K)
           /\ Kept(r, q)
           /\ NoGain(r, q)
           /\ CanDerive(r, r.CKr) /\ ~CanDerive(q, r.CKr)
<1>1. DOMAIN r = RatchetFields /\ r.Nr \in Nat /\ r.CKr \in ChainsOver(K)
  BY Zenon DEF RatchetBase
<1>2. /\ DOMAIN q = RatchetFields
      /\ q.MKSkipped = r.MKSkipped
      /\ q.CKr = chainKDF(r.CKr, 1)
      /\ q.Nr = r.Nr + 1
      /\ q.DHs = r.DHs /\ q.DHr = r.DHr /\ q.RK = r.RK /\ q.CKs = r.CKs
      /\ q.Ns = r.Ns /\ q.PN = r.PN
  BY <1>1, Zenon DEF RatchetFields
<1>3. /\ q.CKr \in ChainsOver(K) /\ q.CKr.root = r.CKr.root
      /\ q.CKr.n = r.CKr.n + 1
  <2>1. PICK k \in Nat : k = 1
    OBVIOUS
  <2>2. /\ chainKDF(r.CKr, k) \in ChainsOver(K)
        /\ chainKDF(r.CKr, k).root = r.CKr.root
        /\ chainKDF(r.CKr, k).n = r.CKr.n + k
    BY <1>1, ChainAdvances, Zenon
  <2> QED BY <1>2, <2>1, <2>2, Zenon
<1>4. r.CKr.n \in Nat
  BY <1>1, Zenon DEF ChainsOver
<1>5. \A x \in DOMAIN r.MKSkipped : r.MKSkipped[x].n \in Nat
  BY Zenon DEF RatchetBase, ChainsOver
<1>6. RatchetBase(q, K)
  <2>1. q.Nr \in Nat
    BY <1>1, <1>2
  <2>2. ASSUME NEW x \in DOMAIN r.MKSkipped, r.MKSkipped[x].root = r.CKr.root
        PROVE  r.MKSkipped[x].n < q.CKr.n
    <3>1. r.MKSkipped[x].n < r.CKr.n
      BY <2>2, Zenon DEF RatchetBase
    <3> QED BY <1>3, <1>4, <1>5, <3>1
  <2> QED BY <1>1, <1>2, <1>3, <2>1, <2>2 DEF RatchetBase
<1>7. ASSUME NEW c, c.n \in Nat, CanDerive(q, c) PROVE CanDerive(r, c)
  BY <1>2, <1>3, <1>4, <1>7 DEF CanDerive
<1>8. CanDerive(r, r.CKr)
  BY <1>4 DEF CanDerive
<1>9. ~CanDerive(q, r.CKr)
  <2>1. ~(q.CKr.n <= r.CKr.n)
    BY <1>3, <1>4
  <2>2. \A x \in DOMAIN r.MKSkipped : r.MKSkipped[x] # r.CKr
    BY <1>4 DEF RatchetBase
  <2> QED BY <1>2, <2>1, <2>2, Zenon DEF CanDerive
<1> QED BY <1>2, <1>6, <1>7, <1>8, <1>9, Zenon DEF Kept, NoGain

\* The root of the next receiving chain, and the root key after the next
\* Diffie-Hellman step (ratchet.go:175).
NextRoot(r, dh) == rootKDF(r.RK, x25519DH(r.DHs, dh))

StepRoot(r, dh, dhs) == rootKDF(NextRoot(r, dh), x25519DH(dhs, dh))

\* q is r after a Diffie-Hellman step with the remote key dh and the new pair dhs.
Stepped(r, dh, dhs, K, q) ==
    /\ RatchetInv(q, K \cup {dhs})
    /\ q.RK = StepRoot(r, dh, dhs) /\ q.DHs = dhs /\ q.CKs = ChainOf(q.RK)
    /\ \A c : CanDerive(q, c) => CanDerive(r, c) \/ c.root = NextRoot(r, dh)

\* The Diffie-Hellman step starts two chains that are longer than every chain
\* whose keys are in MKSkipped.
LEMMA StepKeeps ==
    ASSUME NEW K, NEW r, RatchetBase(r, K), Len(r.RK) >= 2,
           NEW dh \in K, NEW dhs, NEW q, q = dhRatchetStep(r, dh, dhs)
    PROVE  Stepped(r, dh, dhs, K, q)
<1> DEFINE rk1 == NextRoot(r, dh)
           rk2 == StepRoot(r, dh, dhs)
           L == K \cup {dhs}
<1>1. DOMAIN r = RatchetFields /\ r.RK \in Roots(K) /\ r.DHs \in K /\ r.Ns \in Nat
  BY Zenon DEF RatchetBase
<1>2. /\ DOMAIN q = RatchetFields
      /\ q.MKSkipped = r.MKSkipped
      /\ q.CKr = ChainOf(rk1)
      /\ q.Nr = 0 /\ q.Ns = 0 /\ q.PN = r.Ns
      /\ q.DHs = dhs /\ q.DHr = dh /\ q.RK = rk2 /\ q.CKs = ChainOf(rk2)
  BY <1>1, Zenon DEF dhRatchetStep, RatchetFields, NextRoot, StepRoot
<1>3. K \subseteq L /\ dh \in L /\ dhs \in L
  BY Zenon
<1>4. Roots(K) \subseteq Roots(L) /\ ChainsOver(K) \subseteq ChainsOver(L)
  BY <1>3, ChainsGrow, Zenon
<1>5. rk1 \in Roots(K) /\ Len(rk1) = Len(r.RK) + 1
  BY <1>1, RootGrows DEF NextRoot
<1> HIDE DEF L
<1>6. rk2 \in Roots(L) /\ Len(rk2) = Len(rk1) + 1
  BY <1>3, <1>4, <1>5, RootGrows DEF StepRoot
<1>7. Len(r.RK) \in Nat
  BY <1>1 DEF Roots
<1> HIDE DEF rk1, rk2
<1>8. q.CKr \in ChainsOver(L) /\ q.CKr.root = rk1 /\ q.CKs \in ChainsOver(L) /\ q.CKs.root = rk2
  BY <1>2, <1>4, <1>5, <1>6 DEF ChainOf, ChainsOver
<1>9. ASSUME NEW x \in DOMAIN r.MKSkipped
      PROVE  /\ x \in L \X Nat
             /\ r.MKSkipped[x] \in ChainsOver(L)
             /\ Len(r.MKSkipped[x].root) < Len(rk2)
             /\ r.MKSkipped[x].root # rk1
             /\ \A y \in DOMAIN r.MKSkipped : r.MKSkipped[x] = r.MKSkipped[y] => x = y
  <2>1. /\ x \in K \X Nat
        /\ r.MKSkipped[x] \in ChainsOver(K)
        /\ Len(r.MKSkipped[x].root) < Len(r.RK)
        /\ \A y \in DOMAIN r.MKSkipped : r.MKSkipped[x] = r.MKSkipped[y] => x = y
    BY Zenon DEF RatchetBase
  <2>2. Len(r.MKSkipped[x].root) \in Nat
    BY <2>1 DEF ChainsOver, Roots
  <2> QED BY <1>3, <1>4, <1>5, <1>6, <1>7, <2>1, <2>2
<1>10. RatchetBase(q, L)
  <2>1. Len(q.CKr.root) < Len(q.RK)
    BY <1>2, <1>5, <1>6, <1>7, <1>8
  <2> QED BY <1>1, <1>2, <1>3, <1>6, <1>8, <1>9, <2>1 DEF RatchetBase
<1>11. RatchetInv(q, L)
  BY <1>2, <1>3, <1>5, <1>6, <1>7, <1>8, <1>10 DEF RatchetInv
<1>12. ASSUME NEW c, CanDerive(q, c) PROVE CanDerive(r, c) \/ c.root = rk1
  BY <1>2, <1>8, <1>12, Zenon DEF CanDerive
<1> QED BY <1>2, <1>11, <1>12, Zenon DEF Stepped, rk1, rk2, L

-----------------------------------------------------------------------------
(* RatchetDecrypt and RatchetEncrypt as a whole. *)

\* A Diffie-Hellman step appends two secrets to the root key, and the new pair is
\* in the second one.
LEMMA StepRoots ==
    ASSUME NEW K, NEW r, r.RK \in Roots(K), r.DHs \in K, NEW dh \in K, NEW dhs,
           NEW rk1, rk1 = NextRoot(r, dh), NEW rk2, rk2 = StepRoot(r, dh, dhs)
    PROVE  /\ Len(r.RK) \in Nat
           /\ rk1 \in Roots(K) /\ Len(rk1) = Len(r.RK) + 1 /\ Len(rk2) = Len(r.RK) + 2
           /\ \A i \in 1 .. Len(r.RK) : rk1[i] = r.RK[i] /\ rk2[i] = r.RK[i]
           /\ rk2[Len(rk2)] = {dhs, dh}
<1> DEFINE L == K \cup {dhs}
<1>1. Len(r.RK) \in Nat
  BY DEF Roots
<1>2. /\ rk1 \in Roots(K) /\ Len(rk1) = Len(r.RK) + 1
      /\ \A i \in 1 .. Len(r.RK) : rk1[i] = r.RK[i]
  BY RootGrows DEF NextRoot
<1>3. rk1 \in Roots(L) /\ dhs \in L /\ dh \in L
  BY <1>2, ChainsGrow, Zenon
<1>4. rk2 = rootKDF(rk1, x25519DH(dhs, dh))
  BY Zenon DEF StepRoot
<1> HIDE DEF L
<1>5. /\ Len(rk2) = Len(rk1) + 1 /\ rk2[Len(rk1) + 1] = {dhs, dh}
      /\ \A i \in 1 .. Len(rk1) : rk2[i] = rk1[i]
  BY <1>3, <1>4, RootGrows
<1>6. ASSUME NEW i \in 1 .. Len(r.RK) PROVE rk2[i] = r.RK[i]
  <2>1. i \in 1 .. Len(rk1)
    BY <1>1, <1>2
  <2> QED BY <1>2, <1>5, <2>1, Zenon
<1> QED BY <1>1, <1>2, <1>5, <1>6

\* A ratchet RatchetDecrypt is called on: one between two calls, or the one
\* InitRatchetAsBob has just made.
Ready(r, dh, K) ==
    \/ RatchetInv(r, K)
    \/ /\ RatchetBase(r, K) /\ Len(r.RK) >= 3
       /\ r.CKr = NilChain /\ r.DHr # dh /\ DOMAIN r.MKSkipped = {}

\* What a call of RatchetDecrypt on r, for a message with ratchet key dh that was
\* encrypted with key, returns: it derives no key that was out of reach before
\* but those of the next receiving chain, and the key it decrypted with is gone.
Decrypted(r, dh, key, dhs, K, res) ==
    /\ res.took \in BOOLEAN /\ res.ok \in BOOLEAN
    /\ IF res.took
       THEN /\ RatchetInv(res.ratchet, K \cup {dhs})
            /\ res.ratchet.RK = StepRoot(r, dh, dhs)
            /\ res.ratchet.DHs = dhs
            /\ res.ratchet.CKs = ChainOf(res.ratchet.RK)
       ELSE RatchetInv(res.ratchet, K) /\ Kept(r, res.ratchet) /\ RatchetInv(r, K)
    /\ \A c : c.n \in Nat /\ CanDerive(res.ratchet, c) =>
                CanDerive(r, c) \/ (res.took /\ c.root = NextRoot(r, dh))
    /\ res.ok => /\ ~CanDerive(res.ratchet, key)
                 /\ CanDerive(r, key) \/ (res.took /\ key.root = NextRoot(r, dh))

\* The fields that stay in a step determine the roots of the next step.
LEMMA KeptRoots ==
    ASSUME NEW r, NEW q, Kept(r, q), NEW dh, NEW dhs
    PROVE  NextRoot(q, dh) = NextRoot(r, dh) /\ StepRoot(q, dh, dhs) = StepRoot(r, dh, dhs)
BY Zenon DEF Kept, NextRoot, StepRoot

\* A step that keeps these fields and RatchetBase keeps RatchetInv.
LEMMA KeptInv ==
    ASSUME NEW K, NEW r, NEW q, RatchetInv(r, K), RatchetBase(q, K), Kept(r, q)
    PROVE  RatchetInv(q, K)
BY Zenon DEF RatchetInv, Kept

\* The key that decrypted a message belongs to a chain the ratchet could reach.
LEMMA DecryptedRoot ==
    ASSUME NEW K, NEW r, NEW dh \in K, Ready(r, dh, K), NEW key, NEW dhs, NEW res,
           Decrypted(r, dh, key, dhs, K, res), res.ok
    PROVE  key.root \in Roots(K)
<1>1. RatchetBase(r, K)
  BY Zenon DEF Ready, RatchetInv
<1>2. CASE key.root = NextRoot(r, dh)
  BY <1>1, <1>2, RootGrows DEF RatchetBase, NextRoot
<1>3. CASE CanDerive(r, key)
  BY <1>1, <1>3, Zenon DEF CanDerive, RatchetBase, ChainsOver
<1> QED BY <1>2, <1>3, Zenon DEF Decrypted

\* RatchetDecrypt, along each of its paths: a stored key, a limit that was
\* exceeded before or after the Diffie-Hellman step, or a key of the receiving
\* chain, right or wrong (ratchet.go:108).
LEMMA DecryptDoes ==
    ASSUME NEW K, NEW r0, NEW h, Ready(r0, h.dh, K), h.dh \in K,
           h.n \in Nat, h.pn \in Nat, NEW key, key.n \in Nat, NEW dhs
    PROVE  Decrypted(r0, h.dh, key, dhs, K, RatchetDecrypt(r0, h, key, dhs))
<1> DEFINE slot == <<h.dh, h.n>>
           found == slot \in DOMAIN r0.MKSkipped
           r1 == IF found THEN deleteSkipped(r0, slot) ELSE r0
           turn == h.dh # r1.DHr
           r2 == IF turn THEN skipMessageKeys(r1, h.pn) ELSE r1
           r3 == IF turn THEN dhRatchetStep(r2, h.dh, dhs) ELSE r2
           r4 == skipMessageKeys(r3, h.n)
           r5 == [r4 EXCEPT !.CKr = chainKDF(@, 1), !.Nr = @ + 1]
           res == RatchetDecrypt(r0, h, key, dhs)
           L == K \cup {dhs}
           Result(r, ok, took) == [ratchet |-> r, ok |-> ok, took |-> took]
<1>1. res = IF found /\ r0.MKSkipped[slot] = key THEN Result(r1, TRUE, FALSE)
            ELSE IF turn /\ skipFails(r1, h.pn) THEN Result(r2, FALSE, FALSE)
            ELSE IF skipFails(r3, h.n) THEN Result(r4, FALSE, turn)
            ELSE Result(r5, r4.CKr = key, turn)
  BY Zenon DEF RatchetDecrypt
<1> SUFFICES Decrypted(r0, h.dh, key, dhs, K, res)
  BY Zenon
<1> HIDE DEF res
<1>2. RatchetBase(r0, K) /\ Len(r0.RK) >= 3 /\ Len(r0.RK) \in Nat
  <2>1. RatchetBase(r0, K)
    BY Zenon DEF Ready, RatchetInv
  <2>2. Len(r0.RK) \in Nat
    BY <2>1 DEF RatchetBase, Roots
  <2> QED BY <2>1, <2>2 DEF Ready, RatchetInv
<1>3. /\ RatchetBase(r1, K) /\ Kept(r0, r1) /\ r1.CKr = r0.CKr /\ NoGain(r0, r1)
      /\ found => ~CanDerive(r1, r0.MKSkipped[slot])
  <2>1. CASE found
    BY <1>2, <2>1, DeleteKeeps, Zenon
  <2>2. CASE ~found
    BY <1>2, <2>2, Zenon DEF Kept, NoGain
  <2> QED BY <2>1, <2>2, Zenon
<1>4. found => CanDerive(r0, r0.MKSkipped[slot])
  BY Zenon DEF CanDerive
<1>5. r1.DHr = r0.DHr /\ r1.RK = r0.RK
  BY <1>3, Zenon DEF Kept
<1>6. RatchetInv(r0, K) => RatchetInv(r1, K)
  BY <1>3, KeptInv, Zenon
<1>7. ~turn => RatchetInv(r0, K)
  BY <1>5, Zenon DEF Ready
<1>8. r1.DHr \in K \/ r1.CKr = NilChain
  BY <1>3, <1>5, Zenon DEF Ready, RatchetInv
<1> HIDE DEF r1, slot
<1>9. RatchetBase(r2, K) /\ Kept(r1, r2) /\ NoGain(r1, r2)
  <2>1. CASE turn
    BY <1>3, <1>8, <2>1, SkipKeeps, Zenon
  <2>2. CASE ~turn
    BY <1>3, <2>2, Zenon DEF Kept, NoGain
  <2> QED BY <2>1, <2>2, Zenon
<1>10. Kept(r0, r2) /\ NoGain(r0, r2)
  BY <1>3, <1>9, Zenon DEF Kept, NoGain
<1>11. /\ NextRoot(r2, h.dh) = NextRoot(r0, h.dh)
       /\ StepRoot(r2, h.dh, dhs) = StepRoot(r0, h.dh, dhs)
  BY <1>10, KeptRoots
<1>12. Len(r2.RK) >= 2
  BY <1>2, <1>10 DEF Kept
<1>13. found \/ r1.CKr # NilChain => RatchetInv(r0, K)
  BY <1>3, Zenon DEF Ready
<1> HIDE DEF found, turn, r2
<1>14. CASE found /\ r0.MKSkipped[slot] = key
  <2>1. res.ratchet = r1 /\ res.ok = TRUE /\ res.took = FALSE
    BY <1>1, <1>14, Zenon
  <2> QED BY <1>3, <1>4, <1>6, <1>13, <1>14, <2>1, Zenon DEF Decrypted, NoGain
<1>15. CASE ~(found /\ r0.MKSkipped[slot] = key) /\ turn /\ skipFails(r1, h.pn)
  <2>1. res.ratchet = r2 /\ res.ok = FALSE /\ res.took = FALSE
    BY <1>1, <1>15, Zenon
  <2>2. RatchetInv(r0, K)
    BY <1>13, <1>15, Zenon DEF skipFails
  <2>3. RatchetInv(r2, K)
    BY <1>9, <1>10, <2>2, KeptInv, Zenon
  <2> QED BY <1>10, <2>1, <2>2, <2>3, Zenon DEF Decrypted, NoGain
<1>16. CASE ~(found /\ r0.MKSkipped[slot] = key) /\ ~(turn /\ skipFails(r1, h.pn))
  <2> DEFINE M == IF turn THEN L ELSE K
  <2>1. /\ RatchetInv(r3, M)
        /\ turn => /\ r3.RK = StepRoot(r0, h.dh, dhs) /\ r3.DHs = dhs
                   /\ r3.CKs = ChainOf(r3.RK)
        /\ ~turn => Kept(r0, r3) /\ RatchetInv(r0, K)
        /\ \A c : c.n \in Nat /\ CanDerive(r3, c) =>
                    CanDerive(r0, c) \/ (turn /\ c.root = NextRoot(r0, h.dh))
    <3>1. CASE turn
      <4>1. r3 = dhRatchetStep(r2, h.dh, dhs)
        BY <3>1, Zenon
      <4> HIDE DEF r3
      <4>2. /\ RatchetInv(r3, L)
            /\ r3.RK = StepRoot(r2, h.dh, dhs) /\ r3.DHs = dhs /\ r3.CKs = ChainOf(r3.RK)
            /\ \A c : CanDerive(r3, c) => CanDerive(r2, c) \/ c.root = NextRoot(r2, h.dh)
        <5>1. Stepped(r2, h.dh, dhs, K, r3)
          BY <1>9, <1>12, <4>1, StepKeeps, Zenon
        <5> QED BY <5>1, Zenon DEF Stepped
      <4> HIDE DEF L
      <4> QED BY <1>10, <1>11, <3>1, <4>2, Zenon DEF NoGain
    <3>2. CASE ~turn
      <4>1. r3 = r2 /\ RatchetInv(r0, K)
        BY <1>7, <3>2, Zenon
      <4>2. RatchetInv(r3, K)
        BY <1>9, <1>10, <4>1, KeptInv, Zenon
      <4> HIDE DEF r3
      <4> QED BY <1>10, <3>2, <4>1, <4>2, Zenon DEF NoGain
    <3> QED BY <3>1, <3>2, Zenon
  <2> HIDE DEF r3, M, L
  <2>2. RatchetBase(r3, M) /\ r3.DHr \in M
    BY <2>1, Zenon DEF RatchetInv
  <2>3. RatchetBase(r4, M) /\ Kept(r3, r4) /\ NoGain(r3, r4)
    BY <2>2, SkipKeeps, Zenon
  <2> HIDE DEF r4
  <2>4. /\ RatchetBase(r5, M) /\ Kept(r4, r5) /\ NoGain(r4, r5)
        /\ CanDerive(r4, r4.CKr) /\ ~CanDerive(r5, r4.CKr)
    BY <2>3, AdvanceKeeps, Zenon
  <2> HIDE DEF r5
  <2>5. Kept(r3, r5) /\ NoGain(r3, r5)
    BY <2>3, <2>4, Zenon DEF Kept, NoGain
  <2>6. RatchetInv(r4, M) /\ RatchetInv(r5, M)
    BY <2>1, <2>3, <2>4, <2>5, KeptInv, Zenon
  <2>7. ASSUME NEW q, NEW ok \in BOOLEAN, res = Result(q, ok, turn),
               RatchetInv(q, M), Kept(r3, q), NoGain(r3, q),
               ok => ~CanDerive(q, key) /\ CanDerive(r3, key)
        PROVE  Decrypted(r0, h.dh, key, dhs, K, res)
    <3>1. turn \in BOOLEAN
      BY Zenon DEF turn
    <3>2. res.ratchet = q /\ res.ok = ok /\ res.took = turn
      BY <2>7, Zenon
    <3> HIDE DEF Result
    <3>3. CASE turn
      <4>1. RatchetInv(q, K \cup {dhs})
        BY <2>7, <3>3, Zenon DEF M, L
      <4>2. q.RK = StepRoot(r0, h.dh, dhs) /\ q.DHs = dhs /\ q.CKs = ChainOf(q.RK)
        BY <2>1, <2>7, <3>3, Zenon DEF Kept
      <4> QED BY <2>1, <2>7, <3>1, <3>2, <3>3, <4>1, <4>2, Zenon DEF Decrypted, NoGain
    <3>4. CASE ~turn
      <4>1. RatchetInv(q, K)
        BY <2>7, <3>4, Zenon DEF M
      <4>2. Kept(r0, q)
        BY <2>1, <2>7, <3>4, Zenon DEF Kept
      <4> QED BY <2>1, <2>7, <3>1, <3>2, <3>4, <4>1, <4>2, Zenon DEF Decrypted, NoGain
    <3> QED BY <3>3, <3>4, Zenon
  <2>8. CASE skipFails(r3, h.n)
    <3>1. res = Result(r4, FALSE, turn)
      BY <1>1, <1>16, <2>8, Zenon
    <3> HIDE DEF Result
    <3> QED BY <2>3, <2>6, <2>7, <3>1, Zenon
  <2>9. CASE ~skipFails(r3, h.n)
    <3>1. res = Result(r5, r4.CKr = key, turn)
      BY <1>1, <1>16, <2>9, Zenon
    <3>2. (r4.CKr = key) => ~CanDerive(r5, key) /\ CanDerive(r3, key)
      BY <2>3, <2>4, Zenon DEF NoGain
    <3>3. (r4.CKr = key) \in BOOLEAN
      BY Zenon
    <3> HIDE DEF Result
    <3> QED BY <2>5, <2>6, <2>7, <3>1, <3>2, <3>3, Zenon
  <2> QED BY <2>8, <2>9, Zenon
<1> QED BY <1>14, <1>15, <1>16, Zenon

\* RatchetEncrypt advances the sending chain and nothing else (ratchet.go:83).
LEMMA EncryptDoes ==
    ASSUME NEW K, NEW r, RatchetInv(r, K), NEW q, q = RatchetEncrypt(r)
    PROVE  /\ RatchetInv(q, K)
           /\ q.DHs = r.DHs /\ q.RK = r.RK /\ q.CKr = r.CKr /\ q.MKSkipped = r.MKSkipped
           /\ q.CKs.root = r.CKs.root /\ q.CKs.n = r.CKs.n + 1
<1>1. DOMAIN r = RatchetFields /\ r.Ns \in Nat /\ r.CKs \in ChainsOver(K)
  BY Zenon DEF RatchetInv, RatchetBase
<1>2. /\ DOMAIN q = RatchetFields
      /\ q.MKSkipped = r.MKSkipped
      /\ q.CKs = chainKDF(r.CKs, 1)
      /\ q.Ns = r.Ns + 1
      /\ q.DHs = r.DHs /\ q.DHr = r.DHr /\ q.RK = r.RK /\ q.CKr = r.CKr
      /\ q.Nr = r.Nr /\ q.PN = r.PN
  BY <1>1, Zenon DEF RatchetEncrypt, RatchetFields
<1>3. /\ q.CKs \in ChainsOver(K) /\ q.CKs.root = r.CKs.root
      /\ q.CKs.n = r.CKs.n + 1
  <2>1. PICK k \in Nat : k = 1
    OBVIOUS
  <2>2. /\ chainKDF(r.CKs, k) \in ChainsOver(K)
        /\ chainKDF(r.CKs, k).root = r.CKs.root
        /\ chainKDF(r.CKs, k).n = r.CKs.n + k
    BY <1>1, ChainAdvances, Zenon
  <2> QED BY <1>2, <2>1, <2>2, Zenon
<1>4. RatchetBase(q, K)
  BY <1>1, <1>2 DEF RatchetInv, RatchetBase
<1>5. RatchetInv(q, K)
  BY <1>2, <1>3, <1>4, Zenon DEF RatchetInv
<1> QED BY <1>2, <1>3, <1>5, Zenon

\* A ratchet over some key pairs is one over more key pairs.
LEMMA InvGrows ==
    ASSUME NEW K, NEW L, K \subseteq L, NEW r, RatchetInv(r, K)
    PROVE  RatchetInv(r, L)
<1>1. Roots(K) \subseteq Roots(L) /\ ChainsOver(K) \subseteq ChainsOver(L)
  BY ChainsGrow, Zenon
<1>2. RatchetBase(r, L)
  BY <1>1, Zenon DEF RatchetInv, RatchetBase
<1> QED BY <1>1, <1>2, Zenon DEF RatchetInv

-----------------------------------------------------------------------------
(* The beginning of a session. *)

\* A shared secret: three or four secrets, of which the first two name the two
\* identity keys (x3dh.go:70-86).
IsSecret(s, K, e1, e2) ==
    /\ s \in Roots(K) /\ Len(s) \in Nat /\ Len(s) >= 3 /\ Len(s) <= 4
    /\ s[1] = e1 /\ s[2] = e2

\* The concatenation of the secrets is one, and the fourth is there unless it is
\* empty.
LEMMA X3DHDoes ==
    ASSUME NEW K, NEW e1 \in SUBSET K, NEW e2 \in SUBSET K, NEW e3 \in SUBSET K,
           NEW e4 \in SUBSET K, NEW s, s = X3DH(e1, e2, e3, e4)
    PROVE  IsSecret(s, K, e1, e2) /\ (e4 # {} => Len(s) = 4 /\ s[4] = e4)
<1> DEFINE a == <<e1, e2, e3>>
           b == IF e4 = {} THEN <<>> ELSE <<e4>>
<1>1. a \in Seq(SUBSET K) /\ Len(a) = 3 /\ a[1] = e1 /\ a[2] = e2
  OBVIOUS
<1>2. /\ b \in Seq(SUBSET K) /\ Len(b) \in Nat /\ Len(b) <= 1
      /\ e4 # {} => Len(b) = 1 /\ b[1] = e4
  <2>1. <<e4>> \in Seq(SUBSET K) /\ Len(<<e4>>) = 1 /\ <<e4>>[1] = e4
    OBVIOUS
  <2>2. <<>> \in Seq(SUBSET K) /\ Len(<<>>) = 0
    OBVIOUS
  <2>3. CASE e4 = {}
    <3>1. b = <<>>
      BY <2>3, Zenon
    <3> QED BY <2>2, <2>3, <3>1
  <2>4. CASE e4 # {}
    <3>1. b = <<e4>>
      BY <2>4, Zenon
    <3> HIDE DEF b
    <3> QED BY <2>1, <2>4, <3>1
  <2> QED BY <2>3, <2>4, Zenon
<1>3. s = a \o b
  BY Zenon DEF X3DH
<1> HIDE DEF a, b
<1>4. /\ a \o b \in Seq(SUBSET K)
      /\ Len(a \o b) = Len(a) + Len(b)
      /\ \A i \in 1 .. Len(a) + Len(b) :
            (a \o b)[i] = IF i <= Len(a) THEN a[i] ELSE b[i - Len(a)]
  <2>1. a \in Seq(SUBSET K) /\ b \in Seq(SUBSET K)
    BY <1>1, <1>2, Zenon
  <2>2. a \o b \in Seq(SUBSET K) /\ Len(a \o b) = Len(a) + Len(b)
    BY <2>1
  <2>3. ASSUME NEW i \in 1 .. Len(a) + Len(b)
        PROVE  (a \o b)[i] = IF i <= Len(a) THEN a[i] ELSE b[i - Len(a)]
    BY <2>1
  <2> QED BY <2>2, <2>3, Zenon
<1> DEFINE c == a \o b
<1>5. c \in Roots(K) /\ Len(c) \in Nat /\ Len(c) >= 3 /\ Len(c) <= 4
  BY <1>1, <1>2, <1>4 DEF Roots
<1>6. c[1] = e1 /\ c[2] = e2
  BY <1>1, <1>2, <1>4
<1>7. ASSUME e4 # {} PROVE Len(c) = 4 /\ c[4] = e4
  <2>1. Len(c) = 4
    BY <1>1, <1>2, <1>4, <1>7
  <2>2. c[4] = b[4 - Len(a)]
    BY <1>1, <1>2, <1>4, <1>7
  <2> QED BY <1>1, <1>2, <1>7, <2>1, <2>2
<1> QED BY <1>3, <1>5, <1>6, <1>7, Zenon DEF IsSecret

\* The secret the initiator computes (x3dh.go:28) ...
LEMMA InitiateDoes ==
    ASSUME NEW K, NEW ik \in K, NEW ek \in K, NEW rik \in K, NEW rspk \in K,
           NEW ropk, ropk \in K \/ ropk = NoKey
    PROVE  IsSecret(X3DHInitiate(ik, ek, rik, rspk, ropk), K, {ik, rspk}, {ek, rik})
<1> DEFINE e4 == IF ropk = NoKey THEN {} ELSE x25519DH(ek, ropk)
<1>1. /\ {ik, rspk} \subseteq K /\ {ek, rik} \subseteq K /\ {ek, rspk} \subseteq K
      /\ e4 \subseteq K
  BY Zenon DEF x25519DH
<1>2. X3DHInitiate(ik, ek, rik, rspk, ropk) = X3DH({ik, rspk}, {ek, rik}, {ek, rspk}, e4)
  BY Zenon DEF X3DHInitiate, x25519DH
<1> HIDE DEF e4
<1> QED BY <1>1, <1>2, X3DHDoes

\* The one-time pre-key, if there is one, is in the fourth secret.
Mixes(s, opk) == opk # NoKey => Len(s) = 4 /\ opk \in s[4]

\* ... and the responder (x3dh.go:104).
LEMMA RespondDoes ==
    ASSUME NEW K, NEW ik \in K, NEW sp \in K, NEW opk, opk \in K \/ opk = NoKey,
           NEW rik \in K, NEW rek \in K, NEW s, s = X3DHRespond(ik, sp, opk, rik, rek)
    PROVE  IsSecret(s, K, {sp, rik}, {ik, rek}) /\ Mixes(s, opk)
<1> DEFINE e4 == IF opk = NoKey THEN {} ELSE x25519DH(opk, rek)
<1>1. /\ {sp, rik} \subseteq K /\ {ik, rek} \subseteq K /\ {sp, rek} \subseteq K
      /\ e4 \subseteq K
      /\ opk # NoKey => e4 # {} /\ opk \in e4
  BY Zenon DEF x25519DH
<1>2. s = X3DH({sp, rik}, {ik, rek}, {sp, rek}, e4)
  BY Zenon DEF X3DHRespond, x25519DH
<1> HIDE DEF e4
<1>3. IsSecret(s, K, {sp, rik}, {ik, rek}) /\ (e4 # {} => Len(s) = 4 /\ s[4] = e4)
  <2>1. /\ {sp, rik} \in SUBSET K /\ {ik, rek} \in SUBSET K /\ {sp, rek} \in SUBSET K
        /\ e4 \in SUBSET K
    BY <1>1, Zenon
  <2>2. PICK e1, e2, e3 \in SUBSET K : e1 = {sp, rik} /\ e2 = {ik, rek} /\ e3 = {sp, rek}
    BY <2>1, Zenon
  <2>3. s = X3DH(e1, e2, e3, e4)
    BY <1>2, <2>2, Zenon
  <2>4. IsSecret(s, K, e1, e2) /\ (e4 # {} => Len(s) = 4 /\ s[4] = e4)
    BY <2>1, <2>3, X3DHDoes
  <2> QED BY <2>2, <2>4, Zenon
<1> QED BY <1>1, <1>3, Zenon DEF Mixes

\* The initiator's ratchet can send, and has nothing to decrypt with yet
\* (ratchet.go:36).
LEMMA AliceStarts ==
    ASSUME NEW K, NEW e1, NEW e2, NEW s, IsSecret(s, K, e1, e2),
           NEW dhs \in K, NEW sp \in K, NEW r, r = InitRatchetAsAlice(s, dhs, sp)
    PROVE  /\ RatchetInv(r, K)
           /\ r.DHs = dhs /\ r.RK = rootKDF(s, x25519DH(dhs, sp))
           /\ r.RK[1] = e1 /\ r.RK[2] = e2
           /\ r.RK[Len(s) + 1] = {dhs, sp} /\ Len(r.RK) = Len(s) + 1
           /\ r.CKs.n = 0 /\ r.CKr.root = <<>> /\ DOMAIN r.MKSkipped = {}
<1> DEFINE rk == rootKDF(s, x25519DH(dhs, sp))
<1>1. s \in Roots(K) /\ Len(s) \in Nat /\ Len(s) >= 3 /\ s[1] = e1 /\ s[2] = e2
  BY Zenon DEF IsSecret
<1>2. /\ rk \in Roots(K) /\ Len(rk) = Len(s) + 1 /\ rk[Len(s) + 1] = {dhs, sp}
      /\ \A i \in 1 .. Len(s) : rk[i] = s[i]
  BY <1>1, RootGrows
<1>3. rk[1] = e1 /\ rk[2] = e2 /\ Len(rk) >= 4
  BY <1>1, <1>2
<1>4. r = [DHs |-> dhs, DHr |-> sp, RK |-> rk, CKs |-> ChainOf(rk),
           CKr |-> NilChain, Ns |-> 0, Nr |-> 0, PN |-> 0,
           MKSkipped |-> [k \in {} |-> NilChain]]
  BY Zenon DEF InitRatchetAsAlice
<1> HIDE DEF rk
<1>5. /\ DOMAIN r = RatchetFields
      /\ r.DHs = dhs /\ r.DHr = sp /\ r.RK = rk /\ r.CKs = ChainOf(rk)
      /\ r.CKr = NilChain /\ r.Ns = 0 /\ r.Nr = 0 /\ r.PN = 0
      /\ DOMAIN r.MKSkipped = {}
  BY <1>4 DEF RatchetFields
<1>6. <<>> \in Roots(K) /\ Len(<<>>) = 0
  BY DEF Roots
<1>7. NilChain \in ChainsOver(K) /\ NilChain.root = <<>>
  BY <1>6, Zenon DEF NilChain, ChainsOver
<1>8. ChainOf(rk) \in ChainsOver(K) /\ ChainOf(rk).root = rk /\ ChainOf(rk).n = 0
  BY <1>2, Zenon DEF ChainOf, ChainsOver
<1>9. RatchetBase(r, K)
  BY <1>2, <1>3, <1>5, <1>6, <1>7 DEF RatchetBase
<1>10. RatchetInv(r, K)
  BY <1>3, <1>5, <1>8, <1>9, Zenon DEF RatchetInv
<1> QED BY <1>2, <1>3, <1>5, <1>7, <1>8, <1>10, Zenon DEF rk

\* The responder's ratchet has no remote key, so the first message makes a
\* Diffie-Hellman step (ratchet.go:68).
LEMMA BobStarts ==
    ASSUME NEW K, NEW e1, NEW e2, NEW s, IsSecret(s, K, e1, e2), NEW sp \in K,
           NEW dh, dh # NoKey, NEW r, r = InitRatchetAsBob(s, sp)
    PROVE  /\ Ready(r, dh, K) /\ ~RatchetInv(r, K)
           /\ r.DHs = sp /\ r.RK = s
           /\ \A c : CanDerive(r, c) => c.root = <<>>
<1>1. s \in Roots(K) /\ Len(s) \in Nat /\ Len(s) >= 3
  BY Zenon DEF IsSecret
<1>2. /\ DOMAIN r = RatchetFields
      /\ r.DHs = sp /\ r.DHr = NoKey /\ r.RK = s /\ r.CKs = NilChain
      /\ r.CKr = NilChain /\ r.Ns = 0 /\ r.Nr = 0 /\ r.PN = 0
      /\ DOMAIN r.MKSkipped = {}
  BY Zenon DEF InitRatchetAsBob, RatchetFields
<1>3. <<>> \in Roots(K) /\ Len(<<>>) = 0
  BY DEF Roots
<1>4. NilChain \in ChainsOver(K) /\ NilChain.root = <<>>
  BY <1>3, Zenon DEF NilChain, ChainsOver
<1>5. RatchetBase(r, K)
  BY <1>1, <1>2, <1>3, <1>4 DEF RatchetBase
<1>6. Ready(r, dh, K)
  BY <1>1, <1>2, <1>5, Zenon DEF Ready
<1>7. ~RatchetInv(r, K)
  BY <1>1, <1>2, <1>3, <1>4 DEF RatchetInv
<1>8. \A c : CanDerive(r, c) => c.root = <<>>
  BY <1>2, <1>4, Zenon DEF CanDerive
<1> QED BY <1>2, <1>6, <1>7, <1>8, Zenon

=============================================================================
