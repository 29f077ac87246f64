--------------------------- MODULE OmemoRatchet ----------------------------
(***************************************************************************)
(* The Double Ratchet and the X3DH key agreement of crypto/omemo:          *)
(* ratchet.go, kdf.go, x3dh.go and session.go as operators on records.     *)
(*                                                                         *)
(* Keys are symbols.  An X25519 key pair is named by the device that made  *)
(* it and a number; DH of two pairs is the set of the two, whichever side  *)
(* computes it.  A root key is the sequence of secrets that went into it,  *)
(* a chain key the root it was split from and how often it was advanced,   *)
(* and the message key drawn from a chain key is named by that chain key.  *)
(* Different inputs give different keys; decryption succeeds exactly with  *)
(* the key of the encryption.                                              *)
(***************************************************************************)
EXTENDS Naturals, Sequences, FiniteSets

CONSTANTS
    NoKey,        \* a nil public key
    NoPreKey,     \* no one-time pre-key was used
    NoPending,    \* Session.PendingPreKey is nil
    MaxSkip       \* maxSkippedKeys

ASSUME RatchetAssumption == MaxSkip \in Nat

-----------------------------------------------------------------------------
(* Key derivation (kdf.go, keys.go). *)

x25519DH(a, b) == {a, b}

\* The nil chain key.  HMAC accepts it, so a chain can start from it.
NilChain == [root |-> <<>>, n |-> 0]

rootKDF(rk, dh) == Append(rk, dh)

ChainOf(rk) == [root |-> rk, n |-> 0]

\* The chain key after k calls of chainKDF.
chainKDF(ck, k) == [ck EXCEPT !.n = @ + k]

-----------------------------------------------------------------------------
(* X3DH (x3dh.go).  Both sides list the same secrets in the same order. *)

X3DH(dh1, dh2, dh3, dh4) ==
    <<dh1, dh2, dh3>> \o (IF dh4 = {} THEN <<>> ELSE <<dh4>>)

X3DHInitiate(ik, ek, remoteIK, remoteSPK, remoteOPK) ==
    X3DH(x25519DH(ik, remoteSPK), x25519DH(ek, remoteIK), x25519DH(ek, remoteSPK),
         IF remoteOPK = NoKey THEN {} ELSE x25519DH(ek, remoteOPK))

\* Mutant: the nil check on the one-time pre-key is missing.
X3DHRespondAlways(ik, spk, opk, remoteIK, remoteEK) ==
    X3DH(x25519DH(spk, remoteIK), x25519DH(ik, remoteEK), x25519DH(spk, remoteEK),
         x25519DH(opk, remoteEK))

X3DHRespond(ik, spk, opk, remoteIK, remoteEK) ==
    X3DH(x25519DH(spk, remoteIK), x25519DH(ik, remoteEK), x25519DH(spk, remoteEK),
         IF opk = NoKey THEN {} ELSE x25519DH(opk, remoteEK))

-----------------------------------------------------------------------------
(* The ratchet (ratchet.go). *)

InitRatchetAsAlice(secret, dhs, remoteSPK) ==
    LET rk == rootKDF(secret, x25519DH(dhs, remoteSPK))
    IN  [DHs |-> dhs, DHr |-> remoteSPK, RK |-> rk, CKs |-> ChainOf(rk),
         CKr |-> NilChain, Ns |-> 0, Nr |-> 0, PN |-> 0,
         MKSkipped |-> [k \in {} |-> NilChain]]

InitRatchetAsBob(secret, spk) ==
    [DHs |-> spk, DHr |-> NoKey, RK |-> secret, CKs |-> NilChain,
     CKr |-> NilChain, Ns |-> 0, Nr |-> 0, PN |-> 0,
     MKSkipped |-> [k \in {} |-> NilChain]]

\* The header and the key of the next message, and the ratchet after it.
EncryptHeader(r) == [dh |-> r.DHs, n |-> r.Ns, pn |-> r.PN]

EncryptKey(r) == r.CKs

RatchetEncrypt(r) == [r EXCEPT !.CKs = chainKDF(@, 1), !.Ns = @ + 1]

\* The keys skipMessageKeys(until) has stored once it has come to message k.
Stored(r, k) == {<<r.DHr, i>> : i \in r.Nr .. k - 1}

\* The message at which the loop stops: until, or the first one whose key makes
\* the map larger than the limit (that key stays in the map).
StopAt(r, until) ==
    LET Full(k) == Cardinality(DOMAIN r.MKSkipped \cup Stored(r, k)) > MaxSkip
        first == {k \in r.Nr + 1 .. until :
                    Full(k) /\ \A j \in r.Nr + 1 .. k - 1 : ~Full(j)}
    IN  IF first # {} THEN CHOOSE k \in first : TRUE
        ELSE IF until > r.Nr THEN until ELSE r.Nr

SkipTo(r, k) ==
    [r EXCEPT
        !.MKSkipped = [x \in DOMAIN @ \cup Stored(r, k) |->
            IF x \in Stored(r, k) THEN chainKDF(r.CKr, x[2] - r.Nr) ELSE @[x]],
        !.CKr = chainKDF(@, k - r.Nr),
        !.Nr = k]

skipFails(r, until) ==
    /\ r.CKr # NilChain
    /\ \/ until > r.Nr + MaxSkip
       \/ \E k \in r.Nr + 1 .. until :
            Cardinality(DOMAIN r.MKSkipped \cup Stored(r, k)) > MaxSkip

skipMessageKeys(r, until) ==
    IF r.CKr = NilChain \/ until > r.Nr + MaxSkip THEN r
    ELSE SkipTo(r, StopAt(r, until))

\* Mutant: the length of the sending chain is not kept.
dhRatchetStepNoPN(r, newDHr, dhs) ==
    LET rk1 == rootKDF(r.RK, x25519DH(r.DHs, newDHr))
        rk2 == rootKDF(rk1, x25519DH(dhs, newDHr))
    IN  [r EXCEPT !.Ns = 0, !.Nr = 0, !.DHr = newDHr, !.DHs = dhs,
                  !.CKr = ChainOf(rk1), !.RK = rk2, !.CKs = ChainOf(rk2)]

dhRatchetStep(r, newDHr, dhs) ==
    LET rk1 == rootKDF(r.RK, x25519DH(r.DHs, newDHr))
        rk2 == rootKDF(rk1, x25519DH(dhs, newDHr))
    IN  [r EXCEPT !.PN = r.Ns, !.Ns = 0, !.Nr = 0, !.DHr = newDHr, !.DHs = dhs,
                  !.CKr = ChainOf(rk1), !.RK = rk2, !.CKs = ChainOf(rk2)]

\* Mutant: the key stays in the map.
deleteSkippedNot(r, slot) == r

deleteSkipped(r, slot) ==
    [r EXCEPT !.MKSkipped = [x \in DOMAIN @ \ {slot} |-> @[x]]]

\* RatchetDecrypt of header h and a ciphertext under key; dhs is the pair
\* GenerateX25519KeyPair returns if it is called.  The result tells the ratchet
\* afterwards, whether the plaintext came out, and whether dhs was taken.
RatchetDecrypt(r0, h, key, dhs) ==
    LET slot == <<h.dh, h.n>>
        found == slot \in DOMAIN r0.MKSkipped
        \* trySkippedKeys deletes the entry before it decrypts.
        r1 == IF found THEN deleteSkipped(r0, slot) ELSE r0
        turn == h.dh # r1.DHr
        r2 == IF turn THEN skipMessageKeys(r1, h.pn) ELSE r1
        r3 == IF turn THEN dhRatchetStep(r2, h.dh, dhs) ELSE r2
        r4 == skipMessageKeys(r3, h.n)
        r5 == [r4 EXCEPT !.CKr = chainKDF(@, 1), !.Nr = @ + 1]
        Result(r, ok, took) == [ratchet |-> r, ok |-> ok, took |-> took]
    IN  IF found /\ r0.MKSkipped[slot] = key THEN Result(r1, TRUE, FALSE)
        ELSE IF turn /\ skipFails(r1, h.pn) THEN Result(r2, FALSE, FALSE)
        ELSE IF skipFails(r3, h.n) THEN Result(r4, FALSE, turn)
        ELSE Result(r5, r4.CKr = key, turn)

\* A message key a ratchet still holds or can still reach by advancing its
\* receiving chain.
CanDerive(r, key) ==
    \/ \E x \in DOMAIN r.MKSkipped : r.MKSkipped[x] = key
    \/ r.CKr.root = key.root /\ r.CKr.n <= key.n

-----------------------------------------------------------------------------
(* Sessions (session.go). *)

\* ek and dhs are the two key pairs generated on the way.
InitSessionAsAlice(ik, bundle, ek, dhs) ==
    LET opk == IF bundle.preKeys = <<>> THEN NoKey ELSE bundle.preKeys[1].key
        id  == IF bundle.preKeys = <<>> THEN NoPreKey ELSE bundle.preKeys[1].id
    IN  [ratchet |-> InitRatchetAsAlice(
                        X3DHInitiate(ik, ek, bundle.ik, bundle.spk, opk), dhs, bundle.spk),
         pending |-> [id |-> id, ek |-> ek]]

InitSessionAsBob(ik, spk, opk, remoteIK, remoteEK) ==
    [ratchet |-> InitRatchetAsBob(X3DHRespond(ik, spk, opk, remoteIK, remoteEK), spk),
     pending |-> NoPending]

=============================================================================
