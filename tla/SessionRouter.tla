--------------------------- MODULE SessionRouter ---------------------------
(***************************************************************************)
(* The table xmppd routes stanzas with: cmd/xmppd/stream.go, type          *)
(* sessionRouter.  Two Go maps are kept under one RWMutex: byFull finds    *)
(* the session of a full JID and byBare the sessions of an account.  Every *)
(* method takes the lock for its whole body, so each is one step.          *)
(*                                                                         *)
(* An address is a record; all accounts live in the one domain xmppd       *)
(* serves, so the domain part is left out.  JID.String is injective on     *)
(* valid addresses (jid.New rejects '@' and '/' in a localpart), which is  *)
(* why records can stand for the strings the maps are keyed with.          *)
(***************************************************************************)

CONSTANTS
    Sessions,     \* the *xmpp.Session values, one per accepted connection
    Users,        \* localparts of accounts
    Resources,    \* resourceparts a client asks for or randomResource makes
    NoUser,       \* the empty localpart
    NoResource    \* the empty resourcepart

ASSUME RouterAssumption ==
    /\ NoUser \notin Users
    /\ NoResource \notin Resources

VARIABLES
    byFull,       \* full JID -> session
    byBare        \* bare JID -> (full JID -> session)

routerVars == <<byFull, byBare>>

-----------------------------------------------------------------------------
(* Addresses (jid/jid.go). *)

FullJIDs == [user : Users, res : Resources]

BareJIDs == [user : Users, res : {NoResource}]

\* The zero JID of a session that has not authenticated.  As the address of a
\* stanza it also stands for an address without an account: no session is ever
\* found under either.
ZeroJID == [user |-> NoUser, res |-> NoResource]

JIDs == FullJIDs \cup BareJIDs \cup {ZeroJID}

IsZero(j) == j = ZeroJID

IsFull(j) == j.res # NoResource

Bare(j) == [user |-> j.user, res |-> NoResource]

-----------------------------------------------------------------------------
(* The table. *)

RouterInit ==
    /\ byFull = [f \in {} |-> {}]
    /\ byBare = [b \in {} |-> {}]

\* m[k] = v and delete(m, k) on a Go map.
Put(m, k, v) == [x \in DOMAIN m \cup {k} |-> IF x = k THEN v ELSE m[x]]

Delete(m, k) == [x \in DOMAIN m \ {k} |-> m[x]]

\* The inner map of an account, empty when the account has none.
SessionsOf(b) == IF b \in DOMAIN byBare THEN byBare[b] ELSE [f \in {} |-> {}]

register(full, s) ==
    /\ byFull' = Put(byFull, full, s)
    /\ byBare' = Put(byBare, Bare(full), Put(SessionsOf(Bare(full)), full, s))

\* Mutant: the account's inner map keeps the entry.
unregisterFullOnly(full) ==
    /\ byFull' = Delete(byFull, full)
    /\ UNCHANGED byBare

\* Mutant: the account is removed whole.
unregisterAccount(full) ==
    /\ byFull' = [f \in {g \in DOMAIN byFull : Bare(g) # Bare(full)} |-> byFull[f]]
    /\ byBare' = Delete(byBare, Bare(full))

\* Deletes the entry of the address, whichever session it names by now.
unregister(full) ==
    IF IsZero(full)
    THEN UNCHANGED routerVars
    ELSE /\ byFull' = Delete(byFull, full)
         /\ IF Bare(full) \notin DOMAIN byBare
            THEN UNCHANGED byBare
            ELSE LET rest == Delete(byBare[Bare(full)], full)
                 IN  byBare' = IF DOMAIN rest = {}
                               THEN Delete(byBare, Bare(full))
                               ELSE Put(byBare, Bare(full), rest)

targets(to) ==
    IF IsZero(to) THEN {}
    ELSE IF IsFull(to)
    THEN IF to \in DOMAIN byFull THEN {byFull[to]} ELSE {}
    ELSE LET m == SessionsOf(Bare(to)) IN {m[f] : f \in DOMAIN m}

-----------------------------------------------------------------------------
RouterTypeOK ==
    /\ DOMAIN byFull \subseteq FullJIDs
    /\ byFull \in [DOMAIN byFull -> Sessions]

\* The index a byFull map calls for: one inner map per account with an entry.
Index(m) ==
    [b \in {Bare(f) : f \in DOMAIN m} |-> [f \in {g \in DOMAIN m : Bare(g) = b} |-> m[f]]]

\* byBare is an index of byFull: both name the same session for an address, and
\* no empty inner map is left behind.  register and unregister maintain the two
\* maps side by side (stream.go:48-52, 64-70).
IndexesAgree == byBare = Index(byFull)
=============================================================================
