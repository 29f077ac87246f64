---------------------------- MODULE StorageCalls ----------------------------
(***************************************************************************)
(* The calls in progress on a storage backend.  Callers are the goroutines *)
(* of the server that share one Storage value; a backend that holds a lock *)
(* for a whole method, or sends one statement, answers in one step         *)
(* (Return), the others take a step per statement or command (Begin, Step, *)
(* End).  Besides the backend's data the module keeps two records of what  *)
(* the callers were told:                                                  *)
(*   known  the keys whose last write ran without another write of the     *)
(*          same key in between and returned nil, with what it wrote;      *)
(*   walk   one reader that pages through an archive with AfterID = the    *)
(*          last ID it got, until a page says it is complete.              *)
(***************************************************************************)
EXTENDS StorageInterface

CONSTANTS
    Callers,    \* goroutines that use the store
    Idle,       \* no call
    MaxFaults,  \* bound: statements that fail and crashes
    IDAt        \* time -> the ID callers give to the message archived then

VARIABLES
    backend,    \* which backend it is
    topic,      \* the sub-store the callers use in this behaviour
    db,         \* the backend's data, in the backend's own shape
    ret,        \* <<method, error, value>> of the last call that returned
    pend,       \* caller -> Idle, or its method, the keys it may vouch for (claim),
                \*           the commands or keys still to do, what it has gathered
    faults,     \* how many statements have failed and crashes there were
    known,      \* key -> the value (or Gone) its last undisturbed write left
    walk,       \* the paging reader
    clock       \* how many messages have been archived

calls == <<backend, topic, db, ret, pend, faults, known, walk, clock>>

Topics == {"init", "users", "roster", "version", "blocking", "vcard", "offline", "archive", "walk",
           "muc", "items", "subs", "bookmarks"}
NoWalk == [on |-> FALSE, done |-> FALSE, after |-> 0, seen |-> <<>>, due |-> {}]

InitCalls ==
    /\ ret = <<InitStorage, "nil", NoVal>>
    /\ pend = [c \in Callers |-> Idle]
    /\ faults = 0 /\ clock = 0 /\ walk = NoWalk
    /\ known = [k \in {x \in KeysOf(topic) : ~IsList(x)} |-> Gone]
-----------------------------------------------------------------------------
(* The record keys a method writes, and what it leaves there. *)
Touches(m) ==
    CASE m.kind \in {"create", "update", "upsert"} -> {m.key}
      [] m.kind \in {"delete", "remove"} -> {m.key} \cup Dependents(m.key)
      [] OTHER -> {}
Leaves(m) == IF m.kind \in {"delete", "remove"} THEN Gone ELSE m.val

(* The keys a call may vouch for when it returns nil: those no other call  *)
(* is writing.  An update, and a delete of what others depend on, say      *)
(* nothing new of a key that was in doubt before.  A list claims to tell   *)
(* what is known of the keys it covers; an append claims its list, and     *)
(* loses it to a call that deletes the list.                               *)
Others(c) == {d \in Callers \ {c} : pend[d] # Idle}
Claim(c, m) ==
    IF m.kind = "list"
    THEN {k \in DOMAIN known : Matches(k, m.key)}
    ELSE ((IF m.kind = "append" THEN {m.key} ELSE Touches(m)) \ UNION {Touches(pend[d].m) : d \in Others(c)})
           \cap (DOMAIN known \cup IF m.kind = "update" THEN {} ELSE {m.key})
Yielded(c, K) ==
    [d \in Callers |-> IF d \in Others(c) THEN [pend[d] EXCEPT !.claim = @ \ K] ELSE pend[d]]
Vouch(base, claim, m) ==
    IF m.kind = "list" THEN base
    ELSE [k \in DOMAIN base \cup {x \in claim : ~IsList(x)} |->
             IF k \in claim THEN Leaves(m) ELSE base[k]]

(* The reader's next query, and its record when a call returns: a page is  *)
(* progress, a message archived before the reader starts is due to it      *)
(* (unless a deletion overlapped), and a deletion, or a write that failed, *)
(* makes nothing due any more.                                             *)
NextPage == [with |-> NoVal, start |-> 0, end |-> 0, after |-> walk.after, before |-> 0, max |-> 1]
Walked(m, err, val, claim) ==
    IF topic # "walk" THEN walk
    ELSE CASE m.kind = "query" /\ err = "nil" ->
                [walk EXCEPT !.seen = @ \o val.msgs, !.done = val.complete,
                             !.after = IF val.msgs = <<>> THEN @ ELSE val.msgs[Len(val.msgs)].id]
           [] m.kind = "append" /\ err = "nil" ->
                IF walk.on \/ claim = {} THEN walk ELSE [walk EXCEPT !.due = @ \cup {m.val.at}]
           [] m.kind \in {"remove", "init"} \/ (m.kind = "append" /\ err # "nil") ->
                [walk EXCEPT !.due = {}]
           [] OTHER -> walk

(* A call that is one step: it returns err and val and leaves newdb.  A    *)
(* refused call writes nothing; of a failed one nothing is known, nor of   *)
(* the keys in lost.                                                       *)
ReturnLosing(c, m, err, val, newdb, lost) ==
    LET K == IF err \in {"nil", "error", "crash"} THEN Touches(m) \cup lost ELSE {}
        claim == IF err = "nil" THEN Claim(c, m) ELSE {}
    IN  /\ pend[c] = Idle
        /\ db' = newdb
        /\ ret' = <<m, err, val>>
        /\ known' = IF m = InitStorage THEN [k \in DOMAIN known |-> Gone]
                    ELSE Vouch(Drop(known, K), claim, m)
        /\ pend' = Yielded(c, K)
        /\ walk' = Walked(m, err, val, claim)
        /\ UNCHANGED <<backend, topic>>
Return(c, m, err, val, newdb) ==
    ReturnLosing(c, m, err, val, newdb, {}) /\ UNCHANGED <<faults, clock>>

(* A call in several steps.  todo is what it still has to do, acc what it  *)
(* has gathered so far.                                                    *)
Begin(c, m, newdb, todo, acc) ==
    /\ pend[c] = Idle
    /\ db' = newdb
    /\ known' = Drop(known, Touches(m))
    /\ pend' = [Yielded(c, Touches(m)) EXCEPT
                  ![c] = [m |-> m, claim |-> Claim(c, m), todo |-> todo, acc |-> acc]]
    /\ walk' = IF m.kind = "remove" THEN Walked(m, "nil", NoVal, {}) ELSE walk
    /\ UNCHANGED <<backend, topic, ret>>
Step(c, newdb, todo, acc) ==
    /\ db' = newdb
    /\ pend' = [pend EXCEPT ![c].todo = todo, ![c].acc = acc]
    /\ UNCHANGED <<backend, topic, ret, known, walk, clock>>
End(c, err, val, newdb) ==
    /\ db' = newdb
    /\ ret' = <<pend[c].m, err, val>>
    /\ known' = Vouch(known, IF err = "nil" THEN pend[c].claim ELSE {}, pend[c].m)
    /\ pend' = [pend EXCEPT ![c] = Idle]
    /\ walk' = Walked(pend[c].m, err, val, pend[c].claim)
    /\ UNCHANGED <<backend, topic, clock>>

(* A statement or command that fails: the caller is told, the server may   *)
(* have executed it all the same.                                          *)
Fault == faults < MaxFaults /\ faults' = faults + 1
Fail(c, m, newdb) ==
    Fault /\ \E d \in {db, newdb} : ReturnLosing(c, m, "error", NoVal, d, {}) /\ UNCHANGED clock

(* A failure inside a call that goes on regardless: it vouches for nothing. *)
FailOn(c, newdb, todo) ==
    /\ Fault
    /\ db' \in {db, newdb}
    /\ pend' = [pend EXCEPT ![c].todo = todo, ![c].claim = {}]
    /\ UNCHANGED <<backend, topic, ret, known, walk, clock>>

(* The process that makes the calls stops; another one takes its place. *)
Restart ==
    /\ Fault
    /\ \E c \in Callers : pend[c] # Idle
    /\ pend' = [c \in Callers |-> Idle]
    /\ UNCHANGED <<backend, topic, db, ret, known, walk, clock>>

(* The reader starts; it has one query under way at a time, and gives up   *)
(* (bound) when it has been given more messages than were ever archived.   *)
StartWalk ==
    /\ topic = "walk" /\ ~walk.on
    /\ walk' = [walk EXCEPT !.on = TRUE]
    /\ UNCHANGED <<backend, topic, db, ret, pend, faults, known, clock>>
Asking(ids) ==
    IF topic = "archive" THEN Queries(ids)
    ELSE {q \in {NextPage} : /\ walk.on /\ ~walk.done /\ Len(walk.seen) <= MaxMsgs
                             /\ \A d \in Callers : pend[d] # Idle => pend[d].m.kind # "query"}

(* The message a caller archives: now, with the ID callers give at this    *)
(* time or with none.                                                      *)
Incoming(anonymous) ==
    [id : {IDAt[clock + 1]} \cup anonymous, with : Peers, at : {clock + 1}]

(* A method that answers err and changes nothing, and one that does so     *)
(* unless ok.                                                              *)
Refuse(c, m, err) == Return(c, m, err, NoVal, db)
Checked(c, m, ok, err, val, newdb) ==
    IF ok THEN Return(c, m, "nil", val, newdb) ELSE Refuse(c, m, err)
=============================================================================
