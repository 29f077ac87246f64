------------------------------ MODULE Storage ------------------------------
(***************************************************************************)
(* What storage.Storage promises its callers, whatever the backend: one    *)
(* function from keys to values, changed and read by one method at a time. *)
(* The promise is weakened exactly where the backends need it:             *)
(*   - a call may fail, with or without its effect (Falter);               *)
(*   - a write that is cut short may cost the other records of the same    *)
(*     owner and table, and nothing else (Damage);                         *)
(*   - deleting a room or a node removes it first and what depends on it   *)
(*     later, deleting an archive removes its messages one by one, in      *)
(*     steps other calls may see (BeginDelete, Sweep).                     *)
(***************************************************************************)
EXTENDS StorageInterface

CONSTANTS Callers, Idle

VARIABLES
    store,      \* key -> value
    ret,        \* <<method, error, value>> of the last call that returned
    sweeping    \* caller -> the DeleteRoom or DeleteNode it is inside of, or Idle

vars == <<store, ret, sweeping>>

Init == store = Empty /\ ret = <<InitStorage, "nil", NoVal>> /\ sweeping = [c \in Callers |-> Idle]

(* The sentinel error a method answers with, or nil. *)
Refusal(m) ==
    CASE m.kind = "create" /\ m.key \in DOMAIN store -> "ErrUserExists"
      [] m.kind \in {"get", "update", "delete"} /\ m.key \notin DOMAIN store -> "ErrNotFound"
      [] m.kind = "check" /\ At(store, m.key, NoVal) # m.val -> "ErrAuthFailed"
      [] OTHER -> "nil"

(* The store after a method that is not refused. *)
After(m) ==
    CASE m.kind \in {"create", "update", "upsert"} -> Put(store, m.key, m.val)
      [] m.kind \in {"delete", "remove"} -> Drop(store, {m.key} \cup Dependents(m.key))
      [] m.kind = "append" -> Put(store, m.key, Append(At(store, m.key, <<>>), m.val))
      [] OTHER -> store

(* The messages a query asks for: those after AfterID and before BeforeID, *)
(* in the order they were archived, that pass the filters.  An ID that is  *)
(* not in the archive, or a BeforeID that is not after AfterID, leaves     *)
(* open where the range starts or ends.                                    *)
Asked(msgs, q) ==
    LET Where(id, lo) == {i \in (lo + 1)..Len(msgs) : msgs[i].id = id}
        First(S, open) == IF S = {} THEN open ELSE {CHOOSE i \in S : \A j \in S : i <= j}
        Starts == IF q.after = 0 THEN {0} ELSE First(Where(q.after, 0), 0..Len(msgs))
        Ends(lo) == IF q.before = 0 THEN {Len(msgs) + 1}
                    ELSE First(Where(q.before, lo), 1..(Len(msgs) + 1))
    IN  UNION {{SelectSeq(SubSeq(msgs, lo + 1, hi - 1), LAMBDA msg : Passes(msg, q)) :
                hi \in Ends(lo)} : lo \in Starts}

(* What a method that is not refused returns besides nil.  Lists leave out *)
(* the records that cannot be read.                                        *)
Answer(m) ==
    CASE m.kind = "get" -> store[m.key]
      [] m.kind = "find" -> At(store, m.key, NoVal)
      [] m.kind = "check" -> TRUE
      [] m.kind = "has" -> m.key \in DOMAIN store
      [] m.kind = "list" -> {<<k, store[k]>> : k \in {x \in DOMAIN store :
                                          Matches(x, m.key) /\ store[x] # Torn}}
      [] m.kind = "all" -> At(store, m.key, <<>>)
      [] m.kind = "count" -> Len(At(store, m.key, <<>>))
      [] OTHER -> NoVal
Answers(m) ==
    IF m.kind = "query" THEN {PageOf(found, m.val) : found \in Asked(At(store, m.key, <<>>), m.val)}
    ELSE {Answer(m)}
-----------------------------------------------------------------------------
Returns(m, err, val) == ret' = <<m, err, val>>

(* A method done in one step. *)
Serve(m) ==
    /\ ~(m.name = "ArchiveMessage" /\ m.val.id = 0)
    /\ \/ Refusal(m) # "nil" /\ Returns(m, Refusal(m), NoVal) /\ UNCHANGED store
       \/ /\ Refusal(m) = "nil"
          /\ \E val \in Answers(m) : Returns(m, "nil", val)
          /\ store' = After(m)
    /\ UNCHANGED sweeping

(* Storage.Init: the memory backend starts over. *)
ServeInit ==
    /\ Returns(InitStorage, "nil", NoVal)
    /\ store' \in {store, Empty}
    /\ UNCHANGED sweeping

(* A failed call, or one the process did not survive. *)
Falter(m) ==
    /\ \E err \in {"error", "crash"} : Returns(m, err, NoVal)
    /\ store' \in {store} \cup IF Refusal(m) = "nil" THEN {After(m)} ELSE {}
    /\ UNCHANGED sweeping

Damage(m) ==
    /\ \E err \in {"error", "crash"} : Returns(m, err, NoVal)
    /\ \/ store' = Put(store, m.key, Torn)
       \/ \E K \in SUBSET (Dependents(m.key) \cup
                           {k \in DOMAIN store : k[1] = m.key[1] /\ k[2] = m.key[2]}) :
            store' = Drop(store, K)
    /\ UNCHANGED sweeping

(* An archived message that comes without an ID (0) is given one. *)
ServeAnonymous(m) ==
    /\ m.name = "ArchiveMessage" /\ m.val.id = 0
    /\ \E err \in {"nil", "error", "crash"} : Returns(m, err, NoVal)
    /\ \E id \in 1..(2 * MaxMsgs) : store' = After([m EXCEPT !.val.id = id])
    /\ UNCHANGED sweeping

(* DeleteRoom, DeleteNode and DeleteMessageArchive in several steps:       *)
(* callers of GetRoom see the room gone before its affiliations are, and   *)
(* the oldest messages go first.  Only one that fails leaves some of them. *)
BeginDelete(c, m) ==
    /\ sweeping[c] = Idle
    /\ \/ m.kind = "remove" /\ UNCHANGED store
       \/ /\ m.kind = "delete" /\ m.key \in DOMAIN store
          /\ \E D \in SUBSET Dependents(m.key) : store' = Drop(store, {m.key} \cup D)
    /\ sweeping' = [sweeping EXCEPT ![c] = m]
    /\ UNCHANGED ret

Swept(m) ==
    IF m.kind = "delete" THEN {Drop(store, D) : D \in SUBSET Dependents(m.key)}
    ELSE LET msgs == At(store, m.key, <<>>)
         IN  {store, Drop(store, {m.key})} \cup
             {Put(store, m.key, SubSeq(msgs, i, Len(msgs))) : i \in 2..Len(msgs)}
Sweep(c) ==
    /\ sweeping[c] # Idle
    /\ store' \in Swept(sweeping[c])
    /\ \/ UNCHANGED <<sweeping, ret>>
       \/ /\ \/ Returns(sweeping[c], "error", NoVal)
             \/ /\ Returns(sweeping[c], "nil", NoVal)
                /\ sweeping[c].kind = "remove" => sweeping[c].key \notin DOMAIN store'
          /\ sweeping' = [sweeping EXCEPT ![c] = Idle]

(* The caller's process stops. *)
Stop == sweeping' = [c \in Callers |-> Idle] /\ UNCHANGED <<store, ret>>

(* In a step in which a call returns, the call is the one ret' names. *)
Next ==
    \/ \E m \in {ret'[1]} : \/ Serve(m) \/ ServeAnonymous(m) \/ Falter(m) \/ Damage(m)
    \/ ServeInit \/ Stop
    \/ \E c \in Callers : Sweep(c) \/ \E m \in {sweeping'[c]} : m # Idle /\ BeginDelete(c, m)

Spec == Init /\ [][Next]_vars
=============================================================================
