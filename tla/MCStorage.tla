----------------------------- MODULE MCStorage -----------------------------
(***************************************************************************)
(* The five backends of storage/ under the same calls, one backend and one *)
(* sub-store (topic) per behaviour, judged by what Storage promises and by *)
(* what the callers were told.                                             *)
(***************************************************************************)
EXTENDS StorageCalls, TLC

CONSTANTS
    Scenarios,      \* the backends with the topics they are used for
    safeFileName    \* FileStore's names of files

(* safeFileName maps several characters to one; the names in use are apart. *)
ASSUME NamesApart ==
    \A x, y \in Accounts \cup Rooms \cup Hosts \cup Nodes : safeFileName[x] = safeFileName[y] => x = y

Mem == INSTANCE MemoryStore
File == INSTANCE FileStore
SQL == INSTANCE SQLStore
Mongo == INSTANCE MongoStore
Redis == INSTANCE RedisStore

Dialects == {"sqlite", "postgres", "mysql"}

Init ==
    /\ \E s \in Scenarios : backend = s[1] /\ topic = s[2]
    /\ InitCalls
    /\ \/ backend = "memory" /\ db = Mem!New
       \/ backend = "file" /\ db = File!New
       \/ backend \in Dialects /\ db = SQL!New
       \/ backend = "mongodb" /\ db = Mongo!New
       \/ backend = "redis" /\ db = Redis!New

Next ==
    \/ backend = "memory" /\ Mem!Next
    \/ backend = "file" /\ File!Next
    \/ backend \in Dialects /\ SQL!Next
    \/ backend = "mongodb" /\ Mongo!Next
    \/ backend = "redis" /\ Redis!Next
    \/ StartWalk

Spec == Init /\ [][Next]_calls
-----------------------------------------------------------------------------
(* What each backend's data stands for: the value of every key. *)
Stored ==
    CASE backend = "memory" -> Mem!Stored
      [] backend = "file" -> File!Stored
      [] backend \in Dialects -> SQL!Stored
      [] backend = "mongodb" -> Mongo!Stored
      [] backend = "redis" -> Redis!Stored

(* The promise is not kept by SetRosterVersion on MongoDB (two overlapping *)
(* upserts), by UpdateRoom on MySQL (no row changed is taken for no row)   *)
(* nor, when calls overlap, by the methods of several commands on Redis.   *)
(* KnownIsStored, ListsTellKnown and WalkSeesAll say what holds there.     *)
Judged ==
    <<backend, topic>> \notin {<<"mongodb", "version">>, <<"mysql", "muc">>}
                               \cup ({"redis"} \X {"users", "walk", "muc", "items", "subs"})

Abs == INSTANCE Storage WITH
    store <- IF Judged THEN Stored ELSE Empty,
    ret <- IF Judged THEN ret ELSE <<InitStorage, "nil", NoVal>>,
    sweeping <- [c \in Callers |->
        IF Judged /\ pend[c] # Idle /\ pend[c].m.kind \in {"delete", "remove"} THEN pend[c].m ELSE Idle]

(* Every backend implements Storage: each method of memory.go, file.go,    *)
(* storage/sql, mongodb.go and (one command at a time) redis.go reads or   *)
(* changes the one key it names, or fails within the limits of the         *)
(* promise, through failed statements, torn files and restarts.            *)
Promise == Abs!Spec

(* A write that returned nil, and that no other write of the same record   *)
(* overlapped, is what the backend holds until the next write: whatever    *)
(* other calls, failures and crashes came in between.  On Redis the index  *)
(* that the list methods read names the record exactly when it exists.     *)
KnownIsStored ==
    \A k \in DOMAIN known :
        /\ At(Stored, k, Gone) = known[k]
        /\ backend = "redis" => (Redis!Listed(k) <=> known[k] # Gone)

(* A list method of redis.go that reads its index and then its records one *)
(* by one gives every record that was known and not written during the     *)
(* call, with its value, and none that was known to be deleted, although   *)
(* others come and go and the index may name some that are gone.           *)
ListsTellKnown ==
    [][\A c \in Callers :
        pend[c] # Idle /\ pend'[c] = Idle /\ pend[c].m.kind = "list" /\ ret'[2] = "nil" /\ faults' = faults
            => \A k \in pend[c].claim :
                  {x \in ret'[3] : x[1] = k} = IF known[k] = Gone THEN {} ELSE {<<k, known[k]>>}]_calls

(* A reader that passes the last ID of each page of QueryMessages as the   *)
(* next AfterID until a page is Complete has been given every message that *)
(* was archived before it started and not deleted since.                   *)
WalkSeesAll ==
    walk.done => walk.due \subseteq {walk.seen[i].at : i \in DOMAIN walk.seen}

(* Init returns nil only when every table (Migrate, migrate.go) or index   *)
(* (mongodb.go) exists, although another process may run Init at the same  *)
(* time, or an earlier one may have stopped in the middle.                 *)
SchemaComplete ==
    [][\A c \in Callers :
        topic = "init" /\ pend[c] # Idle /\ pend'[c] = Idle /\ faults' = faults /\ ret'[2] = "nil"
            => IF backend = "mongodb" THEN db'.indexes = Mongo!Indexes ELSE db'.tables = SQL!Tables]_calls
-----------------------------------------------------------------------------
(* ret is the label of a step: no action reads it, and the properties read *)
(* it only in the step that sets it.                                       *)
WithoutRet == <<backend, topic, db, pend, faults, known, walk, clock>>
Symmetric == Permutations(Callers) \cup Permutations(Peers) \cup Permutations(Vals)

MCScenarios ==
    ({"memory", "file", "redis"} \X (Topics \ {"init"})) \cup ({"sqlite", "mongodb"} \X Topics)
        \cup {<<"postgres", "init">>, <<"mysql", "init">>, <<"mysql", "muc">>}
MCFileName == [x \in Accounts \cup Rooms \cup Hosts \cup Nodes |-> <<"json", x>>]
MCIDAt == <<1, 2, 3>>

(* Two backends, and IDs that are not in the order of archiving. *)
MCWalk == {"sqlite", "mongodb"} \X {"walk"}
MCIDsOutOfOrder == <<2, 1, 3>>
=============================================================================
