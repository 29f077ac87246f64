----------------------------- MODULE RedisStore -----------------------------
(***************************************************************************)
(* storage/redis.  db maps a Redis key to its string, hash, set, sorted    *)
(* set or list.  Every command is atomic, no group of commands is: not a   *)
(* pipeline, nor a command that follows the reply to another.  Rooms,      *)
(* nodes, items, subscriptions and archived messages have an index (a set  *)
(* of names) beside the strings it names.                                  *)
(***************************************************************************)
EXTENDS StorageCalls
LOCAL INSTANCE Functions

New == Empty

(* The keys: a string has the key of its record. *)
rosterKey(u) == <<"roster", u>>
blockedKey(u) == <<"blocked", u>>
offlineKey(u) == <<"offline", u>>
mamKey(u) == <<"mam", u>>
mamMsgKey(u, id) == <<"mam_msg", u, id>>
mucRoomsSetKey == <<"muc_rooms">>
mucAffKey(r) == <<"muc_aff", r>>
pubsubNodesKey(h) == <<"ps_nodes", h>>
pubsubItemsKey(h, n) == <<"ps_items", h, n>>
pubsubSubsKey(h, n) == <<"ps_subs", h, n>>
pubsubUserSubsKey(h, p) == <<"ps_usubs", h, p>>
bookmarkKey(u) == <<"bookmarks", u>>
-----------------------------------------------------------------------------
(* Commands that write, <<name, key, arguments>>, and the server executing *)
(* one (external).  A collection that becomes empty is deleted.            *)
Set(k, v) == <<"SET", k, v>>
Del(k) == <<"DEL", k>>
SAdd(k, x) == <<"SADD", k, x>>
SRem(k, x) == <<"SREM", k, x>>
HSet(k, f, v) == <<"HSET", k, f, v>>
HDel(k, f) == <<"HDEL", k, f>>
ZAdd(k, score, x) == <<"ZADD", k, score, x>>
RPush(k, v) == <<"RPUSH", k, v>>

SetAt(k) == At(db, k, {})
Hash(k) == At(db, k, Empty)
PutOrDelete(k, coll, nothing) == IF coll = nothing THEN Drop(db, {k}) ELSE Put(db, k, coll)
Exec(cmd) ==
    LET k == cmd[2] IN
    CASE cmd[1] = "SET" -> Put(db, k, cmd[3])
      [] cmd[1] = "DEL" -> Drop(db, {k})
      [] cmd[1] = "SADD" -> Put(db, k, SetAt(k) \cup {cmd[3]})
      [] cmd[1] = "SREM" -> PutOrDelete(k, SetAt(k) \ {cmd[3]}, {})
      [] cmd[1] = "HSET" -> Put(db, k, Put(Hash(k), cmd[3], cmd[4]))
      [] cmd[1] = "HDEL" -> PutOrDelete(k, Drop(Hash(k), {cmd[3]}), Empty)
      [] cmd[1] = "ZADD" -> Put(db, k, {z \in SetAt(k) : z.id # cmd[4]} \cup {[at |-> cmd[3], id |-> cmd[4]]})
      [] cmd[1] = "RPUSH" -> Put(db, k, Append(At(db, k, <<>>), cmd[3]))

(* A method of one command. *)
Command(c, m, cmd) == Return(c, m, "nil", NoVal, Exec(cmd)) \/ Fail(c, m, Exec(cmd))
Reply(c, m, val) == Return(c, m, "nil", val, db) \/ Fail(c, m, db)
Nil(c, m, err) == Refuse(c, m, err) \/ Fail(c, m, db)
GetString(c, m) == IF m.key \in DOMAIN db THEN Reply(c, m, db[m.key]) ELSE Nil(c, m, "ErrNotFound")
GetField(c, m, k, f) == IF f \in DOMAIN Hash(k) THEN Reply(c, m, Hash(k)[f]) ELSE Nil(c, m, "ErrNotFound")
GetFields(c, m, k, tag) == Reply(c, m, {<<tag \o <<f>>, Hash(k)[f]>> : f \in DOMAIN Hash(k)})
DelField(c, m, k, f) ==
    IF f \in DOMAIN Hash(k) THEN Command(c, m, HDel(k, f)) ELSE Nil(c, m, "ErrNotFound")

(* A method of several: cmd now, then the commands of todo.  Those of a    *)
(* pipeline, and the SET of an update, are checked; the others' errors are *)
(* dropped by the code.                                                    *)
Checks(cmds) == [i \in DOMAIN cmds |-> [cmd |-> cmds[i], checked |-> TRUE]]
Ignores(cmds) == [i \in DOMAIN cmds |-> [cmd |-> cmds[i], checked |-> FALSE]]
First(c, m, newdb, todo) ==
    \/ Begin(c, m, newdb, todo, <<>>) /\ UNCHANGED <<faults, clock>>
    \/ Fail(c, m, newdb)
Proceed(c, newdb, todo) ==
    /\ IF todo = <<>> THEN End(c, "nil", NoVal, newdb) ELSE Step(c, newdb, todo, <<>>)
    /\ UNCHANGED faults
Pipeline(c, m, cmds) == First(c, m, Exec(Head(cmds)), Checks(Tail(cmds)))

(* An element of todo that is a read names the index DeleteNode reads next; *)
(* the names it finds become commands of the pipeline that follows.         *)
Orders(S) == Bijection(1..Cardinality(S), S)
ReadItems(h, n) == [read |-> "items", host |-> h, node |-> n, checked |-> FALSE]
ReadSubs(h, n) == [read |-> "subs", host |-> h, node |-> n, checked |-> FALSE]
CleanupKeepingUserSubs(r, names) ==                       \* mutant
    Checks(IF r.read = "items"
           THEN [i \in DOMAIN names |-> Del(<<"item", r.host, r.node, names[i]>>)]
                    \o <<Del(pubsubItemsKey(r.host, r.node))>>
           ELSE <<Del(pubsubSubsKey(r.host, r.node))>>)
Cleanup(r, names) ==
    Checks(IF r.read = "items"
           THEN [i \in DOMAIN names |-> Del(<<"item", r.host, r.node, names[i]>>)]
                    \o <<Del(pubsubItemsKey(r.host, r.node))>>
           ELSE [i \in DOMAIN names |-> SRem(pubsubUserSubsKey(r.host, names[i]), r.node)]
                    \o <<Del(pubsubSubsKey(r.host, r.node))>>)
Found(r) == IF r.read = "items" THEN SetAt(pubsubItemsKey(r.host, r.node))
            ELSE DOMAIN Hash(pubsubSubsKey(r.host, r.node))

Continue(c) ==
    /\ pend[c] # Idle /\ pend[c].m.kind \notin {"list", "query"}
    /\ LET next == Head(pend[c].todo)
           rest == Tail(pend[c].todo)
       IN  IF pend[c].todo = <<>> THEN End(c, "nil", NoVal, db) /\ UNCHANGED faults
           ELSE IF "read" \in DOMAIN next
           THEN \/ \E names \in Orders(Found(next)) : Proceed(c, db, rest \o Cleanup(next, names))
                \/ FailOn(c, db, rest \o Cleanup(next, <<>>))
           ELSE \/ Proceed(c, Exec(next.cmd), rest)
                \/ /\ next.checked /\ Fault
                   /\ \E d \in {db, Exec(next.cmd)} : End(c, "error", NoVal, d)
                \/ ~next.checked /\ FailOn(c, Exec(next.cmd), rest)

(* The string or hash field a record is in. *)
Record(k) ==
    CASE k[1] \in {"user", "version", "vcard", "offline", "room", "node", "item"} -> At(db, k, Gone)
      [] k[1] = "roster" -> At(Hash(rosterKey(k[2])), k[3], Gone)
      [] k[1] = "block" -> IF k[3] \in SetAt(blockedKey(k[2])) THEN TRUE ELSE Gone
      [] k[1] = "aff" -> At(Hash(mucAffKey(k[2])), k[3], Gone)
      [] k[1] = "sub" -> At(Hash(pubsubSubsKey(k[2], k[3])), k[4], Gone)
      [] k[1] = "bookmark" -> At(Hash(bookmarkKey(k[2])), k[3], Gone)

(* A list method reads the index, then gets the records one by one; those  *)
(* that are gone, and those it fails to get, are left out.                 *)
ListBy(c, m, keys) ==
    IF keys = {} THEN Reply(c, m, {})
    ELSE \/ Begin(c, m, db, keys, {}) /\ UNCHANGED <<faults, clock>>
         \/ Fail(c, m, db)
FetchUpToGone(c) ==                                      \* mutant
    /\ pend[c] # Idle /\ pend[c].m.kind = "list"
    /\ \E k \in pend[c].todo :
        LET left == pend[c].todo \ {k}
            got == pend[c].acc \cup IF Record(k) = Gone THEN {} ELSE {<<k, Record(k)>>}
        IN  IF left = {} \/ Record(k) = Gone THEN End(c, "nil", got, db) ELSE Step(c, db, left, got)
    /\ UNCHANGED faults
Fetch(c) ==
    /\ pend[c] # Idle /\ pend[c].m.kind = "list"
    /\ \/ pend[c].todo = {} /\ End(c, "nil", pend[c].acc, db) /\ UNCHANGED faults
       \/ \E k \in pend[c].todo :
            LET left == pend[c].todo \ {k}
                got == pend[c].acc \cup IF Record(k) = Gone THEN {} ELSE {<<k, Record(k)>>}
            IN  \/ /\ IF left = {} THEN End(c, "nil", got, db) ELSE Step(c, db, left, got)
                   /\ UNCHANGED faults
                \/ FailOn(c, db, left)
-----------------------------------------------------------------------------
(* UpdateUser and UpdateRoom: EXISTS, then SET. *)
Update(c, m) ==
    IF m.key \in DOMAIN db THEN First(c, m, db, Checks(<<Set(m.key, m.val)>>))
    ELSE Nil(c, m, "ErrNotFound")
Delete(c, m) == IF m.key \in DOMAIN db THEN Command(c, m, Del(m.key)) ELSE Nil(c, m, "ErrNotFound")

UserStore(c) == \E u \in Accounts, v \in Vals :
    LET k == <<"user", u>> IN
    \/ IF k \in DOMAIN db THEN Nil(c, CreateUser(u, v), "ErrUserExists")
       ELSE Command(c, CreateUser(u, v), Set(k, v))
    \/ GetString(c, GetUser(u))
    \/ Update(c, UpdateUser(u, v))
    \/ Delete(c, DeleteUser(u))
    \/ Reply(c, UserExists(u), k \in DOMAIN db)
    \/ IF At(db, k, NoVal) = v THEN Reply(c, Authenticate(u, v), TRUE)
       ELSE Nil(c, Authenticate(u, v), "ErrAuthFailed")

RosterStore(c) == \E u \in Accounts, p \in Peers, v \in Vals :
    \/ Command(c, UpsertRosterItem(u, p, v), HSet(rosterKey(u), p, v))
    \/ GetField(c, GetRosterItem(u, p), rosterKey(u), p)
    \/ GetFields(c, GetRosterItems(u), rosterKey(u), <<"roster", u>>)
    \/ DelField(c, DeleteRosterItem(u, p), rosterKey(u), p)

RosterVersions(c) == \E u \in Accounts, v \in Vals :
    \/ Reply(c, GetRosterVersion(u), At(db, <<"version", u>>, NoVal))
    \/ Command(c, SetRosterVersion(u, v), Set(<<"version", u>>, v))

BlockingStore(c) == \E u \in Accounts, p \in Peers :
    \/ Command(c, BlockJID(u, p), SAdd(blockedKey(u), p))
    \/ Command(c, UnblockJID(u, p), SRem(blockedKey(u), p))
    \/ Reply(c, IsBlocked(u, p), p \in SetAt(blockedKey(u)))
    \/ Reply(c, GetBlockedJIDs(u), {<<<<"block", u, x>>, TRUE>> : x \in SetAt(blockedKey(u))})

VCardStore(c) == \E u \in Accounts, v \in Vals :
    \/ Command(c, SetVCard(u, v), Set(<<"vcard", u>>, v))
    \/ GetString(c, GetVCard(u))
    \/ Delete(c, DeleteVCard(u))

OfflineStore(c) == \E u \in Accounts, v \in Vals :
    LET msgs == At(db, offlineKey(u), <<>>) IN
    \/ Len(msgs) < MaxMsgs /\ Command(c, StoreOfflineMessage(u, v), RPush(offlineKey(u), v))
    \/ Reply(c, GetOfflineMessages(u), msgs)
    \/ Command(c, DeleteOfflineMessages(u), Del(offlineKey(u)))
    \/ Reply(c, CountOfflineMessages(u), Len(msgs))
-----------------------------------------------------------------------------
(* The IDs of an archive by score. *)
IDs(u) ==
    LET z == SetAt(mamKey(u)) IN
    [i \in 1..Cardinality(z) |-> (CHOOSE x \in z : Cardinality({y \in z : y.at < x.at}) = i - 1).id]

Archive(c, u) ==
    /\ clock < MaxMsgs
    /\ clock' = clock + 1
    /\ \E msg \in Incoming({}) :
         LET m == ArchiveMessage(u, msg)
             indexed == Exec(ZAdd(mamKey(u), msg.at, msg.id))
         IN  \/ /\ Begin(c, m, indexed, Checks(<<Set(mamMsgKey(u, msg.id), msg)>>), <<>>)
                /\ UNCHANGED faults
             \/ Fault /\ \E d \in {db, indexed} : ReturnLosing(c, m, "error", NoVal, d, {})

(* The IDs after AfterID up to BeforeID, then a GET for each until a page  *)
(* and one more are found.                                                 *)
Query(c, u) ==
    LET ids == IDs(u) IN
    \E q \in Asking({ids[i] : i \in DOMAIN ids}) :
        LET Place(id, lo) == {i \in (lo + 1)..Len(ids) : ids[i] = id}
            lo == IF q.after = 0 THEN 0 ELSE IF Place(q.after, 0) = {} THEN Len(ids)
                  ELSE CHOOSE i \in Place(q.after, 0) : TRUE
            hi == IF q.before = 0 \/ Place(q.before, lo) = {} THEN Len(ids)
                  ELSE (CHOOSE i \in Place(q.before, lo) : TRUE) - 1
            m == QueryMessages(u, q)
        IN  IF hi <= lo THEN Reply(c, m, PageOf(<<>>, q))
            ELSE \/ Begin(c, m, db, SubSeq(ids, lo + 1, hi), <<>>) /\ UNCHANGED <<faults, clock>>
                 \/ Fail(c, m, db)
QueryGet(c) ==
    /\ pend[c] # Idle /\ pend[c].m.kind = "query"
    /\ LET q == pend[c].m.val
           k == mamMsgKey(pend[c].m.key[2], Head(pend[c].todo))
           msgs == IF k \in DOMAIN db /\ Passes(db[k], q) THEN Append(pend[c].acc, db[k]) ELSE pend[c].acc
           rest == Tail(pend[c].todo)
       IN  \/ /\ IF rest = <<>> \/ Len(msgs) > PageSize(q)
                 THEN End(c, "nil", PageOf(msgs, q), db)
                 ELSE Step(c, db, rest, msgs)
              /\ UNCHANGED faults
           \/ Fault /\ End(c, "error", NoVal, db)

(* ZRANGE, then a pipeline that deletes the messages it named and the index. *)
DeleteArchive(c, u) ==
    LET dels == [i \in DOMAIN IDs(u) |-> Del(mamMsgKey(u, IDs(u)[i]))] \o <<Del(mamKey(u))>>
    IN  First(c, DeleteMessageArchive(u), db, Checks(dels))

MAMStore(c) == pend[c] = Idle /\ \E u \in Accounts : Archive(c, u) \/ Query(c, u) \/ DeleteArchive(c, u)
-----------------------------------------------------------------------------
MUCRoomStore(c) == \E r \in Rooms, v \in Vals :
    LET k == <<"room", r>> IN
    \/ IF k \in DOMAIN db THEN Nil(c, CreateRoom(r, v), "ErrUserExists")
       ELSE First(c, CreateRoom(r, v), Exec(Set(k, v)), Ignores(<<SAdd(mucRoomsSetKey, r)>>))
    \/ GetString(c, GetRoom(r))
    \/ Update(c, UpdateRoom(r, v))
    \/ IF k \in DOMAIN db
       THEN First(c, DeleteRoom(r), Exec(Del(k)), Ignores(<<SRem(mucRoomsSetKey, r), Del(mucAffKey(r))>>))
       ELSE Nil(c, DeleteRoom(r), "ErrNotFound")
    \/ ListBy(c, ListRooms, {<<"room", x>> : x \in SetAt(mucRoomsSetKey)})

Affiliations(c) == \E r \in Rooms, p \in Members, v \in Vals :
    \/ Command(c, SetAffiliation(r, p, v), HSet(mucAffKey(r), p, v))
    \/ GetField(c, GetAffiliation(r, p), mucAffKey(r), p)
    \/ GetFields(c, GetAffiliations(r), mucAffKey(r), <<"aff", r>>)
    \/ Command(c, RemoveAffiliation(r, p), HDel(mucAffKey(r), p))

PubSubNodes(c) == \E h \in Hosts, n \in Nodes, v \in Payloads :
    LET k == <<"node", h, n>> IN
    \/ IF k \in DOMAIN db THEN Nil(c, CreateNode(h, n, v), "ErrUserExists")
       ELSE First(c, CreateNode(h, n, v), Exec(Set(k, v)), Ignores(<<SAdd(pubsubNodesKey(h), n)>>))
    \/ GetString(c, GetNode(h, n))
    \/ IF k \in DOMAIN db
       THEN First(c, DeleteNode(h, n), Exec(Del(k)),
                  Ignores(<<SRem(pubsubNodesKey(h), n)>>) \o <<ReadItems(h, n), ReadSubs(h, n)>>)
       ELSE Nil(c, DeleteNode(h, n), "ErrNotFound")
    \/ ListBy(c, ListNodes(h), {<<"node", h, x>> : x \in SetAt(pubsubNodesKey(h))})

PubSubItems(c) == \E h \in Hosts, n \in ItemNodes, i \in Items, v \in Payloads :
    LET k == <<"item", h, n, i>>
        index == pubsubItemsKey(h, n) IN
    \/ Pipeline(c, UpsertItem(h, n, i, v), <<Set(k, v), SAdd(index, i)>>)
    \/ GetString(c, GetItem(h, n, i))
    \/ ListBy(c, GetItems(h, n), {<<"item", h, n, x>> : x \in SetAt(index)})
    \/ IF k \in DOMAIN db THEN First(c, DeleteItem(h, n, i), Exec(Del(k)), Ignores(<<SRem(index, i)>>))
       ELSE Nil(c, DeleteItem(h, n, i), "ErrNotFound")

PubSubSubscriptions(c) == \E h \in Hosts, n \in ItemNodes, p \in Members, v \in Payloads :
    LET subs == pubsubSubsKey(h, n)
        usubs == pubsubUserSubsKey(h, p) IN
    \/ Pipeline(c, Subscribe(h, n, p, v), <<HSet(subs, p, v), SAdd(usubs, n)>>)
    \/ Pipeline(c, Unsubscribe(h, n, p), <<HDel(subs, p), SRem(usubs, n)>>)
    \/ GetField(c, GetSubscription(h, n, p), subs, p)
    \/ GetFields(c, GetSubscriptions(h, n), subs, <<"sub", h, n>>)
    \/ ListBy(c, GetUserSubscriptions(h, p), {<<"sub", h, x, p>> : x \in SetAt(usubs)})

BookmarkStore(c) == \E u \in Accounts, r \in Rooms, v \in Vals :
    \/ Command(c, SetBookmark(u, r, v), HSet(bookmarkKey(u), r, v))
    \/ GetField(c, GetBookmark(u, r), bookmarkKey(u), r)
    \/ GetFields(c, GetBookmarks(u), bookmarkKey(u), <<"bookmark", u>>)
    \/ DelField(c, DeleteBookmark(u, r), bookmarkKey(u), r)

(* In the topic archive calls do not overlap; in all the others they do. *)
Next ==
    \/ Restart
    \/ \E c \in Callers :
        \/ topic = "users" /\ UserStore(c)
        \/ topic = "roster" /\ RosterStore(c)
        \/ topic = "version" /\ RosterVersions(c)
        \/ topic = "blocking" /\ BlockingStore(c)
        \/ topic = "vcard" /\ VCardStore(c)
        \/ topic = "offline" /\ OfflineStore(c)
        \/ topic = "archive" /\ Others(c) = {} /\ MAMStore(c)
        \/ topic = "walk" /\ MAMStore(c)
        \/ topic = "muc" /\ (MUCRoomStore(c) \/ Affiliations(c))
        \/ topic = "items" /\ (PubSubNodes(c) \/ PubSubItems(c))
        \/ topic = "subs" /\ (PubSubNodes(c) \/ PubSubSubscriptions(c))
        \/ topic = "bookmarks" /\ BookmarkStore(c)
        \/ Continue(c) \/ Fetch(c) \/ QueryGet(c)

(* A record is in a list when an index names it. *)
Listed(k) ==
    CASE k[1] = "room" -> k[2] \in SetAt(mucRoomsSetKey)
      [] k[1] = "node" -> k[3] \in SetAt(pubsubNodesKey(k[2]))
      [] k[1] = "item" -> k[4] \in SetAt(pubsubItemsKey(k[2], k[3]))
      [] k[1] = "sub" -> k[3] \in SetAt(pubsubUserSubsKey(k[2], k[4]))
      [] OTHER -> Record(k) # Gone

(* The messages that both the index and their own key hold. *)
Messages(u) ==
    LET held == {db[mamMsgKey(u, z.id)] : z \in {x \in SetAt(mamKey(u)) : mamMsgKey(u, x.id) \in DOMAIN db}}
    IN  [i \in 1..Cardinality(held) |->
            CHOOSE msg \in held : Cardinality({x \in held : x.at < msg.at}) = i - 1]

Stored ==
    LET Value(k) == IF k[1] # "mam" THEN Record(k)
                    ELSE IF Messages(k[2]) = <<>> THEN Gone ELSE Messages(k[2])
    IN  [k \in {x \in KeysOf(topic) : Value(x) # Gone} |-> Value(k)]
=============================================================================
