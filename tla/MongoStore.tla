----------------------------- MODULE MongoStore -----------------------------
(***************************************************************************)
(* storage/mongodb.  A method is one operation on a collection, atomic on  *)
(* one document; DeleteRoom and DeleteNode send several.  db.docs maps the *)
(* fields a filter names to the documents that have them, in the order of  *)
(* insertion; db.indexes holds the indexes Init has created.  Where no     *)
(* unique index backs an upsert the server may insert twice.               *)
(***************************************************************************)
EXTENDS StorageCalls

(* The indexes of Init: the records they are on, and whether they are unique. *)
indexes ==
    <<<<"user", TRUE>>, <<"roster", TRUE>>, <<"block", TRUE>>, <<"vcard", TRUE>>,
      <<"offline", FALSE>>, <<"mam", FALSE>>, <<"mam with", FALSE>>, <<"room", TRUE>>,
      <<"aff", TRUE>>, <<"node", TRUE>>, <<"item", TRUE>>, <<"sub", TRUE>>, <<"bookmark", TRUE>>>>
Indexes == {indexes[i] : i \in DOMAIN indexes}

New == [docs |-> Empty, indexes |-> IF topic = "init" THEN {} ELSE Indexes]

(* todo is the index Init creates next. *)
Init(c) ==
    \/ Begin(c, InitStorage, db, 1, <<>>) /\ UNCHANGED <<faults, clock>>
    \/ /\ pend[c] # Idle
       /\ LET i == pend[c].todo
              created == [db EXCEPT !.indexes = @ \cup {indexes[i]}]
          IN  \/ i \in DOMAIN indexes /\ Step(c, created, i + 1, <<>>) /\ UNCHANGED faults
              \/ i > Len(indexes) /\ End(c, "nil", NoVal, db) /\ UNCHANGED faults
              \/ i \in DOMAIN indexes /\ Fault /\ \E d \in {db, created} : End(c, "error", NoVal, d)
-----------------------------------------------------------------------------
(* Operations on a collection (external: the database). *)
Docs(k) == At(db.docs, k, <<>>)
Unique(k) == <<k[1], TRUE>> \in db.indexes
WithDocs(docs) == [db EXCEPT !.docs = docs]
Write(c, m, docs) == Return(c, m, "nil", NoVal, WithDocs(docs)) \/ Fail(c, m, WithDocs(docs))
Read(c, m, val) == Return(c, m, "nil", val, db) \/ Fail(c, m, db)
Miss(c, m, err) == Refuse(c, m, err) \/ Fail(c, m, db)
SetFirst(k, v) == Put(db.docs, k, [Docs(k) EXCEPT ![1] = v])

InsertOne(c, m) ==
    IF Unique(m.key) /\ Docs(m.key) # <<>> THEN Miss(c, m, "ErrUserExists")
    ELSE Write(c, m, Put(db.docs, m.key, Append(Docs(m.key), m.val)))
FindOne(c, m) == IF Docs(m.key) = <<>> THEN Miss(c, m, "ErrNotFound") ELSE Read(c, m, Docs(m.key)[1])
Find(c, m) ==
    Read(c, m, {<<k, db.docs[k][1]>> : k \in {x \in DOMAIN db.docs : Matches(x, m.key)}})
UpdateOne(c, m) ==
    IF Docs(m.key) = <<>> THEN Miss(c, m, "ErrNotFound") ELSE Write(c, m, SetFirst(m.key, m.val))
DeleteOne(c, m) ==
    IF Docs(m.key) = <<>> THEN Miss(c, m, "ErrNotFound") ELSE Write(c, m, Drop(db.docs, {m.key}))
DeleteAny(c, m) == Write(c, m, Drop(db.docs, {m.key}))

(* An upsert looks for a document, then inserts one.  A unique index makes *)
(* the two one step: the loser of a race is retried.                       *)
Upsert(c, m) ==
    \/ Docs(m.key) # <<>> /\ Write(c, m, SetFirst(m.key, m.val))
    \/ Docs(m.key) = <<>> /\ Unique(m.key) /\ Write(c, m, Put(db.docs, m.key, <<m.val>>))
    \/ /\ Docs(m.key) = <<>> /\ ~Unique(m.key)
       /\ \/ Begin(c, m, db, "insert", <<>>) /\ UNCHANGED <<faults, clock>>
          \/ Fail(c, m, db)
UpsertInsert(c) ==
    /\ pend[c] # Idle /\ pend[c].todo = "insert"
    /\ LET k == pend[c].m.key
           inserted == WithDocs(Put(db.docs, k, Append(Docs(k), pend[c].m.val)))
       IN  \/ End(c, "nil", NoVal, inserted) /\ UNCHANGED faults
           \/ Fault /\ \E d \in {db, inserted} : End(c, "error", NoVal, d)
-----------------------------------------------------------------------------
UserStore(c) == \E u \in Accounts, v \in Vals :
    LET docs == Docs(<<"user", u>>) IN
    \/ InsertOne(c, CreateUser(u, v))
    \/ FindOne(c, GetUser(u))
    \/ UpdateOne(c, UpdateUser(u, v))
    \/ DeleteOne(c, DeleteUser(u))
    \/ Read(c, UserExists(u), docs # <<>>)
    \/ IF docs # <<>> /\ docs[1] = v THEN Read(c, Authenticate(u, v), TRUE)
       ELSE Miss(c, Authenticate(u, v), "ErrAuthFailed")

RosterStore(c) == \E u \in Accounts, p \in Peers, v \in Vals :
    \/ Upsert(c, UpsertRosterItem(u, p, v))
    \/ FindOne(c, GetRosterItem(u, p))
    \/ Find(c, GetRosterItems(u))
    \/ DeleteOne(c, DeleteRosterItem(u, p))

RosterVersions(c) == \E u \in Accounts, v \in Vals :
    LET docs == Docs(<<"version", u>>) IN
    \/ Read(c, GetRosterVersion(u), IF docs = <<>> THEN NoVal ELSE docs[1])
    \/ Upsert(c, SetRosterVersion(u, v))

BlockingStore(c) == \E u \in Accounts, p \in Peers :
    \/ Upsert(c, BlockJID(u, p))
    \/ DeleteAny(c, UnblockJID(u, p))
    \/ Read(c, IsBlocked(u, p), Docs(<<"block", u, p>>) # <<>>)
    \/ Find(c, GetBlockedJIDs(u))

VCardStore(c) == \E u \in Accounts, v \in Vals :
    Upsert(c, SetVCard(u, v)) \/ FindOne(c, GetVCard(u)) \/ DeleteOne(c, DeleteVCard(u))

(* Sorted by created_at: the order of insertion. *)
OfflineStore(c) == \E u \in Accounts, v \in Vals :
    LET msgs == Docs(<<"offline", u>>) IN
    \/ Len(msgs) < MaxMsgs /\ InsertOne(c, StoreOfflineMessage(u, v))
    \/ Read(c, GetOfflineMessages(u), msgs)
    \/ DeleteAny(c, DeleteOfflineMessages(u))
    \/ Read(c, CountOfflineMessages(u), Len(msgs))

Archive(c, u) ==
    /\ clock < MaxMsgs
    /\ clock' = clock + 1
    /\ \E msg \in Incoming({}) :
         LET m == ArchiveMessage(u, msg)
             inserted == WithDocs(Put(db.docs, m.key, Append(Docs(m.key), msg)))
         IN  \/ ReturnLosing(c, m, "nil", NoVal, inserted, {}) /\ UNCHANGED faults
             \/ Fault /\ \E d \in {db, inserted} : ReturnLosing(c, m, "error", NoVal, d, {})

(* $gt and $lt compare the IDs as strings; sort and limit come after. *)
Query(c, u) ==
    LET msgs == Docs(<<"mam", u>>) IN
    \E q \in Asking({msgs[i].id : i \in DOMAIN msgs}) :
        LET filter(msg) == /\ Passes(msg, q)
                           /\ q.after = 0 \/ msg.id > q.after
                           /\ q.before = 0 \/ msg.id < q.before
            found == SelectSeq(msgs, filter)
            limit == PageSize(q) + 1
        IN  Read(c, QueryMessages(u, q),
                 PageOf(SubSeq(found, 1, IF Len(found) > limit THEN limit ELSE Len(found)), q))

MAMStore(c) == \E u \in Accounts : Archive(c, u) \/ Query(c, u) \/ DeleteAny(c, DeleteMessageArchive(u))
-----------------------------------------------------------------------------
(* DeleteOne for the room or node, then DeleteMany for what depends on it: *)
(* the errors of the latter are dropped.                                   *)
DeleteWith(c, m, dependents) ==
    IF Docs(m.key) = <<>> THEN Miss(c, m, "ErrNotFound")
    ELSE LET deleted == WithDocs(Drop(db.docs, {m.key}))
         IN  \/ Begin(c, m, deleted, dependents, <<>>) /\ UNCHANGED <<faults, clock>>
             \/ Fail(c, m, deleted)

DeleteMany(c) ==
    /\ pend[c] # Idle /\ pend[c].m.kind = "delete"
    /\ LET todo == pend[c].todo
           deleted == WithDocs(Drop(db.docs, {k \in DOMAIN db.docs : Matches(k, Head(todo))}))
       IN  \/ todo = <<>> /\ End(c, "nil", NoVal, db) /\ UNCHANGED faults
           \/ /\ todo # <<>>
              /\ \/ Step(c, deleted, Tail(todo), <<>>) /\ UNCHANGED faults
                 \/ FailOn(c, deleted, Tail(todo))

MUCRoomStore(c) == \E r \in Rooms, v \in Vals :
    \/ InsertOne(c, CreateRoom(r, v))
    \/ FindOne(c, GetRoom(r))
    \/ UpdateOne(c, UpdateRoom(r, v))
    \/ DeleteWith(c, DeleteRoom(r), <<<<"aff", r, Wild>>>>)
    \/ Find(c, ListRooms)

Affiliations(c) == \E r \in Rooms, p \in Members, v \in Vals :
    \/ Upsert(c, SetAffiliation(r, p, v))
    \/ FindOne(c, GetAffiliation(r, p))
    \/ Find(c, GetAffiliations(r))
    \/ DeleteAny(c, RemoveAffiliation(r, p))

PubSubNodes(c) == \E h \in Hosts, n \in Nodes, v \in Payloads :
    \/ InsertOne(c, CreateNode(h, n, v))
    \/ FindOne(c, GetNode(h, n))
    \/ DeleteWith(c, DeleteNode(h, n), <<<<"item", h, n, Wild>>, <<"sub", h, n, Wild>>>>)
    \/ Find(c, ListNodes(h))

PubSubItems(c) == \E h \in Hosts, n \in ItemNodes, i \in Items, v \in Payloads :
    \/ Upsert(c, UpsertItem(h, n, i, v))
    \/ FindOne(c, GetItem(h, n, i))
    \/ Find(c, GetItems(h, n))
    \/ DeleteOne(c, DeleteItem(h, n, i))

PubSubSubscriptions(c) == \E h \in Hosts, n \in ItemNodes, p \in Members, v \in Payloads :
    \/ Upsert(c, Subscribe(h, n, p, v))
    \/ DeleteAny(c, Unsubscribe(h, n, p))
    \/ FindOne(c, GetSubscription(h, n, p))
    \/ Find(c, GetSubscriptions(h, n))
    \/ Find(c, GetUserSubscriptions(h, p))

BookmarkStore(c) == \E u \in Accounts, r \in Rooms, v \in Vals :
    \/ Upsert(c, SetBookmark(u, r, v))
    \/ FindOne(c, GetBookmark(u, r))
    \/ Find(c, GetBookmarks(u))
    \/ DeleteOne(c, DeleteBookmark(u, r))

Next ==
    \/ Restart
    \/ \E c \in Callers :
        \/ topic = "init" /\ Init(c)
        \/ topic = "users" /\ UserStore(c)
        \/ topic = "roster" /\ RosterStore(c)
        \/ topic = "version" /\ (RosterVersions(c) \/ UpsertInsert(c))
        \/ topic = "blocking" /\ BlockingStore(c)
        \/ topic = "vcard" /\ VCardStore(c)
        \/ topic = "offline" /\ OfflineStore(c)
        \/ topic \in {"archive", "walk"} /\ MAMStore(c)
        \/ topic = "muc" /\ (MUCRoomStore(c) \/ Affiliations(c))
        \/ topic = "items" /\ (PubSubNodes(c) \/ PubSubItems(c))
        \/ topic = "subs" /\ (PubSubNodes(c) \/ PubSubSubscriptions(c))
        \/ topic = "bookmarks" /\ BookmarkStore(c)
        \/ DeleteMany(c)

(* What FindOne finds for each key; the message lists are whole. *)
Stored == [k \in DOMAIN db.docs |-> IF IsList(k) THEN db.docs[k] ELSE db.docs[k][1]]
=============================================================================
