------------------------------ MODULE SQLStore ------------------------------
(***************************************************************************)
(* storage/sql, with the dialects of storage/sqlite, storage/postgres and  *)
(* storage/mysql.  A method is one statement, which the database executes  *)
(* atomically; only DeleteRoom and DeleteNode send several, outside a      *)
(* transaction, and Migrate runs its transactions one after the other.     *)
(* db.rows maps the primary key of a row to the row, db.tables and         *)
(* db.versions are the schema and the table xmpp_migrations.               *)
(***************************************************************************)
EXTENDS StorageCalls

(* The migrations of each dialect: the tables each of them creates. *)
sqliteMigrations ==
    <<{"users"}, {"roster_items", "roster_versions"}, {"blocked_jids"}, {"vcards"},
      {"offline_messages"}, {"mam_messages"}, {"muc_rooms", "muc_affiliations"},
      {"pubsub_nodes", "pubsub_items", "pubsub_subscriptions"}, {"bookmarks"}>>

postgresMigrations ==
    <<{"users"}, {"roster_items", "roster_versions"}, {"blocked_jids"}, {"vcards"},
      {"offline_messages"}, {"mam_messages"}, {"muc_rooms", "muc_affiliations"},
      {"pubsub_nodes", "pubsub_items", "pubsub_subscriptions"}, {"bookmarks"}>>

mysqlMigrations ==
    <<{"users"}, {"roster_items"}, {"roster_versions"}, {"blocked_jids"}, {"vcards"},
      {"offline_messages"}, {"mam_messages"}, {"muc_rooms"}, {"muc_affiliations"},
      {"pubsub_nodes"}, {"pubsub_items"}, {"pubsub_subscriptions"}, {"bookmarks"}>>

Migrations ==
    CASE backend = "sqlite" -> sqliteMigrations
      [] backend = "postgres" -> postgresMigrations
      [] backend = "mysql" -> mysqlMigrations
Tables == UNION {Migrations[v] : v \in DOMAIN Migrations}

New == [rows |-> Empty, tables |-> IF topic = "init" THEN {} ELSE Tables, versions |-> {}]
-----------------------------------------------------------------------------
(* Statements (external: the database).  RowsAffected of a MySQL UPDATE    *)
(* counts the rows it changes, not those it matches: the DSN New builds    *)
(* does not ask for clientFoundRows.                                       *)
Row(k) == k \in DOMAIN db.rows
WithRows(rows) == [db EXCEPT !.rows = rows]
Exec(c, m, rows) == Return(c, m, "nil", NoVal, WithRows(rows)) \/ Fail(c, m, WithRows(rows))
Select(c, m, val) == Return(c, m, "nil", val, db) \/ Fail(c, m, db)
NoRows(c, m, err) == Refuse(c, m, err) \/ Fail(c, m, db)

Insert(c, m) == IF Row(m.key) THEN NoRows(c, m, "ErrUserExists") ELSE Exec(c, m, Put(db.rows, m.key, m.val))
Upsert(c, m) == Exec(c, m, Put(db.rows, m.key, m.val))
Update(c, m, changes) ==
    IF Row(m.key) /\ (changes \/ backend # "mysql") THEN Exec(c, m, Put(db.rows, m.key, m.val))
    ELSE NoRows(c, m, "ErrNotFound")
DeleteRow(c, m) == IF Row(m.key) THEN Exec(c, m, Drop(db.rows, {m.key})) ELSE NoRows(c, m, "ErrNotFound")
DeleteAny(c, m) == Exec(c, m, Drop(db.rows, {m.key}))
SelectRow(c, m) == IF Row(m.key) THEN Select(c, m, db.rows[m.key]) ELSE NoRows(c, m, "ErrNotFound")
SelectRows(c, m) ==
    Select(c, m, {<<k, db.rows[k]>> : k \in {x \in DOMAIN db.rows : Matches(x, m.key)}})
-----------------------------------------------------------------------------
(* UpdateUser sets updated_at to the time of the call: it always changes the row. *)
UserStore(c) == \E u \in Accounts, v \in Vals :
    \/ Insert(c, CreateUser(u, v))
    \/ SelectRow(c, GetUser(u))
    \/ Update(c, UpdateUser(u, v), TRUE)
    \/ DeleteRow(c, DeleteUser(u))
    \/ Select(c, UserExists(u), Row(<<"user", u>>))
    \/ IF At(db.rows, <<"user", u>>, NoVal) = v THEN Select(c, Authenticate(u, v), TRUE)
       ELSE NoRows(c, Authenticate(u, v), "ErrAuthFailed")

RosterStore(c) == \E u \in Accounts, p \in Peers, v \in Vals :
    \/ Upsert(c, UpsertRosterItem(u, p, v))
    \/ SelectRow(c, GetRosterItem(u, p))
    \/ SelectRows(c, GetRosterItems(u))
    \/ DeleteRow(c, DeleteRosterItem(u, p))

RosterVersions(c) == \E u \in Accounts, v \in Vals :
    \/ Select(c, GetRosterVersion(u), At(db.rows, <<"version", u>>, NoVal))
    \/ Upsert(c, SetRosterVersion(u, v))

BlockingStore(c) == \E u \in Accounts, p \in Peers :
    \/ Upsert(c, BlockJID(u, p))
    \/ DeleteAny(c, UnblockJID(u, p))
    \/ Select(c, IsBlocked(u, p), Row(<<"block", u, p>>))
    \/ SelectRows(c, GetBlockedJIDs(u))

VCardStore(c) == \E u \in Accounts, v \in Vals :
    Upsert(c, SetVCard(u, v)) \/ SelectRow(c, GetVCard(u)) \/ DeleteRow(c, DeleteVCard(u))

(* The table has no key; its rows are read in the order of created_at. *)
OfflineStore(c) == \E u \in Accounts, v \in Vals :
    LET msgs == At(db.rows, <<"offline", u>>, <<>>) IN
    \/ /\ Len(msgs) < MaxMsgs
       /\ Exec(c, StoreOfflineMessage(u, v), Put(db.rows, <<"offline", u>>, Append(msgs, v)))
    \/ Select(c, GetOfflineMessages(u), msgs)
    \/ DeleteAny(c, DeleteOfflineMessages(u))
    \/ Select(c, CountOfflineMessages(u), Len(msgs))

(* The archive is a set of rows; ORDER BY created_at makes a list of them. *)
ByCreatedAt(rows) ==
    [i \in 1..Cardinality(rows) |->
        CHOOSE msg \in rows : Cardinality({x \in rows : x.at < msg.at}) = i - 1]
LimitShort(msgs, n) == SubSeq(msgs, 1, IF Len(msgs) > n - 1 THEN n - 1 ELSE Len(msgs))  \* mutant
Limit(msgs, n) == SubSeq(msgs, 1, IF Len(msgs) > n THEN n ELSE Len(msgs))

Archive(c, u) ==
    /\ clock < MaxMsgs
    /\ clock' = clock + 1
    /\ \E msg \in Incoming({}) :
         LET m == ArchiveMessage(u, msg)
             rows == Put(db.rows, m.key, At(db.rows, m.key, {}) \cup {msg})
         IN  \/ ReturnLosing(c, m, "nil", NoVal, WithRows(rows), {}) /\ UNCHANGED faults
             \/ Fault /\ \E r \in {rows, db.rows} : ReturnLosing(c, m, "error", NoVal, WithRows(r), {})

(* The IDs are compared as strings, not by their place in the archive. *)
Query(c, u) ==
    LET rows == At(db.rows, <<"mam", u>>, {}) IN
    \E q \in Asking({msg.id : msg \in rows}) :
        LET where == {msg \in rows : /\ Passes(msg, q)
                                     /\ q.after = 0 \/ msg.id > q.after
                                     /\ q.before = 0 \/ msg.id < q.before}
        IN  Select(c, QueryMessages(u, q), PageOf(Limit(ByCreatedAt(where), PageSize(q) + 1), q))

MAMStore(c) == \E u \in Accounts : Archive(c, u) \/ Query(c, u) \/ DeleteAny(c, DeleteMessageArchive(u))
-----------------------------------------------------------------------------
(* The row of the room or node is deleted first; the statements that       *)
(* delete what depends on it follow, and their errors are dropped.         *)
DeleteWith(c, m, dependents) ==
    IF Row(m.key)
    THEN \/ Begin(c, m, WithRows(Drop(db.rows, {m.key})), dependents, <<>>) /\ UNCHANGED <<faults, clock>>
         \/ Fail(c, m, WithRows(Drop(db.rows, {m.key})))
    ELSE NoRows(c, m, "ErrNotFound")

MUCRoomStore(c) == \E r \in Rooms, v \in Vals :
    \/ Insert(c, CreateRoom(r, v))
    \/ SelectRow(c, GetRoom(r))
    \/ Update(c, UpdateRoom(r, v), At(db.rows, <<"room", r>>, NoVal) # v)
    \/ DeleteWith(c, DeleteRoom(r), <<<<"aff", r, Wild>>>>)
    \/ SelectRows(c, ListRooms)

Affiliations(c) == \E r \in Rooms, p \in Members, v \in Vals :
    \/ Upsert(c, SetAffiliation(r, p, v))
    \/ SelectRow(c, GetAffiliation(r, p))
    \/ SelectRows(c, GetAffiliations(r))
    \/ DeleteAny(c, RemoveAffiliation(r, p))

PubSubNodes(c) == \E h \in Hosts, n \in Nodes, v \in Payloads :
    \/ Insert(c, CreateNode(h, n, v))
    \/ SelectRow(c, GetNode(h, n))
    \/ DeleteWith(c, DeleteNode(h, n), <<<<"item", h, n, Wild>>, <<"sub", h, n, Wild>>>>)
    \/ SelectRows(c, ListNodes(h))

PubSubItems(c) == \E h \in Hosts, n \in ItemNodes, i \in Items, v \in Payloads :
    \/ Upsert(c, UpsertItem(h, n, i, v))
    \/ SelectRow(c, GetItem(h, n, i))
    \/ SelectRows(c, GetItems(h, n))
    \/ DeleteRow(c, DeleteItem(h, n, i))

PubSubSubscriptions(c) == \E h \in Hosts, n \in ItemNodes, p \in Members, v \in Payloads :
    \/ Upsert(c, Subscribe(h, n, p, v))
    \/ DeleteAny(c, Unsubscribe(h, n, p))
    \/ SelectRow(c, GetSubscription(h, n, p))
    \/ SelectRows(c, GetSubscriptions(h, n))
    \/ SelectRows(c, GetUserSubscriptions(h, p))

BookmarkStore(c) == \E u \in Accounts, r \in Rooms, v \in Vals :
    \/ Upsert(c, SetBookmark(u, r, v))
    \/ SelectRow(c, GetBookmark(u, r))
    \/ SelectRows(c, GetBookmarks(u))
    \/ DeleteRow(c, DeleteBookmark(u, r))

(* The next DELETE of a DeleteRoom or DeleteNode, and its return. *)
Statement(c) ==
    /\ pend[c] # Idle /\ topic # "init"
    /\ LET todo == pend[c].todo
           rows == WithRows(Drop(db.rows, {k \in DOMAIN db.rows : Matches(k, Head(todo))}))
       IN  \/ todo = <<>> /\ End(c, "nil", NoVal, db) /\ UNCHANGED faults
           \/ /\ todo # <<>>
              /\ \/ Step(c, rows, Tail(todo), <<>>) /\ UNCHANGED faults
                 \/ FailOn(c, rows, Tail(todo))
-----------------------------------------------------------------------------
(* Migrate.  todo is the version it is at, acc the step it is in.  A       *)
(* migration and its row in xmpp_migrations commit together, except on     *)
(* MySQL, where CREATE TABLE commits by itself.                            *)
MigrateStart(c) ==
    Begin(c, InitStorage, db, 1, "check") /\ UNCHANGED <<faults, clock>>

MigrateError(c) == End(c, "error", NoVal, db) /\ UNCHANGED faults

MigrateCheckShort(c) ==                                  \* mutant
    /\ pend[c].acc = "check"
    /\ LET v == pend[c].todo
       IN  /\ \/ v >= Len(Migrations) /\ End(c, "nil", NoVal, db)
              \/ v \in db.versions /\ Step(c, db, v + 1, "check")
              \/ v \in DOMAIN Migrations \ db.versions /\ Step(c, db, v, "run")
           /\ UNCHANGED faults
MigrateCheck(c) ==
    /\ pend[c].acc = "check"
    /\ LET v == pend[c].todo
       IN  /\ \/ v > Len(Migrations) /\ End(c, "nil", NoVal, db)
              \/ v \in db.versions /\ Step(c, db, v + 1, "check")
              \/ v \in DOMAIN Migrations \ db.versions /\ Step(c, db, v, "run")
           /\ UNCHANGED faults

MigrateRun(c) ==
    /\ pend[c].acc = "run"
    /\ LET v == pend[c].todo
           created == [db EXCEPT !.tables = @ \cup Migrations[v]]
           recorded == [created EXCEPT !.versions = @ \cup {v}]
       IN  IF backend = "mysql" THEN Step(c, created, v, "record") /\ UNCHANGED faults
           ELSE \/ v \notin db.versions /\ Step(c, recorded, v + 1, "check") /\ UNCHANGED faults
                \/ v \in db.versions /\ MigrateError(c)

MigrateRecord(c) ==
    /\ pend[c].acc = "record"
    /\ LET v == pend[c].todo
       IN  \/ /\ v \notin db.versions
              /\ Step(c, [db EXCEPT !.versions = @ \cup {v}], v + 1, "check")
              /\ UNCHANGED faults
           \/ v \in db.versions /\ MigrateError(c)

MigrateFails(c) == Fault /\ End(c, "error", NoVal, db)

Migrate(c) ==
    \/ MigrateStart(c)
    \/ pend[c] # Idle /\ (MigrateCheck(c) \/ MigrateRun(c) \/ MigrateRecord(c) \/ MigrateFails(c))

Next ==
    \/ Restart
    \/ \E c \in Callers :
        \/ topic = "init" /\ Migrate(c)
        \/ topic = "users" /\ UserStore(c)
        \/ topic = "roster" /\ RosterStore(c)
        \/ topic = "version" /\ RosterVersions(c)
        \/ topic = "blocking" /\ BlockingStore(c)
        \/ topic = "vcard" /\ VCardStore(c)
        \/ topic = "offline" /\ OfflineStore(c)
        \/ topic \in {"archive", "walk"} /\ MAMStore(c)
        \/ topic = "muc" /\ (MUCRoomStore(c) \/ Affiliations(c))
        \/ topic = "items" /\ (PubSubNodes(c) \/ PubSubItems(c))
        \/ topic = "subs" /\ (PubSubNodes(c) \/ PubSubSubscriptions(c))
        \/ topic = "bookmarks" /\ BookmarkStore(c)
        \/ Statement(c)

(* The rows by key; the archive in the order it is read in. *)
Stored ==
    [k \in DOMAIN db.rows |-> IF k[1] = "mam" THEN ByCreatedAt(db.rows[k]) ELSE db.rows[k]]
=============================================================================
