---------------------------- MODULE MemoryStore ----------------------------
(***************************************************************************)
(* storage/memory: maps of one Store value.  Every method holds s.mu for   *)
(* its whole body and copies what it takes and gives, so it is one step.   *)
(* db is the struct: a field per map, the inner maps made on first use.    *)
(***************************************************************************)
EXTENDS StorageCalls

Maps == {"users", "rosterItems", "rosterVersions", "blocked", "vcards", "offlineMsgs",
         "mamMessages", "mucRooms", "mucAffiliations", "pubsubNodes", "pubsubItems",
         "pubsubSubscriptions", "bookmarks"}

New == [maps |-> [m \in Maps |-> Empty], mamIDCounter |-> 0]

(* initLocked makes every map anew; the ID counter goes on. *)
Init(c) ==
    Return(c, InitStorage, "nil", NoVal, [db EXCEPT !.maps = New.maps])

(* s.m[o], s.m[o] = v, delete(s.m, o), and the same one map further down. *)
Map(m) == db.maps[m]
Inner(m, o) == At(Map(m), o, Empty)
Assign(m, o, v) == [db EXCEPT !.maps[m] = Put(@, o, v)]
Delete(m, o) == [db EXCEPT !.maps[m] = Drop(@, {o})]
AssignIn(m, o, k, v) == Assign(m, o, Put(Inner(m, o), k, v))
DeleteInWhole(m, o, k) == Delete(m, o)                  \* mutant
DeleteIn(m, o, k) == IF o \in DOMAIN Map(m) THEN Assign(m, o, Drop(Map(m)[o], {k})) ELSE db
-----------------------------------------------------------------------------
UserStore(c) == \E u \in Accounts, v \in Vals :
    LET has == u \in DOMAIN Map("users") IN
    \/ Checked(c, CreateUser(u, v), ~has, "ErrUserExists", NoVal, Assign("users", u, v))
    \/ Checked(c, GetUser(u), has, "ErrNotFound", Map("users")[u], db)
    \/ Checked(c, UpdateUser(u, v), has, "ErrNotFound", NoVal, Assign("users", u, v))
    \/ Checked(c, DeleteUser(u), has, "ErrNotFound", NoVal, Delete("users", u))
    \/ Return(c, UserExists(u), "nil", has, db)
    \/ Checked(c, Authenticate(u, v), has /\ Map("users")[u] = v, "ErrAuthFailed", TRUE, db)

RosterStore(c) == \E u \in Accounts, p \in Peers, v \in Vals :
    LET items == Inner("rosterItems", u) IN
    \/ Return(c, UpsertRosterItem(u, p, v), "nil", NoVal, AssignIn("rosterItems", u, p, v))
    \/ Checked(c, GetRosterItem(u, p), p \in DOMAIN items, "ErrNotFound", items[p], db)
    \/ Return(c, GetRosterItems(u), "nil", {<<<<"roster", u, x>>, items[x]>> : x \in DOMAIN items}, db)
    \/ Checked(c, DeleteRosterItem(u, p), p \in DOMAIN items, "ErrNotFound", NoVal,
               DeleteIn("rosterItems", u, p))

RosterVersions(c) == \E u \in Accounts, v \in Vals :
    \/ Return(c, GetRosterVersion(u), "nil", At(Map("rosterVersions"), u, NoVal), db)
    \/ Return(c, SetRosterVersion(u, v), "nil", NoVal, Assign("rosterVersions", u, v))

BlockingStore(c) == \E u \in Accounts, p \in Peers :
    LET blocked == Inner("blocked", u) IN
    \/ Return(c, BlockJID(u, p), "nil", NoVal, AssignIn("blocked", u, p, TRUE))
    \/ Return(c, UnblockJID(u, p), "nil", NoVal, DeleteIn("blocked", u, p))
    \/ Return(c, IsBlocked(u, p), "nil", p \in DOMAIN blocked, db)
    \/ Return(c, GetBlockedJIDs(u), "nil", {<<<<"block", u, x>>, TRUE>> : x \in DOMAIN blocked}, db)

VCardStore(c) == \E u \in Accounts, v \in Vals :
    LET has == u \in DOMAIN Map("vcards") IN
    \/ Return(c, SetVCard(u, v), "nil", NoVal, Assign("vcards", u, v))
    \/ Checked(c, GetVCard(u), has, "ErrNotFound", Map("vcards")[u], db)
    \/ Checked(c, DeleteVCard(u), has, "ErrNotFound", NoVal, Delete("vcards", u))

OfflineStore(c) == \E u \in Accounts, v \in Vals :
    LET msgs == At(Map("offlineMsgs"), u, <<>>) IN
    \/ /\ Len(msgs) < MaxMsgs
       /\ Return(c, StoreOfflineMessage(u, v), "nil", NoVal,
                 Assign("offlineMsgs", u, Append(msgs, v)))
    \/ Return(c, GetOfflineMessages(u), "nil", msgs, db)
    \/ Return(c, DeleteOfflineMessages(u), "nil", NoVal, Delete("offlineMsgs", u))
    \/ Return(c, CountOfflineMessages(u), "nil", Len(msgs), db)

(* A message without an ID gets the next number. *)
Archive(c, u) ==
    /\ clock < MaxMsgs
    /\ \E msg \in Incoming({0}) :
         LET next == db.mamIDCounter + 1
             cp == IF msg.id = 0 THEN [msg EXCEPT !.id = next] ELSE msg
             counted == IF msg.id = 0 THEN [db EXCEPT !.mamIDCounter = next] ELSE db
         IN  ReturnLosing(c, ArchiveMessage(u, msg), "nil", NoVal,
                 [counted EXCEPT !.maps["mamMessages"] = Put(@, u, Append(At(@, u, <<>>), cp))], {})
    /\ clock' = clock + 1
    /\ UNCHANGED faults

(* The loop of QueryMessages after the first n messages: whether AfterID   *)
(* has been found, whether BeforeID has ended it, what has passed.         *)
Scan(msgs, q) ==
    LET Loop[n \in 0..Len(msgs)] ==
          IF n = 0 THEN [found |-> q.after = 0, over |-> FALSE, filtered |-> <<>>]
          ELSE LET s == Loop[n - 1]
                   msg == msgs[n]
               IN  IF s.over THEN s
                   ELSE IF ~s.found THEN [s EXCEPT !.found = msg.id = q.after]
                   ELSE IF q.before # 0 /\ msg.id = q.before THEN [s EXCEPT !.over = TRUE]
                   ELSE IF ~Passes(msg, q) THEN s
                   ELSE [s EXCEPT !.filtered = Append(@, msg)]
    IN  Loop[Len(msgs)].filtered

MAMStore(c) == \E u \in Accounts :
    LET msgs == At(Map("mamMessages"), u, <<>>) IN
    \/ Archive(c, u)
    \/ \E q \in Asking({msgs[i].id : i \in DOMAIN msgs}) :
         Return(c, QueryMessages(u, q), "nil", PageOf(Scan(msgs, q), q), db)
    \/ Return(c, DeleteMessageArchive(u), "nil", NoVal, Delete("mamMessages", u))

MUCRoomStore(c) == \E r \in Rooms, v \in Vals :
    LET has == r \in DOMAIN Map("mucRooms")
        without == Delete("mucRooms", r) IN
    \/ Checked(c, CreateRoom(r, v), ~has, "ErrUserExists", NoVal, Assign("mucRooms", r, v))
    \/ Checked(c, GetRoom(r), has, "ErrNotFound", Map("mucRooms")[r], db)
    \/ Checked(c, UpdateRoom(r, v), has, "ErrNotFound", NoVal, Assign("mucRooms", r, v))
    \/ Checked(c, DeleteRoom(r), has, "ErrNotFound", NoVal,
               [without EXCEPT !.maps["mucAffiliations"] = Drop(@, {r})])
    \/ Return(c, ListRooms, "nil", {<<<<"room", x>>, Map("mucRooms")[x]>> : x \in DOMAIN Map("mucRooms")}, db)

Affiliations(c) == \E r \in Rooms, p \in Members, v \in Vals :
    LET affs == Inner("mucAffiliations", r) IN
    \/ Return(c, SetAffiliation(r, p, v), "nil", NoVal, AssignIn("mucAffiliations", r, p, v))
    \/ Checked(c, GetAffiliation(r, p), p \in DOMAIN affs, "ErrNotFound", affs[p], db)
    \/ Return(c, GetAffiliations(r), "nil", {<<<<"aff", r, x>>, affs[x]>> : x \in DOMAIN affs}, db)
    \/ Return(c, RemoveAffiliation(r, p), "nil", NoVal, DeleteIn("mucAffiliations", r, p))

(* pubsubNodes[host][node], pubsubItems[host][node][item] and              *)
(* pubsubSubscriptions[host][node][jid].                                   *)
NodeMap(m, h, n) == At(Inner(m, h), n, Empty)
AssignNode(m, h, n, k, v) == AssignIn(m, h, n, Put(NodeMap(m, h, n), k, v))
DeleteNodeIn(m, h, n, k) ==
    IF n \in DOMAIN Inner(m, h) THEN AssignIn(m, h, n, Drop(NodeMap(m, h, n), {k})) ELSE db

PubSubNodes(c) == \E h \in Hosts, n \in Nodes, v \in Payloads :
    LET nodes == Inner("pubsubNodes", h)
        DropNode(f) == IF h \in DOMAIN f THEN Put(f, h, Drop(f[h], {n})) ELSE f IN
    \/ Checked(c, CreateNode(h, n, v), n \notin DOMAIN nodes, "ErrUserExists", NoVal,
               AssignIn("pubsubNodes", h, n, v))
    \/ Checked(c, GetNode(h, n), n \in DOMAIN nodes, "ErrNotFound", nodes[n], db)
    \/ Checked(c, DeleteNode(h, n), n \in DOMAIN nodes, "ErrNotFound", NoVal,
               [db EXCEPT !.maps = [m \in Maps |->
                   IF m \in {"pubsubNodes", "pubsubItems", "pubsubSubscriptions"}
                   THEN DropNode(@[m]) ELSE @[m]]])
    \/ Return(c, ListNodes(h), "nil", {<<<<"node", h, x>>, nodes[x]>> : x \in DOMAIN nodes}, db)

PubSubItems(c) == \E h \in Hosts, n \in ItemNodes, i \in Items, v \in Payloads :
    LET items == NodeMap("pubsubItems", h, n) IN
    \/ Return(c, UpsertItem(h, n, i, v), "nil", NoVal, AssignNode("pubsubItems", h, n, i, v))
    \/ Checked(c, GetItem(h, n, i), i \in DOMAIN items, "ErrNotFound", items[i], db)
    \/ Return(c, GetItems(h, n), "nil", {<<<<"item", h, n, x>>, items[x]>> : x \in DOMAIN items}, db)
    \/ Checked(c, DeleteItem(h, n, i), i \in DOMAIN items, "ErrNotFound", NoVal,
               DeleteNodeIn("pubsubItems", h, n, i))

PubSubSubscriptions(c) == \E h \in Hosts, n \in ItemNodes, p \in Members, v \in Payloads :
    LET subs(x) == NodeMap("pubsubSubscriptions", h, x) IN
    \/ Return(c, Subscribe(h, n, p, v), "nil", NoVal, AssignNode("pubsubSubscriptions", h, n, p, v))
    \/ Return(c, Unsubscribe(h, n, p), "nil", NoVal, DeleteNodeIn("pubsubSubscriptions", h, n, p))
    \/ Checked(c, GetSubscription(h, n, p), p \in DOMAIN subs(n), "ErrNotFound", subs(n)[p], db)
    \/ Return(c, GetSubscriptions(h, n), "nil",
              {<<<<"sub", h, n, x>>, subs(n)[x]>> : x \in DOMAIN subs(n)}, db)
    \/ Return(c, GetUserSubscriptions(h, p), "nil", {<<<<"sub", h, x, p>>, subs(x)[p]>> :
                x \in {y \in DOMAIN Inner("pubsubSubscriptions", h) : p \in DOMAIN subs(y)}}, db)

BookmarkStore(c) == \E u \in Accounts, r \in Rooms, v \in Vals :
    LET userBm == Inner("bookmarks", u) IN
    \/ Return(c, SetBookmark(u, r, v), "nil", NoVal, AssignIn("bookmarks", u, r, v))
    \/ Checked(c, GetBookmark(u, r), r \in DOMAIN userBm, "ErrNotFound", userBm[r], db)
    \/ Return(c, GetBookmarks(u), "nil", {<<<<"bookmark", u, x>>, userBm[x]>> : x \in DOMAIN userBm}, db)
    \/ Checked(c, DeleteBookmark(u, r), r \in DOMAIN userBm, "ErrNotFound", NoVal,
               DeleteIn("bookmarks", u, r))

(* Whose call it is makes no difference to what a call under the lock does. *)
Next == LET c == CHOOSE x \in Callers : TRUE IN
    \/ Init(c)
    \/ topic = "users" /\ UserStore(c)
    \/ topic = "roster" /\ RosterStore(c)
    \/ topic = "version" /\ RosterVersions(c)
    \/ topic = "blocking" /\ BlockingStore(c)
    \/ topic = "vcard" /\ VCardStore(c)
    \/ topic = "offline" /\ OfflineStore(c)
    \/ topic \in {"archive", "walk"} /\ MAMStore(c)
    \/ topic = "muc" /\ (MUCRoomStore(c) \/ Affiliations(c))
    \/ topic = "items" /\ (PubSubNodes(c) \/ PubSubItems(c))
    \/ topic = "subs" /\ (PubSubNodes(c) \/ PubSubSubscriptions(c))
    \/ topic = "bookmarks" /\ BookmarkStore(c)

(* The records and lists the maps hold, by key. *)
Stored ==
    LET Val(k) ==
          CASE k[1] = "user" -> At(Map("users"), k[2], Gone)
            [] k[1] = "version" -> At(Map("rosterVersions"), k[2], Gone)
            [] k[1] = "vcard" -> At(Map("vcards"), k[2], Gone)
            [] k[1] = "offline" -> At(Map("offlineMsgs"), k[2], Gone)
            [] k[1] = "mam" -> At(Map("mamMessages"), k[2], Gone)
            [] k[1] = "room" -> At(Map("mucRooms"), k[2], Gone)
            [] k[1] = "roster" -> At(Inner("rosterItems", k[2]), k[3], Gone)
            [] k[1] = "block" -> At(Inner("blocked", k[2]), k[3], Gone)
            [] k[1] = "bookmark" -> At(Inner("bookmarks", k[2]), k[3], Gone)
            [] k[1] = "aff" -> At(Inner("mucAffiliations", k[2]), k[3], Gone)
            [] k[1] = "node" -> At(Inner("pubsubNodes", k[2]), k[3], Gone)
            [] k[1] = "item" -> At(NodeMap("pubsubItems", k[2], k[3]), k[4], Gone)
            [] k[1] = "sub" -> At(NodeMap("pubsubSubscriptions", k[2], k[3]), k[4], Gone)
    IN  [k \in {x \in KeysOf(topic) : Val(x) # Gone} |-> Val(k)]
=============================================================================
