----------------------------- MODULE FileStore -----------------------------
(***************************************************************************)
(* storage/file: one JSON file per user, room or node and sub-store (vCards *)
(* are kept raw).  A method holds s.mu for its whole body, so calls do not *)
(* interleave; but os.WriteFile truncates and then writes, so a method     *)
(* that fails or a process that stops in the middle leaves a torn file.    *)
(* db.files maps paths to contents, db.mamCounter is the package variable, *)
(* which starts again at 0 with the process.                               *)
(***************************************************************************)
EXTENDS StorageCalls

CONSTANT safeFileName   \* name -> the name of its file

New == [files |-> Empty, mamCounter |-> 0]

path(dir, x) == <<dir, safeFileName[x]>>
nodePath(dir, h, n) == <<dir, safeFileName[h], safeFileName[n]>>

(* The file a record is in. *)
PathOf(k) ==
    CASE k[1] = "user" -> path("users", k[2])
      [] k[1] = "roster" -> path("roster", k[2])
      [] k[1] = "version" -> path("roster_versions", k[2])
      [] k[1] = "block" -> path("blocking", k[2])
      [] k[1] = "vcard" -> path("vcards", k[2])
      [] k[1] = "offline" -> path("offline", k[2])
      [] k[1] = "mam" -> path("mam", k[2])
      [] k[1] = "room" -> path("muc_rooms", k[2])
      [] k[1] = "aff" -> path("muc_affiliations", k[2])
      [] k[1] = "node" -> nodePath("pubsub_nodes", k[2], k[3])
      [] k[1] = "item" -> nodePath("pubsub_items", k[2], k[3])
      [] k[1] = "sub" -> nodePath("pubsub_subscriptions", k[2], k[3])
      [] k[1] = "bookmark" -> path("bookmarks", k[2])

exists(p) == p \in DOMAIN db.files
Broken(p) == exists(p) /\ db.files[p] = Torn
load(p, none) == At(db.files, p, none)

readJSON(c, m, p) ==
    IF ~exists(p) THEN Refuse(c, m, "ErrNotFound")
    ELSE IF Broken(p) THEN Refuse(c, m, "error")
    ELSE Return(c, m, "nil", db.files[p], db)

(* writeJSON: the new content; or an error, with the old content or a torn *)
(* file; or the process stops before, in or after the write and a new one  *)
(* starts.                                                                 *)
WriteFrom(c, m, p, content, base) ==
    LET Leaving(x) == [base EXCEPT !.files = Put(@, p, x)]
        lost == {k \in DOMAIN known : PathOf(k) = p}
    IN  \/ ReturnLosing(c, m, "nil", NoVal, Leaving(content), {}) /\ UNCHANGED faults
        \/ /\ Fault
           /\ \/ \E d \in {base, Leaving(Torn)} : ReturnLosing(c, m, "error", NoVal, d, lost)
              \/ \E d \in {base, Leaving(Torn), Leaving(content)} :
                   ReturnLosing(c, m, "crash", NoVal, [d EXCEPT !.mamCounter = 0], lost)
writeJSON(c, m, p, content) == WriteFrom(c, m, p, content, db) /\ UNCHANGED clock

(* os.Remove of some files, one after the other; the last one's error is   *)
(* the method's.                                                           *)
Remove(c, m, paths) ==
    LET Without(n) == [db EXCEPT !.files = Drop(@, {paths[i] : i \in 1..n})]
        lost == {k \in DOMAIN known : \E i \in DOMAIN paths : PathOf(k) = paths[i]}
    IN  \/ Return(c, m, "nil", NoVal, Without(Len(paths)))
        \/ /\ Fault /\ UNCHANGED clock
           /\ \/ ReturnLosing(c, m, "error", NoVal, Without(Len(paths) - 1), lost)
              \/ \E n \in 0..Len(paths) :
                   ReturnLosing(c, m, "crash", NoVal, [Without(n) EXCEPT !.mamCounter = 0], lost)
-----------------------------------------------------------------------------
UserStore(c) == \E u \in Accounts, v \in Vals :
    LET p == path("users", u) IN
    \/ IF exists(p) THEN Refuse(c, CreateUser(u, v), "ErrUserExists")
       ELSE writeJSON(c, CreateUser(u, v), p, v)
    \/ readJSON(c, GetUser(u), p)
    \/ IF exists(p) THEN writeJSON(c, UpdateUser(u, v), p, v)
       ELSE Refuse(c, UpdateUser(u, v), "ErrNotFound")
    \/ IF exists(p) THEN Remove(c, DeleteUser(u), <<p>>) ELSE Refuse(c, DeleteUser(u), "ErrNotFound")
    \/ Return(c, UserExists(u), "nil", exists(p), db)
    \/ Checked(c, Authenticate(u, v), exists(p) /\ db.files[p] = v, "ErrAuthFailed", TRUE, db)

RosterStore(c) == \E u \in Accounts, q \in Peers, v \in Vals :
    LET p == path("roster", u)
        items == load(p, Empty) IN
    \/ /\ Broken(p)
       /\ \E m \in {UpsertRosterItem(u, q, v), GetRosterItem(u, q), GetRosterItems(u),
                    DeleteRosterItem(u, q)} : Refuse(c, m, "error")
    \/ /\ ~Broken(p)
       /\ \/ writeJSON(c, UpsertRosterItem(u, q, v), p, Put(items, q, v))
          \/ Checked(c, GetRosterItem(u, q), q \in DOMAIN items, "ErrNotFound", items[q], db)
          \/ Return(c, GetRosterItems(u), "nil", {<<<<"roster", u, x>>, items[x]>> : x \in DOMAIN items}, db)
          \/ IF q \in DOMAIN items THEN writeJSON(c, DeleteRosterItem(u, q), p, Drop(items, {q}))
             ELSE Refuse(c, DeleteRosterItem(u, q), "ErrNotFound")

RosterVersions(c) == \E u \in Accounts, v \in Vals :
    LET ver == path("roster_versions", u) IN
    \/ IF exists(ver) THEN readJSON(c, GetRosterVersion(u), ver)
       ELSE Return(c, GetRosterVersion(u), "nil", NoVal, db)
    \/ writeJSON(c, SetRosterVersion(u, v), ver, v)

BlockingStore(c) == \E u \in Accounts, q \in Peers :
    LET p == path("blocking", u)
        blocked == load(p, Empty) IN
    \/ /\ Broken(p)
       /\ \E m \in {BlockJID(u, q), UnblockJID(u, q), IsBlocked(u, q), GetBlockedJIDs(u)} :
            Refuse(c, m, "error")
    \/ /\ ~Broken(p)
       /\ \/ writeJSON(c, BlockJID(u, q), p, Put(blocked, q, TRUE))
          \/ writeJSON(c, UnblockJID(u, q), p, Drop(blocked, {q}))
          \/ Return(c, IsBlocked(u, q), "nil", q \in DOMAIN blocked, db)
          \/ Return(c, GetBlockedJIDs(u), "nil", {<<<<"block", u, x>>, TRUE>> : x \in DOMAIN blocked}, db)

(* A vCard is not parsed: what is left of a torn one is returned. *)
VCardStore(c) == \E u \in Accounts, v \in Vals :
    LET p == path("vcards", u) IN
    \/ writeJSON(c, SetVCard(u, v), p, v)
    \/ Checked(c, GetVCard(u), exists(p), "ErrNotFound", db.files[p], db)
    \/ IF exists(p) THEN Remove(c, DeleteVCard(u), <<p>>) ELSE Refuse(c, DeleteVCard(u), "ErrNotFound")

OfflineStore(c) == \E u \in Accounts, v \in Vals :
    LET p == path("offline", u)
        msgs == load(p, <<>>) IN
    \/ /\ Broken(p)
       /\ \E m \in {StoreOfflineMessage(u, v), GetOfflineMessages(u), CountOfflineMessages(u)} :
            Refuse(c, m, "error")
    \/ /\ ~Broken(p)
       /\ \/ Len(msgs) < MaxMsgs /\ writeJSON(c, StoreOfflineMessage(u, v), p, Append(msgs, v))
          \/ Return(c, GetOfflineMessages(u), "nil", msgs, db)
          \/ Return(c, CountOfflineMessages(u), "nil", Len(msgs), db)
    \/ IF exists(p) THEN Remove(c, DeleteOfflineMessages(u), <<p>>)
       ELSE Return(c, DeleteOfflineMessages(u), "nil", NoVal, db)
-----------------------------------------------------------------------------
Archive(c, u, p) ==
    /\ clock < MaxMsgs
    /\ \E msg \in Incoming({0}) :
         LET next == db.mamCounter + 1
             cp == IF msg.id = 0 THEN [msg EXCEPT !.id = next] ELSE msg
             counted == IF msg.id = 0 THEN [db EXCEPT !.mamCounter = next] ELSE db
         IN  IF Broken(p) THEN Refuse(c, ArchiveMessage(u, msg), "error")
             ELSE /\ WriteFrom(c, ArchiveMessage(u, msg), p, Append(load(p, <<>>), cp), counted)
                  /\ clock' = clock + 1

(* The loop of QueryMessages; see MemoryStore. *)
Scan(msgs, q) ==
    LET Loop[n \in 0..Len(msgs)] ==
          IF n = 0 THEN [found |-> q.after = 0, over |-> FALSE, filtered |-> <<>>]
          ELSE LET s == Loop[n - 1]
                   msg == msgs[n]
               IN  IF s.over THEN s
                   ELSE IF ~s.found THEN [s EXCEPT !.found = msg.id = q.after]
                   ELSE IF q.before # 0 /\ msg.id = q.before THEN [s EXCEPT !.over = TRUE]
                   ELSE IF ~Passes(msg, q) THEN s
                   ELSE [s EXCEPT !.filtered = Append(@, msg)]
    IN  Loop[Len(msgs)].filtered

Query(c, u, p) ==
    IF Broken(p) THEN \E q \in Asking({}) : Refuse(c, QueryMessages(u, q), "error")
    ELSE LET msgs == load(p, <<>>)
         IN  \E q \in Asking({msgs[i].id : i \in DOMAIN msgs}) :
               Return(c, QueryMessages(u, q), "nil", PageOf(Scan(msgs, q), q), db)

MAMStore(c) == \E u \in Accounts :
    LET p == path("mam", u) IN
    \/ Archive(c, u, p)
    \/ Query(c, u, p)
    \/ IF exists(p) THEN Remove(c, DeleteMessageArchive(u), <<p>>)
       ELSE Return(c, DeleteMessageArchive(u), "nil", NoVal, db)
-----------------------------------------------------------------------------
(* DeleteRoom removes the affiliations first and does not look whether it could. *)
MUCRoomStore(c) == \E r \in Rooms, v \in Vals :
    LET p == path("muc_rooms", r)
        readable == {x \in Rooms : exists(path("muc_rooms", x)) /\ ~Broken(path("muc_rooms", x))} IN
    \/ IF exists(p) THEN Refuse(c, CreateRoom(r, v), "ErrUserExists")
       ELSE writeJSON(c, CreateRoom(r, v), p, v)
    \/ readJSON(c, GetRoom(r), p)
    \/ IF exists(p) THEN writeJSON(c, UpdateRoom(r, v), p, v)
       ELSE Refuse(c, UpdateRoom(r, v), "ErrNotFound")
    \/ IF exists(p) THEN Remove(c, DeleteRoom(r), <<path("muc_affiliations", r), p>>)
       ELSE Refuse(c, DeleteRoom(r), "ErrNotFound")
    \/ Return(c, ListRooms, "nil", {<<<<"room", x>>, db.files[path("muc_rooms", x)]>> : x \in readable}, db)

Affiliations(c) == \E r \in Rooms, q \in Members, v \in Vals :
    LET p == path("muc_affiliations", r)
        affs == load(p, Empty) IN
    \/ /\ Broken(p)
       /\ \E m \in {SetAffiliation(r, q, v), GetAffiliation(r, q), GetAffiliations(r),
                    RemoveAffiliation(r, q)} : Refuse(c, m, "error")
    \/ /\ ~Broken(p)
       /\ \/ writeJSON(c, SetAffiliation(r, q, v), p, Put(affs, q, v))
          \/ Checked(c, GetAffiliation(r, q), q \in DOMAIN affs, "ErrNotFound", affs[q], db)
          \/ Return(c, GetAffiliations(r), "nil", {<<<<"aff", r, x>>, affs[x]>> : x \in DOMAIN affs}, db)
          \/ writeJSON(c, RemoveAffiliation(r, q), p, Drop(affs, {q}))

PubSubNodes(c) == \E h \in Hosts, n \in Nodes, v \in Payloads :
    LET Node(x) == nodePath("pubsub_nodes", h, x)
        p == Node(n)
        readable == {x \in Nodes : exists(Node(x)) /\ ~Broken(Node(x))} IN
    \/ IF exists(p) THEN Refuse(c, CreateNode(h, n, v), "ErrUserExists")
       ELSE writeJSON(c, CreateNode(h, n, v), p, v)
    \/ readJSON(c, GetNode(h, n), p)
    \/ IF exists(p) THEN Remove(c, DeleteNode(h, n), <<nodePath("pubsub_items", h, n),
                                                       nodePath("pubsub_subscriptions", h, n), p>>)
       ELSE Refuse(c, DeleteNode(h, n), "ErrNotFound")
    \/ Return(c, ListNodes(h), "nil", {<<<<"node", h, x>>, db.files[Node(x)]>> : x \in readable}, db)

PubSubItems(c) == \E h \in Hosts, n \in ItemNodes, i \in Items, v \in Payloads :
    LET p == nodePath("pubsub_items", h, n)
        items == load(p, Empty) IN
    \/ /\ Broken(p)
       /\ \E m \in {UpsertItem(h, n, i, v), GetItem(h, n, i), GetItems(h, n), DeleteItem(h, n, i)} :
            Refuse(c, m, "error")
    \/ /\ ~Broken(p)
       /\ \/ writeJSON(c, UpsertItem(h, n, i, v), p, Put(items, i, v))
          \/ Checked(c, GetItem(h, n, i), i \in DOMAIN items, "ErrNotFound", items[i], db)
          \/ Return(c, GetItems(h, n), "nil", {<<<<"item", h, n, x>>, items[x]>> : x \in DOMAIN items}, db)
          \/ IF i \in DOMAIN items THEN writeJSON(c, DeleteItem(h, n, i), p, Drop(items, {i}))
             ELSE Refuse(c, DeleteItem(h, n, i), "ErrNotFound")

(* GetUserSubscriptions reads every file of the host and skips the torn ones. *)
PubSubSubscriptions(c) == \E h \in Hosts, n \in ItemNodes, q \in Members, v \in Payloads :
    LET Subs(x) == nodePath("pubsub_subscriptions", h, x)
        p == Subs(n)
        subs == load(p, Empty)
        holding == {x \in Nodes : /\ exists(Subs(x)) /\ ~Broken(Subs(x))
                                  /\ q \in DOMAIN db.files[Subs(x)]} IN
    \/ /\ Broken(p)
       /\ \E m \in {Subscribe(h, n, q, v), Unsubscribe(h, n, q), GetSubscription(h, n, q),
                    GetSubscriptions(h, n)} : Refuse(c, m, "error")
    \/ /\ ~Broken(p)
       /\ \/ writeJSON(c, Subscribe(h, n, q, v), p, Put(subs, q, v))
          \/ writeJSON(c, Unsubscribe(h, n, q), p, Drop(subs, {q}))
          \/ Checked(c, GetSubscription(h, n, q), q \in DOMAIN subs, "ErrNotFound", subs[q], db)
          \/ Return(c, GetSubscriptions(h, n), "nil", {<<<<"sub", h, n, x>>, subs[x]>> : x \in DOMAIN subs}, db)
    \/ Return(c, GetUserSubscriptions(h, q), "nil",
              {<<<<"sub", h, x, q>>, db.files[Subs(x)][q]>> : x \in holding}, db)

BookmarkStore(c) == \E u \in Accounts, r \in Rooms, v \in Vals :
    LET p == path("bookmarks", u)
        bms == load(p, Empty) IN
    \/ /\ Broken(p)
       /\ \E m \in {SetBookmark(u, r, v), GetBookmark(u, r), GetBookmarks(u), DeleteBookmark(u, r)} :
            Refuse(c, m, "error")
    \/ /\ ~Broken(p)
       /\ \/ writeJSON(c, SetBookmark(u, r, v), p, Put(bms, r, v))
          \/ Checked(c, GetBookmark(u, r), r \in DOMAIN bms, "ErrNotFound", bms[r], db)
          \/ Return(c, GetBookmarks(u), "nil", {<<<<"bookmark", u, x>>, bms[x]>> : x \in DOMAIN bms}, db)
          \/ IF r \in DOMAIN bms THEN writeJSON(c, DeleteBookmark(u, r), p, Drop(bms, {r}))
             ELSE Refuse(c, DeleteBookmark(u, r), "ErrNotFound")

(* Whose call it is makes no difference to what a call under the lock does. *)
Next == LET c == CHOOSE x \in Callers : TRUE IN
    \/ topic = "users" /\ UserStore(c)
    \/ topic = "roster" /\ RosterStore(c)
    \/ topic = "version" /\ RosterVersions(c)
    \/ topic = "blocking" /\ BlockingStore(c)
    \/ topic = "vcard" /\ VCardStore(c)
    \/ topic = "offline" /\ OfflineStore(c)
    \/ topic \in {"archive", "walk"} /\ MAMStore(c)
    \/ topic = "muc" /\ (MUCRoomStore(c) \/ Affiliations(c))
    \/ topic = "items" /\ (PubSubNodes(c) \/ PubSubItems(c))
    \/ topic = "subs" /\ (PubSubNodes(c) \/ PubSubSubscriptions(c))
    \/ topic = "bookmarks" /\ BookmarkStore(c)

(* The records and lists the files hold, by key; a torn file of one record *)
(* holds a torn record, a torn map or list holds nothing.                  *)
Stored ==
    LET Val(k) ==
          LET content == load(PathOf(k), Gone)
          IN  IF k[1] \in {"user", "version", "vcard", "room", "node"} THEN content
              ELSE IF content \in {Gone, Torn} THEN Gone
              ELSE IF IsList(k) THEN content
              ELSE At(content, k[Len(k)], Gone)
    IN  [k \in {x \in KeysOf(topic) : Val(x) # Gone} |-> Val(k)]
=============================================================================
