-------------------------- MODULE StorageInterface --------------------------
(***************************************************************************)
(* The interfaces of package storage: the methods of the nine sub-stores,  *)
(* and what each of them promises about a store that is one function from  *)
(* keys to values.  A method call is a record: its name, its kind, the key *)
(* it is about and the value it carries.  The kinds are what the methods   *)
(* have in common:                                                         *)
(*   create   refused when the key is there;                               *)
(*   update   refused when it is not;                                      *)
(*   upsert   never refused;                                               *)
(*   delete   refused when the key is not there; takes what depends on it; *)
(*   remove   deletes without looking;                                     *)
(*   get, check, has, find, list, count, all, query   read.                *)
(* A key is a tuple <<table, owner, ...>>; Wild in a list's key matches     *)
(* every component.                                                        *)
(***************************************************************************)
EXTENDS Naturals, Sequences, FiniteSets

CONSTANTS
    Accounts,   \* usernames and the bare JIDs of the accounts
    Peers,      \* contacts and correspondents
    Members,    \* occupants of rooms and subscribers of nodes
    Rooms,      \* MUC rooms
    Hosts,      \* pubsub services
    Nodes,      \* pubsub nodes
    ItemNodes,  \* bound: the nodes callers publish and subscribe to
    Items,      \* pubsub item IDs
    Vals,       \* what a record holds besides its key
    Payloads,   \* the same for nodes, items and subscriptions
    MaxMsgs,    \* bound: messages a queue or an archive is given
    Wild,       \* matches every component of a key
    NoVal,      \* no value
    Torn,       \* what is left of a file whose writing was interrupted
    Gone        \* expected to be absent

(* Partial functions. *)
Put(f, k, v) == [x \in DOMAIN f \cup {k} |-> IF x = k THEN v ELSE f[x]]
Drop(f, K) == [x \in DOMAIN f \ K |-> f[x]]
At(f, k, default) == IF k \in DOMAIN f THEN f[k] ELSE default
Empty == [x \in {} |-> NoVal]

Matches(k, pattern) ==
    /\ Len(k) = Len(pattern)
    /\ \A i \in 1..Len(k) : pattern[i] \in {Wild, k[i]}

Method(name, kind, key, val) == [name |-> name, kind |-> kind, key |-> key, val |-> val]
-----------------------------------------------------------------------------
InitStorage == Method("Init", "init", <<>>, NoVal)

CreateUser(u, v)   == Method("CreateUser", "create", <<"user", u>>, v)
GetUser(u)         == Method("GetUser", "get", <<"user", u>>, NoVal)
UpdateUser(u, v)   == Method("UpdateUser", "update", <<"user", u>>, v)
DeleteUser(u)      == Method("DeleteUser", "delete", <<"user", u>>, NoVal)
UserExists(u)      == Method("UserExists", "has", <<"user", u>>, NoVal)
Authenticate(u, v) == Method("Authenticate", "check", <<"user", u>>, v)

UpsertRosterItem(u, p, v) == Method("UpsertRosterItem", "upsert", <<"roster", u, p>>, v)
GetRosterItem(u, p)       == Method("GetRosterItem", "get", <<"roster", u, p>>, NoVal)
GetRosterItems(u)         == Method("GetRosterItems", "list", <<"roster", u, Wild>>, NoVal)
DeleteRosterItem(u, p)    == Method("DeleteRosterItem", "delete", <<"roster", u, p>>, NoVal)
GetRosterVersion(u)       == Method("GetRosterVersion", "find", <<"version", u>>, NoVal)
SetRosterVersion(u, v)    == Method("SetRosterVersion", "upsert", <<"version", u>>, v)

BlockJID(u, p)    == Method("BlockJID", "upsert", <<"block", u, p>>, TRUE)
UnblockJID(u, p)  == Method("UnblockJID", "remove", <<"block", u, p>>, NoVal)
IsBlocked(u, p)   == Method("IsBlocked", "has", <<"block", u, p>>, NoVal)
GetBlockedJIDs(u) == Method("GetBlockedJIDs", "list", <<"block", u, Wild>>, NoVal)

SetVCard(u, v) == Method("SetVCard", "upsert", <<"vcard", u>>, v)
GetVCard(u)    == Method("GetVCard", "get", <<"vcard", u>>, NoVal)
DeleteVCard(u) == Method("DeleteVCard", "delete", <<"vcard", u>>, NoVal)

StoreOfflineMessage(u, v) == Method("StoreOfflineMessage", "append", <<"offline", u>>, v)
GetOfflineMessages(u)     == Method("GetOfflineMessages", "all", <<"offline", u>>, NoVal)
DeleteOfflineMessages(u)  == Method("DeleteOfflineMessages", "remove", <<"offline", u>>, NoVal)
CountOfflineMessages(u)   == Method("CountOfflineMessages", "count", <<"offline", u>>, NoVal)

ArchiveMessage(u, msg)  == Method("ArchiveMessage", "append", <<"mam", u>>, msg)
QueryMessages(u, q)     == Method("QueryMessages", "query", <<"mam", u>>, q)
DeleteMessageArchive(u) == Method("DeleteMessageArchive", "remove", <<"mam", u>>, NoVal)

CreateRoom(r, v)        == Method("CreateRoom", "create", <<"room", r>>, v)
GetRoom(r)              == Method("GetRoom", "get", <<"room", r>>, NoVal)
UpdateRoom(r, v)        == Method("UpdateRoom", "update", <<"room", r>>, v)
DeleteRoom(r)           == Method("DeleteRoom", "delete", <<"room", r>>, NoVal)
ListRooms               == Method("ListRooms", "list", <<"room", Wild>>, NoVal)
SetAffiliation(r, p, v) == Method("SetAffiliation", "upsert", <<"aff", r, p>>, v)
GetAffiliation(r, p)    == Method("GetAffiliation", "get", <<"aff", r, p>>, NoVal)
GetAffiliations(r)      == Method("GetAffiliations", "list", <<"aff", r, Wild>>, NoVal)
RemoveAffiliation(r, p) == Method("RemoveAffiliation", "remove", <<"aff", r, p>>, NoVal)

CreateNode(h, n, v)     == Method("CreateNode", "create", <<"node", h, n>>, v)
GetNode(h, n)           == Method("GetNode", "get", <<"node", h, n>>, NoVal)
DeleteNode(h, n)        == Method("DeleteNode", "delete", <<"node", h, n>>, NoVal)
ListNodes(h)            == Method("ListNodes", "list", <<"node", h, Wild>>, NoVal)
UpsertItem(h, n, i, v)  == Method("UpsertItem", "upsert", <<"item", h, n, i>>, v)
GetItem(h, n, i)        == Method("GetItem", "get", <<"item", h, n, i>>, NoVal)
GetItems(h, n)          == Method("GetItems", "list", <<"item", h, n, Wild>>, NoVal)
DeleteItem(h, n, i)     == Method("DeleteItem", "delete", <<"item", h, n, i>>, NoVal)
Subscribe(h, n, p, v)   == Method("Subscribe", "upsert", <<"sub", h, n, p>>, v)
Unsubscribe(h, n, p)    == Method("Unsubscribe", "remove", <<"sub", h, n, p>>, NoVal)
GetSubscription(h, n, p) == Method("GetSubscription", "get", <<"sub", h, n, p>>, NoVal)
GetSubscriptions(h, n)  == Method("GetSubscriptions", "list", <<"sub", h, n, Wild>>, NoVal)
GetUserSubscriptions(h, p) == Method("GetUserSubscriptions", "list", <<"sub", h, Wild, p>>, NoVal)

SetBookmark(u, r, v) == Method("SetBookmark", "upsert", <<"bookmark", u, r>>, v)
GetBookmark(u, r)    == Method("GetBookmark", "get", <<"bookmark", u, r>>, NoVal)
GetBookmarks(u)      == Method("GetBookmarks", "list", <<"bookmark", u, Wild>>, NoVal)
DeleteBookmark(u, r) == Method("DeleteBookmark", "delete", <<"bookmark", u, r>>, NoVal)
-----------------------------------------------------------------------------
(* The keys of each sub-store, and those that hold a list. *)
KeysOf(topic) ==
    CASE topic = "users" -> {"user"} \X Accounts
      [] topic = "roster" -> {"roster"} \X Accounts \X Peers
      [] topic = "version" -> {"version"} \X Accounts
      [] topic = "blocking" -> {"block"} \X Accounts \X Peers
      [] topic = "vcard" -> {"vcard"} \X Accounts
      [] topic = "offline" -> {"offline"} \X Accounts
      [] topic \in {"archive", "walk"} -> {"mam"} \X Accounts
      [] topic = "muc" -> ({"room"} \X Rooms) \cup ({"aff"} \X Rooms \X Members)
      [] topic = "items" -> ({"node"} \X Hosts \X Nodes) \cup ({"item"} \X Hosts \X ItemNodes \X Items)
      [] topic = "subs" -> ({"node"} \X Hosts \X Nodes) \cup ({"sub"} \X Hosts \X ItemNodes \X Members)
      [] topic = "bookmarks" -> {"bookmark"} \X Accounts \X Rooms
      [] topic = "init" -> {}
IsList(k) == k[1] \in {"offline", "mam"}

(* What a room or a node takes with it when it is deleted. *)
Dependents(k) ==
    CASE k[1] = "room" -> {"aff"} \X {k[2]} \X Members
      [] k[1] = "node" -> ({"item"} \X {k[2]} \X {k[3]} \X Items)
                            \cup ({"sub"} \X {k[2]} \X {k[3]} \X Members)
      [] OTHER -> {}

(* MAMQuery; 0 is the empty ID, the zero time and the default page size.   *)
(* Callers page with IDs the archive has given them, the earlier one as    *)
(* AfterID: on other ranges the backends answer differently.               *)
Queries(ids) ==
    {q \in [with : Peers \cup {NoVal}, start : {0, 2}, end : {0, 2},
            after : {0} \cup ids, before : {0} \cup ids, max : {0, 1}] :
        q.before = 0 \/ q.after < q.before}

(* The page after query.Max, 100 when it is not positive, of what was found. *)
DefaultMax == 100
PageSize(q) == IF q.max = 0 THEN DefaultMax ELSE q.max
PageOf(found, q) ==
    [msgs |-> SubSeq(found, 1, IF Len(found) > PageSize(q) THEN PageSize(q) ELSE Len(found)),
     complete |-> Len(found) <= PageSize(q)]

(* A message passes the filters on the correspondent and on time. *)
Passes(msg, q) ==
    /\ q.with \in {NoVal, msg.with}
    /\ q.start = 0 \/ msg.at >= q.start
    /\ q.end = 0 \/ msg.at <= q.end
=============================================================================
