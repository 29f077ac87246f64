---------------------------- MODULE Registration ----------------------------
(***************************************************************************)
(* In-band registration end to end: the client flow of plugins/register    *)
(* (FetchRegistrationForm, SubmitRegistration), the handler of             *)
(* cmd/xmppd/registration.go with its rate limiter, the accounts seeded by *)
(* main.go, and a user store whose calls are atomic and may fail.  Each    *)
(* call of the flow opens a connection of its own; xmppd serves each       *)
(* connection in a goroutine of its own, which may outlive the call.       *)
(* Peers are clients that do not use the flow: they send requests on a     *)
(* connection as they like.  A network that is cut delivers nothing and    *)
(* tells nobody.                                                           *)
(***************************************************************************)
EXTENDS Naturals, Sequences, FiniteSets

CONSTANTS
    Clients,    \* callers of the flow, and peers
    Names,      \* usernames
    Scenarios,  \* configurations of xmppd with the calls made in them
    Fields,     \* XMPP_REGISTRATION_FIELDS
    Tokens,     \* the invites and admin tokens in force
    Window,     \* XMPP_REGISTRATION_RATE_WINDOW
    MaxConns,   \* bound: the largest number of connections of a scenario
    NoUser, NoForm

ASSUME WindowIsPositive == Window \in Nat \ {0}

VARIABLES
    cfg,        \* the configuration; conns, faults and time bound it:
                \* the connections opened, the store calls that fail with the cuts of the
                \* network and the restarts, and the clock
    users,      \* name -> the account: its password, and the connection that created it
    once,       \* seedOnce and seedErr: "no", "running", "ok" or "err"
    conns,      \* the connections, in the order they were opened
    forms,      \* client -> the form it was given
    gone,       \* <<name, creator>> of the accounts that were removed
    now,
    faults

vars == <<cfg, users, once, conns, forms, gone, now, faults>>

NoFields == [f \in {} |-> ""]
Get(fields, f) == IF f \in DOMAIN fields THEN fields[f] ELSE ""
Fault == faults < cfg.faults /\ faults' = faults + 1
-----------------------------------------------------------------------------
(* Conversions.  A query carries the elements of XEP-0077 (classic) or a   *)
(* data form; an element that is empty is not marshalled, so a classic     *)
(* form that xmppd sends names no field.                                   *)
Classic == {"username", "password", "email"}

TokenField == [open |-> {}, closed |-> {}, invite |-> {"invite"}, admin |-> {"admin_token"}]
buildForm == [dataForm |-> cfg.dataForm,
              fields |-> IF cfg.dataForm THEN Fields \cup TokenField[cfg.policy] ELSE {}]

parseDataForm(fields) == [isDataForm |-> TRUE, fields |-> fields \ {"FORM_TYPE"}]
parseRegistrationQuery(q) ==
    IF q.dataForm THEN parseDataForm(q.fields) ELSE [isDataForm |-> FALSE, fields |-> q.fields]

(* What a caller fills in: a name and a password, and its token wherever   *)
(* the form it was given asks for one.                                     *)
FilledIn(call, form) ==
    [f \in {"username", "password"} \cup (form.fields \cap {"invite", "admin_token"}) |->
        CASE f = "username" -> call.name [] f = "password" -> call.pw [] OTHER -> call.token]

buildRegistrationIQ(fields, isDataForm) ==
    [type |-> "set", remove |-> FALSE,
     classic |-> IF isDataForm THEN NoFields ELSE [f \in DOMAIN fields \cap Classic |-> fields[f]],
     form |-> IF isDataForm THEN fields ELSE NoFields]

extractClassicFields(q) ==                                \* mutant
    [f \in {x \in DOMAIN q.classic : q.classic[x] # ""} |-> q.classic[f]]
extractFields(q) ==
    [f \in {x \in DOMAIN q.classic : q.classic[x] # ""} \cup DOMAIN q.form |->
        IF f \in DOMAIN q.form THEN q.form[f] ELSE q.classic[f]]

Query(type) == [type |-> type, remove |-> FALSE, classic |-> NoFields, form |-> NoFields]

(* What callers and peers ask for is named in Names, and so are the        *)
(* accounts to seed.                                                       *)
Named(req) ==
    req.type = "set" => /\ Get(extractFields(req), "username") \in Names \cup {""}
                        /\ Get(extractFields(req), "password") \in STRING
Account == [pw : STRING \cup {"seed"}, by : 0..MaxConns]
ASSUME ScenariosAreNamed ==
    /\ MaxConns \in Nat /\ "" \notin Names /\ NoUser \notin Account
    /\ \A s \in Scenarios :
          /\ s.conns \in 0..MaxConns /\ s.seeds \in Seq(Names)
          /\ \A call \in s.calls :
                /\ call.kind = "peer" => \A req \in call.reqs : Named(req)
                /\ call.kind # "peer" => call.name \in Names \cup {""} /\ call.pw \in STRING
-----------------------------------------------------------------------------
(* A connection: the call it was opened for; where the client (at) and the *)
(* goroutine of xmppd (sat) are; what is under way in each direction; the  *)
(* limiter's entries and log of decisions; the request being handled and   *)
(* what was decided; the account it was authenticated against; the names   *)
(* still to seed; what the flow returned.                                  *)
Msg(type) == [type |-> type]
NewConn(call) ==
    [call |-> call, at |-> IF call.kind = "peer" THEN "open" ELSE "features", sat |-> "accept",
     up |-> IF call.kind = "peer" THEN <<>> ELSE <<Msg("header")>>, down |-> <<>>,
     cut |-> FALSE, secure |-> FALSE, items |-> <<>>, log |-> <<>>,
     req |-> Query("get"), outcome |-> "", account |-> 0, todo |-> <<>>, told |-> ""]

Becomes(i, c) == conns' = [conns EXCEPT ![i] = c]
Push(c, msg) == IF c.cut \/ c.at \in {"done", "open"} THEN c ELSE [c EXCEPT !.down = Append(@, msg)]
Send(c, msg) == IF c.cut \/ c.sat = "end" THEN c ELSE [c EXCEPT !.up = Append(@, msg)]

Init ==
    /\ cfg \in Scenarios
    /\ users = [n \in Names |-> NoUser] /\ gone = {}
    /\ once = "no" /\ conns = <<>> /\ now = 0 /\ faults = 0
    /\ forms = [c \in Clients |->
                  IF cfg.known THEN [isDataForm |-> cfg.dataForm, fields |-> buildForm.fields] ELSE NoForm]
-----------------------------------------------------------------------------
(* The flow.  A call returns with what it was told, and closes.            *)
Returned(c, told) == [c EXCEPT !.at = "done", !.told = told, !.down = <<>>]
Arrived(i, msgs) == conns[i].down # <<>> /\ Head(conns[i].down).type \in msgs
Taken(i) == [conns[i] EXCEPT !.down = Tail(@)]

(* FetchRegistrationForm and SubmitRegistration: dial and send the header. *)
Dial(call) ==
    /\ Len(conns) < cfg.conns
    /\ \A i \in DOMAIN conns : conns[i].call.by = call.by => conns[i].at = "done"
    /\ call.kind = "submit" => forms[call.by] # NoForm
    /\ conns' = Append(conns, NewConn(call))
    /\ UNCHANGED <<cfg, users, once, forms, gone, now, faults>>

Request(call) ==
    IF call.kind = "fetch" THEN Query("get")
    ELSE buildRegistrationIQ(FilledIn(call, forms[call.by]), forms[call.by].isDataForm)

(* TLS is used whenever it is offered; after it the header is sent again   *)
(* and the features are not looked at.                                     *)
readStreamFeatures(i) ==
    /\ Arrived(i, {"features", "features starttls"})
    /\ LET c == Taken(i)
       IN  \/ /\ c.at = "features" /\ Arrived(i, {"features starttls"})
              /\ Becomes(i, Send([c EXCEPT !.at = "proceed"], Msg("starttls")))
           \/ /\ c.at = "features2" \/ Arrived(i, {"features"})
              /\ Becomes(i, Send([c EXCEPT !.at = "answer"], Request(c.call)))
    /\ UNCHANGED <<cfg, users, once, forms, gone, now, faults>>

upgradeToTLS(i) ==
    /\ conns[i].at = "proceed" /\ Arrived(i, {"proceed"})
    /\ \/ Becomes(i, Send([Taken(i) EXCEPT !.at = "features2"], Msg("header")))
       \/ Becomes(i, Returned(conns[i], "error"))
    /\ UNCHANGED <<cfg, users, once, forms, gone, now, faults>>

(* The field Condition holds the character data of the last child of the   *)
(* error, which is the text that xmppd adds: the names of conditions that  *)
(* parseErrorCondition looks for are in none of them.                      *)
parseErrorCondition(iq) == IF iq.text # "" THEN iq.text ELSE "registration failed"

readRegistrationForm(i) ==
    /\ conns[i].at = "answer" /\ conns[i].call.kind = "fetch"
    /\ Arrived(i, {"result", "error"})
    /\ LET iq == Head(conns[i].down)
       IN  \/ /\ iq.type = "error"
              /\ Becomes(i, Returned(conns[i], parseErrorCondition(iq)))
              /\ UNCHANGED forms
           \/ /\ iq.type = "result"
              /\ Becomes(i, Returned(conns[i], "form"))
              /\ forms' = [forms EXCEPT ![conns[i].call.by] = parseRegistrationQuery(iq.query)]
    /\ UNCHANGED <<cfg, users, once, gone, now, faults>>

readRegistrationResult(i) ==
    /\ conns[i].at = "answer" /\ conns[i].call.kind = "submit"
    /\ Arrived(i, {"result", "error"})
    /\ LET iq == Head(conns[i].down)
       IN  Becomes(i, Returned(conns[i], IF iq.type = "error" THEN parseErrorCondition(iq) ELSE "Success"))
    /\ UNCHANGED <<cfg, users, once, forms, gone, now, faults>>

readEOF(i) ==
    /\ Arrived(i, {"EOF"})
    /\ Becomes(i, Returned(conns[i], "error"))
    /\ UNCHANGED <<cfg, users, once, forms, gone, now, faults>>

(* The deadline set on the connection ends any read or write. *)
InCall(i) == conns[i].at \notin {"done", "open"}
deadlineUnlessAnswering(i) ==                            \* mutant
    /\ InCall(i) /\ conns[i].at # "answer"
    /\ Becomes(i, Returned(conns[i], "error"))
    /\ UNCHANGED <<cfg, users, once, forms, gone, now, faults>>
deadline(i) ==
    /\ InCall(i)
    /\ Becomes(i, Returned(conns[i], "error"))
    /\ UNCHANGED <<cfg, users, once, forms, gone, now, faults>>
-----------------------------------------------------------------------------
(* xmppd.  Every session waits for the accounts to be seeded by the first, *)
(* and is closed if that failed.                                           *)
Ended(c) == [Push(c, Msg("EOF")) EXCEPT !.sat = "end", !.up = <<>>]
Seeding(c, names) == [c EXCEPT !.todo = names, !.sat = IF names = <<>> THEN "loop" ELSE "look"]
SeedState(names) == IF names = <<>> THEN "ok" ELSE "running"

seedOnceUnawaited(i) ==                                   \* mutant
    /\ conns[i].sat = "accept"
    /\ \/ once = "no" /\ Becomes(i, Seeding(conns[i], cfg.seeds)) /\ once' = SeedState(cfg.seeds)
       \/ once \in {"ok", "running"} /\ Becomes(i, [conns[i] EXCEPT !.sat = "loop"]) /\ UNCHANGED once
       \/ once = "err" /\ Becomes(i, Ended(conns[i])) /\ UNCHANGED once
    /\ UNCHANGED <<cfg, users, forms, gone, now, faults>>
seedOnce(i) ==
    /\ conns[i].sat = "accept"
    /\ \/ once = "no" /\ Becomes(i, Seeding(conns[i], cfg.seeds)) /\ once' = SeedState(cfg.seeds)
       \/ once = "ok" /\ Becomes(i, [conns[i] EXCEPT !.sat = "loop"]) /\ UNCHANGED once
       \/ once = "err" /\ Becomes(i, Ended(conns[i])) /\ UNCHANGED once
    /\ UNCHANGED <<cfg, users, forms, gone, now, faults>>

SeedFailedUnrecorded(i) == Becomes(i, Ended(conns[i])) /\ UNCHANGED once   \* mutant
SeedFailed(i) == Becomes(i, Ended(conns[i])) /\ once' = "err"
Seeded(i) == Becomes(i, Seeding(conns[i], Tail(conns[i].todo))) /\ once' = SeedState(Tail(conns[i].todo))

(* seedDefaultAccounts looks each account up and creates it if it is not   *)
(* there; an error ends it.  Nobody else can create it in between, no      *)
(* session being served yet.                                               *)
seedDefaultAccounts(i) ==
    LET c == conns[i]
        n == Head(c.todo)
        seed == [users EXCEPT ![n] = [pw |-> "seed", by |-> 0]]
    IN  /\ \/ c.sat = "look" /\ users[n] # NoUser /\ Seeded(i) /\ UNCHANGED <<users, faults>>
           \/ /\ c.sat = "look" /\ users[n] = NoUser
              /\ Becomes(i, [c EXCEPT !.sat = "make"]) /\ UNCHANGED <<users, once, faults>>
           \/ c.sat = "make" /\ users[n] = NoUser /\ users' = seed /\ Seeded(i) /\ UNCHANGED faults
           \/ c.sat \in {"look", "make"} /\ Fault /\ SeedFailed(i) /\ UNCHANGED users
           \/ c.sat = "make" /\ users[n] = NoUser /\ users' = seed /\ Fault /\ SeedFailed(i)
        /\ UNCHANGED <<cfg, forms, gone, now>>

(* The stream: a header is answered with the features, starttls with       *)
(* proceed; the end of the connection ends the session.                    *)
Received(i, types) == conns[i].sat = "loop" /\ conns[i].up # <<>> /\ Head(conns[i].up).type \in types
Read(i) == [conns[i] EXCEPT !.up = Tail(@)]

writeStreamFeatures(i) ==
    /\ Received(i, {"header"})
    /\ Becomes(i, Push(Read(i), Msg(IF cfg.tls /\ ~conns[i].secure THEN "features starttls" ELSE "features")))
    /\ UNCHANGED <<cfg, users, once, forms, gone, now, faults>>

handleStartTLS(i) ==
    /\ Received(i, {"starttls"})
    /\ Becomes(i, Push([Read(i) EXCEPT !.secure = TRUE], Msg("proceed")))
    /\ UNCHANGED <<cfg, users, once, forms, gone, now, faults>>

serveStreamEnds(i) ==
    /\ conns[i].sat = "loop" /\ conns[i].up = <<>> /\ conns[i].at = "done" /\ ~conns[i].cut
    /\ Becomes(i, Ended(conns[i]))
    /\ UNCHANGED <<cfg, users, once, forms, gone, now, faults>>
-----------------------------------------------------------------------------
(* The handler.  A session has a limiter of its own, so its entries are    *)
(* those of one peer.                                                      *)
Recent(items) == SelectSeq(items, LAMBDA t : t + Window > now)
Allow(items) == cfg.limit = 0 \/ Len(Recent(items)) < cfg.limit
EntriesCountingRefused(items) ==                          \* mutant
    IF cfg.limit = 0 THEN items ELSE Append(Recent(items), now)
Entries(items) ==
    IF cfg.limit = 0 THEN items
    ELSE IF Allow(items) THEN Append(Recent(items), now) ELSE Recent(items)

isTokenAllowed(token) == token \in Tokens
Decided(c, outcome) == [c EXCEPT !.outcome = outcome, !.sat = "answer"]

handleGet(c) == Decided(c, IF cfg.policy = "closed" THEN "registration disabled" ELSE "form")

InviteToken(fields) == IF Get(fields, "invite") # "" THEN Get(fields, "invite") ELSE Get(fields, "token")
(* xmppd always has a store, so "registration unavailable" does not occur. *)
handleSet(c) ==
    LET fields == extractFields(c.req)
    IN  IF cfg.policy = "closed" THEN Decided(c, "registration disabled")
        ELSE IF cfg.policy = "invite" /\ ~isTokenAllowed(InviteToken(fields)) THEN Decided(c, "invalid invite")
        ELSE IF cfg.policy = "admin" /\ ~isTokenAllowed(Get(fields, "admin_token"))
             THEN Decided(c, "admin token required")
        ELSE IF Get(fields, "username") = "" \/ Get(fields, "password") = ""
             THEN Decided(c, "username and password required")
        ELSE [c EXCEPT !.sat = IF c.req.remove THEN "auth" ELSE "exists"]

Handle(i) ==
    /\ Received(i, {"get", "set"})
    /\ LET items == conns[i].items
           c == [Read(i) EXCEPT !.req = Head(conns[i].up), !.outcome = "",
                   !.items = Entries(items), !.log = Append(@, [at |-> now, ok |-> Allow(items)])]
       IN  Becomes(i, IF ~Allow(items) THEN Decided(c, "rate limit exceeded")
                      ELSE IF c.req.type = "get" THEN handleGet(c)
                      ELSE handleSet(c))
    /\ UNCHANGED <<cfg, users, once, forms, gone, now, faults>>

NameOf(c) == Get(extractFields(c.req), "username")
PwOf(c) == Get(extractFields(c.req), "password")

UserExists(i) ==
    /\ conns[i].sat = "exists"
    /\ \/ /\ users[NameOf(conns[i])] # NoUser /\ UNCHANGED faults
          /\ Becomes(i, Decided(conns[i], "user already exists"))
       \/ /\ users[NameOf(conns[i])] = NoUser /\ UNCHANGED faults
          /\ Becomes(i, [conns[i] EXCEPT !.sat = "create"])
       \/ Fault /\ Becomes(i, Decided(conns[i], "user lookup failed"))
    /\ UNCHANGED <<cfg, users, once, forms, gone, now>>

(* The password is hashed and the account created: the store refuses a     *)
(* name that was taken since.  A call that fails may have taken effect.    *)
Create(i) == users' = [users EXCEPT ![NameOf(conns[i])] = [pw |-> PwOf(conns[i]), by |-> i]]
CreateUserUnchecked(i) ==                                 \* mutant
    /\ conns[i].sat = "create"
    /\ Create(i) /\ UNCHANGED faults
    /\ Becomes(i, Decided(conns[i], "registered"))
    /\ UNCHANGED <<cfg, once, forms, gone, now>>
CreateUser(i) ==
    LET free == users[NameOf(conns[i])] = NoUser
    IN  /\ conns[i].sat = "create"
        /\ \/ free /\ Create(i) /\ Becomes(i, Decided(conns[i], "registered")) /\ UNCHANGED faults
           \/ ~free /\ Becomes(i, Decided(conns[i], "user already exists")) /\ UNCHANGED <<users, faults>>
           \/ Fault /\ Becomes(i, Decided(conns[i], "password hashing failed")) /\ UNCHANGED users
           \/ Fault /\ Becomes(i, Decided(conns[i], "user create failed")) /\ UNCHANGED users
           \/ Fault /\ Becomes(i, Decided(conns[i], "user create failed")) /\ free /\ Create(i)
        /\ UNCHANGED <<cfg, once, forms, gone, now>>

AuthenticateName(i) ==                                    \* mutant
    /\ conns[i].sat = "auth" /\ users[NameOf(conns[i])] # NoUser
    /\ Becomes(i, [conns[i] EXCEPT !.sat = "delete", !.account = users[NameOf(conns[i])].by])
    /\ UNCHANGED <<cfg, users, once, forms, gone, now, faults>>
Authenticate(i) ==
    LET user == users[NameOf(conns[i])]
        ok == user # NoUser /\ user.pw = PwOf(conns[i])
    IN  /\ conns[i].sat = "auth"
        /\ \/ ok /\ Becomes(i, [conns[i] EXCEPT !.sat = "delete", !.account = user.by]) /\ UNCHANGED faults
           \/ ~ok /\ Becomes(i, Decided(conns[i], "authentication failed")) /\ UNCHANGED faults
           \/ Fault /\ Becomes(i, Decided(conns[i], "authentication failed"))
        /\ UNCHANGED <<cfg, users, once, forms, gone, now>>

(* DeleteUser takes the name alone: it deletes the account that has it now. *)
Delete(n) ==
    /\ users' = [users EXCEPT ![n] = NoUser]
    /\ gone' = gone \cup {<<n, users[n].by>>}
DeleteUser(i) ==
    LET n == NameOf(conns[i])
    IN  /\ conns[i].sat = "delete"
        /\ \/ users[n] # NoUser /\ Delete(n) /\ Becomes(i, Decided(conns[i], "removed")) /\ UNCHANGED faults
           \/ /\ users[n] = NoUser /\ UNCHANGED <<users, gone, faults>>
              /\ Becomes(i, Decided(conns[i], "user delete failed"))
           \/ Fault /\ Becomes(i, Decided(conns[i], "user delete failed")) /\ UNCHANGED <<users, gone>>
           \/ Fault /\ Becomes(i, Decided(conns[i], "user delete failed")) /\ users[n] # NoUser /\ Delete(n)
        /\ UNCHANGED <<cfg, once, forms, now>>

(* What was decided is sent, and handleIQ goes on to answer the request a  *)
(* second time, the session not being authenticated.  A reply to a client  *)
(* that has gone is lost or ends the session.                              *)
Reply(c) ==
    CASE c.outcome = "form" -> [type |-> "result", query |-> buildForm]
      [] c.outcome \in {"registered", "removed"} -> Msg("result")
      [] OTHER -> [type |-> "error", text |-> c.outcome]
Refusal == [type |-> "error", text |-> "authenticate and bind first"]
Sends(i, reply, next) ==
    \/ Becomes(i, [Push(conns[i], reply) EXCEPT !.sat = next])
    \/ (conns[i].at = "done" \/ conns[i].cut) /\ Becomes(i, Ended(conns[i]))

SendReplyRefusingFirst(i) ==                              \* mutant
    /\ conns[i].sat = "answer"
    /\ Becomes(i, [Push(Push(conns[i], Refusal), Reply(conns[i])) EXCEPT !.sat = "loop"])
    /\ UNCHANGED <<cfg, users, once, forms, gone, now, faults>>
SendReply(i) ==
    /\ conns[i].sat = "answer" /\ Sends(i, Reply(conns[i]), "fall")
    /\ UNCHANGED <<cfg, users, once, forms, gone, now, faults>>
handleIQ(i) ==
    /\ conns[i].sat = "fall" /\ Sends(i, Refusal, "loop")
    /\ UNCHANGED <<cfg, users, once, forms, gone, now, faults>>
-----------------------------------------------------------------------------
(* Peers, the network, the process and the clock. *)
PeerSends(i) ==
    /\ conns[i].at = "open" /\ conns[i].up = <<>> /\ conns[i].sat = "loop"
    /\ Len(conns[i].log) < conns[i].call.requests
    /\ \E req \in conns[i].call.reqs : Becomes(i, Send(conns[i], req))
    /\ UNCHANGED <<cfg, users, once, forms, gone, now, faults>>
Cut(i) ==
    /\ ~conns[i].cut /\ InCall(i) /\ Fault
    /\ Becomes(i, [conns[i] EXCEPT !.cut = TRUE, !.up = <<>>, !.down = <<>>])
    /\ UNCHANGED <<cfg, users, once, forms, gone, now>>

(* The process dies and is started again on the same store. *)
Restart ==
    /\ conns # <<>> /\ Fault /\ once' = "no"
    /\ conns' = [i \in DOMAIN conns |->
                   IF conns[i].sat = "end" THEN conns[i]
                   ELSE [Ended(conns[i]) EXCEPT !.at = IF @ = "open" THEN "done" ELSE @]]
    /\ UNCHANGED <<cfg, users, forms, gone, now>>
Tick ==
    /\ now < cfg.time /\ now' = now + 1
    /\ UNCHANGED <<cfg, users, once, conns, forms, gone, faults>>

Flow(i) == readStreamFeatures(i) \/ upgradeToTLS(i) \/ readRegistrationForm(i)
           \/ readRegistrationResult(i) \/ readEOF(i)
Session(i) == seedOnce(i) \/ seedDefaultAccounts(i) \/ writeStreamFeatures(i) \/ handleStartTLS(i)
              \/ serveStreamEnds(i) \/ Handle(i) \/ UserExists(i) \/ CreateUser(i) \/ Authenticate(i)
              \/ DeleteUser(i) \/ SendReply(i) \/ handleIQ(i)
Next ==
    \/ \E call \in cfg.calls : Dial(call)
    \/ \E i \in DOMAIN conns : Flow(i) \/ deadline(i) \/ Session(i) \/ Cut(i)
    \/ \E i \in DOMAIN conns : PeerSends(i)
    \/ Restart
    \/ Tick

Has(i) == i \in DOMAIN conns
Fairness ==
    \A i \in 1..MaxConns :
        /\ WF_vars(Has(i) /\ Session(i))
        /\ WF_vars(Has(i) /\ deadline(i))
Spec == Init /\ [][Next]_vars /\ Fairness
-----------------------------------------------------------------------------
(* What SubmitRegistration returns is what the handler decided about its   *)
(* request, never the second reply of handleIQ: Success if and only if it  *)
(* was told of an account, and a refusal that names its reason was given   *)
(* to a request that created none, a store failure apart.                  *)
AnswerIsOutcome ==
    \A i \in DOMAIN conns :
        LET c == conns[i]
        IN  (c.call.kind = "submit" /\ c.told \notin {"", "error"}) =>
              /\ c.outcome = (IF c.told = "Success" THEN "registered" ELSE c.told)
              /\ c.told \notin {"Success", "user create failed"} =>
                   \A n \in Names : users[n] # NoUser => users[n].by # i

(* Two registrations of a name that interleave between UserExists and      *)
(* CreateUser have one winner: an account that a request was told it       *)
(* registered has that request's password and stays its own until it is    *)
(* removed, whatever others are answered, through failures of the store    *)
(* and restarts; and a conflict is answered only when the name was taken.  *)
WinnerKeepsName ==
    \A i \in DOMAIN conns :
        LET c == conns[i]
            n == NameOf(c)
        IN  /\ c.outcome = "registered" =>
                 users[n] = [pw |-> PwOf(c), by |-> i] \/ <<n, i>> \in gone
            /\ c.outcome = "user already exists" =>
                 users[n] # NoUser \/ \E by \in 0..MaxConns : <<n, by>> \in gone

(* handleRemove checks the password of one call and deletes by name in the *)
(* next.  A request deletes an account whose password it did not present   *)
(* only if the account it authenticated against was removed in between by  *)
(* another request.                                                        *)
LostOnlyToOverlap ==
    [][\A i \in DOMAIN conns, n \in Names :
         (users[n] # NoUser /\ users'[n] = NoUser /\ conns[i].sat = "delete" /\ conns'[i].sat # "delete") =>
            \/ users[n].pw = PwOf(conns[i])
            \/ <<n, conns[i].account>> \in gone]_vars

(* The limiter is exact on a connection: a request is let through if and   *)
(* only if fewer than limit were let through within the window before it,  *)
(* whatever was refused and pruned meanwhile.                              *)
LimiterIsExact ==
    \A i \in DOMAIN conns :
        LET log == conns[i].log
        IN  \A k \in DOMAIN log :
              log[k].ok <=> \/ cfg.limit = 0
                            \/ Cardinality({j \in 1..(k - 1) : log[j].ok /\ log[j].at + Window > log[k].at})
                                 < cfg.limit

(* Nobody is served before every default account is there, and no request  *)
(* gets the name of one: seedOnce holds every session back until the first *)
(* has seeded, and after a failure no session is served until a restart.   *)
Served(c) == c.sat \notin {"accept", "look", "make", "end"}
DefaultsComeFirst ==
    \A k \in DOMAIN cfg.seeds :
        LET n == cfg.seeds[k]
        IN  <<n, 0>> \in gone \/ /\ users[n] # NoUser => users[n].by = 0
                                 /\ (\E i \in DOMAIN conns : Served(conns[i])) => users[n] # NoUser

(* A caller who fetches the form, fills it in with a valid token where it  *)
(* asks for one and submits it the way IsDataForm says is never refused    *)
(* for what it submitted: the form names what the policy asks for and      *)
(* buildRegistrationIQ and extractFields carry it.  A classic form cannot  *)
(* ask for a token, so the policies with tokens need data forms.           *)
FormIsEnough ==
    \A i \in DOMAIN conns :
        LET c == conns[i]
        IN  (c.call.kind = "submit" /\ c.call.token \in Tokens /\ (cfg.dataForm \/ cfg.policy = "open")) =>
              c.outcome \notin {"invalid invite", "admin token required", "username and password required"}

(* A call of the flow returns, whatever becomes of the network and of      *)
(* xmppd: the deadline covers the whole call.                              *)
FlowReturns == \A i \in 1..MaxConns : (Has(i) /\ InCall(i)) ~> (Has(i) /\ ~InCall(i))

(* A session that was accepted is served or closed: the first session ends *)
(* the seeding whether or not its client is still there, and a failure to  *)
(* seed is told to all that wait.                                          *)
AcceptedIsServed ==
    \A i \in 1..MaxConns : (Has(i) /\ conns[i].sat = "accept") ~> (Has(i) /\ conns[i].sat # "accept")
=============================================================================
