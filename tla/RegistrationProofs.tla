------------------------- MODULE RegistrationProofs -------------------------
(* The safety of registration for any number of callers, names, default    *)
(* accounts, failures and restarts.                                        *)
EXTENDS Registration, TLAPS

ConnFields == {"call", "at", "sat", "up", "down", "cut", "secure", "items", "log",
               "req", "outcome", "account", "todo", "told"}

\* What is under way to xmppd are requests that Named allows.
UpOK(up) == \E S : up \in Seq(S) /\ \A m \in S : Named(m)

\* A default account was created by the seeding, or it was and is removed.
Settled(u, g, n) == <<n, 0>> \in g \/ (u[n] # NoUser /\ u[n].by = 0)

Seeds(c) == c.sat \in {"look", "make"}

\* todo is what is left of seeds: the accounts before it are settled.
Progress(seeds, u, g, todo) ==
    /\ todo \in Seq(Names) /\ Len(todo) \leq Len(seeds)
    /\ \A k \in 1..Len(todo) : todo[k] = seeds[Len(seeds) - Len(todo) + k]
    /\ \A k \in 1..(Len(seeds) - Len(todo)) : Settled(u, g, seeds[k])

\* The session that seeds has come to the head of todo.
SeedInv(s, u, g, o, c) ==
    Seeds(c) => o = "running" /\ c.todo # <<>> /\ Progress(s.seeds, u, g, c.todo)

\* A request that reached the store names an account.
NameInv(c) ==
    /\ c.sat \in {"exists", "create", "auth", "delete"} => NameOf(c) \in Names /\ PwOf(c) \in STRING
    /\ c.outcome \in {"registered", "user already exists"} => NameOf(c) \in Names /\ PwOf(c) \in STRING

\* WinnerKeepsName of one connection.
WinInv(u, g, i, c) ==
    /\ c.outcome = "registered" =>
         u[NameOf(c)] = [pw |-> PwOf(c), by |-> i] \/ <<NameOf(c), i>> \in g
    /\ c.outcome = "user already exists" =>
         u[NameOf(c)] # NoUser \/ \E by \in 0..MaxConns : <<NameOf(c), by>> \in g

\* The account a removal authenticated against is the one that has the name,
\* or it was removed.
DeleteInv(u, g, c) ==
    c.sat = "delete" =>
        \/ u[NameOf(c)] # NoUser /\ u[NameOf(c)].by = c.account /\ u[NameOf(c)].pw = PwOf(c)
        \/ <<NameOf(c), c.account>> \in g

\* A peer reads nothing, and nobody else sends as it likes.
PeerInv(c) ==
    /\ c.call.kind = "peer" => c.down = <<>> /\ c.at \in {"open", "done"}
    /\ c.at = "open" => c.call.kind = "peer"

ConnInv(s, u, g, o, i, c) ==
    /\ DOMAIN c = ConnFields /\ c.call \in s.calls /\ UpOK(c.up) /\ PeerInv(c)
    /\ Served(c) => o = "ok"
    /\ NameInv(c)
    /\ SeedInv(s, u, g, o, c)
    /\ WinInv(u, g, i, c)
    /\ DeleteInv(u, g, c)

StoreInv(s, u, g, o) ==
    /\ s \in Scenarios
    /\ u \in [Names -> Account \cup {NoUser}] /\ g \subseteq Names \X (0..MaxConns)
    /\ \A k \in 1..Len(s.seeds) :
          /\ o = "ok" => Settled(u, g, s.seeds[k])
          /\ u[s.seeds[k]] # NoUser => Settled(u, g, s.seeds[k])

IsSeq(q) == \E S : q \in Seq(S)

\* What the three theorems rest on: each holds of the store, of every session
\* and between them, and at most one session seeds.
Inv ==
    /\ IsSeq(conns) /\ Len(conns) \leq cfg.conns
    /\ StoreInv(cfg, users, gone, once)
    /\ \A i \in 1..Len(conns) : ConnInv(cfg, users, gone, once, i, conns[i])
    /\ \A i, j \in 1..Len(conns) : Seeds(conns[i]) /\ Seeds(conns[j]) => i = j
-----------------------------------------------------------------------------
\* A sequence of members of S is one of members of any larger set.
LEMMA SeqGrows == ASSUME NEW S, NEW T, S \subseteq T, NEW q \in Seq(S) PROVE q \in Seq(T)
OBVIOUS

\* Appending to what is under way (flow.go:202, 290) keeps it named.
LEMMA UpAppend ==
  ASSUME NEW up, UpOK(up), NEW m, Named(m)
  PROVE  UpOK(Append(up, m))
<1>1. PICK S : up \in Seq(S) /\ \A x \in S : Named(x) BY DEF UpOK
<1>2. up \in Seq(S \cup {m}) BY <1>1, SeqGrows
<1>3. Append(up, m) \in Seq(S \cup {m}) BY <1>2
<1>4. \A x \in S \cup {m} : Named(x) BY <1>1
<1> QED BY <1>3, <1>4 DEF UpOK

\* Reading from it takes a named request and leaves the others.
LEMMA UpTail ==
  ASSUME NEW up, UpOK(up), up # <<>>
  PROVE  UpOK(Tail(up)) /\ Named(Head(up))
<1>1. PICK S : up \in Seq(S) /\ \A x \in S : Named(x) BY DEF UpOK
<1>2. Tail(up) \in Seq(S) /\ Head(up) \in S BY <1>1
<1> QED BY <1>1, <1>2 DEF UpOK

\* Nothing under way is named.
LEMMA UpEmpty == UpOK(<<>>)
<1> DEFINE E == {}
<1>1. <<>> \in Seq(E) /\ \A m \in E : Named(m) OBVIOUS
<1> HIDE DEF E
<1> QED BY <1>1 DEF UpOK

\* A request that the flow builds from a form carries the name and the
\* password that the caller filled in (flow.go:706, registration.go:276).
LEMMA FlowNames ==
  ASSUME NEW call, NEW form, NEW b, call.name \in Names \cup {""}, call.pw \in STRING
  PROVE  Named(buildRegistrationIQ(FilledIn(call, form), b))
<1> DEFINE F == FilledIn(call, form)
           q == buildRegistrationIQ(F, b)
<1>1. /\ {"username", "password"} \subseteq DOMAIN F
      /\ F["username"] = call.name /\ F["password"] = call.pw
  BY Zenon DEF FilledIn
<1> HIDE DEF F
<1>2. CASE b
  <2>1. q.classic = NoFields /\ q.form = F BY <1>2, Zenon DEF buildRegistrationIQ
  <2> HIDE DEF q
  <2>2. /\ extractFields(q)["username"] = call.name /\ extractFields(q)["password"] = call.pw
        /\ {"username", "password"} \subseteq DOMAIN extractFields(q)
    BY <1>1, <2>1, Zenon DEF extractFields
  <2>3. Named(q) BY <2>2, Zenon DEF Named, Get
  <2> QED BY <2>3, Zenon DEF q, F
<1>3. CASE ~b
  <2>1. q.form = NoFields /\ q.classic = [f \in DOMAIN F \cap Classic |-> F[f]]
    BY <1>3, Zenon DEF buildRegistrationIQ
  <2>2. /\ {"username", "password"} \subseteq DOMAIN q.classic /\ DOMAIN q.form = {}
        /\ q.classic["username"] = call.name /\ q.classic["password"] = call.pw
    BY <1>1, <2>1, Zenon DEF Classic, NoFields
  <2> HIDE DEF q
  <2>3. DOMAIN extractFields(q) = {x \in DOMAIN q.classic : q.classic[x] # ""}
    BY <2>2, Zenon DEF extractFields
  <2>4. \A x \in DOMAIN extractFields(q) : extractFields(q)[x] = q.classic[x]
    BY <2>2, Zenon DEF extractFields
  <2>5. Get(extractFields(q), "username") = call.name /\ Get(extractFields(q), "password") = call.pw
    BY <2>2, <2>3, <2>4, Zenon DEF Get
  <2>6. Named(q) BY <2>5, Zenon DEF Named
  <2> QED BY <2>6, Zenon DEF q, F
<1> QED BY <1>2, <1>3, Zenon
-----------------------------------------------------------------------------
\* What a step of one connection that leaves the store alone may change.
Follows(o, c, d) ==
    /\ DOMAIN d = DOMAIN c /\ UpOK(d.up) /\ PeerInv(d)
    /\ d.call = c.call /\ d.req = c.req /\ d.outcome = c.outcome
    /\ d.account = c.account /\ d.todo = c.todo
    /\ d.sat = c.sat \/ d.sat = "end" \/ (o = "ok" /\ d.sat \in {"loop", "fall"})

\* A connection that goes on in such a way keeps what is known of it.
LEMMA FollowsKeeps ==
  ASSUME NEW s, NEW u, NEW g, NEW o, NEW i, NEW c, NEW d,
         ConnInv(s, u, g, o, i, c), Follows(o, c, d)
  PROVE  ConnInv(s, u, g, o, i, d)
<1>1. NameOf(d) = NameOf(c) /\ PwOf(d) = PwOf(c) BY DEF NameOf, PwOf, Follows
<1>2. DOMAIN d = ConnFields /\ d.call \in s.calls /\ UpOK(d.up) /\ PeerInv(d) /\ (Served(d) => o = "ok")
  BY DEF ConnInv, Follows, Served
<1>3. NameInv(d) BY <1>1, Zenon DEF ConnInv, NameInv, Follows
<1>4. SeedInv(s, u, g, o, d) BY DEF ConnInv, SeedInv, Follows, Seeds
<1>5. WinInv(u, g, i, d) BY <1>1, Zenon DEF ConnInv, WinInv, Follows
<1>6. DeleteInv(u, g, d) BY <1>1 DEF ConnInv, DeleteInv, Follows
<1> QED BY <1>2, <1>3, <1>4, <1>5, <1>6 DEF ConnInv

\* Sending, in either direction, closing and returning are such steps.
LEMMA Moves ==
  ASSUME NEW o, NEW c, DOMAIN c = ConnFields, UpOK(c.up), PeerInv(c)
  PROVE  /\ Follows(o, c, c)
         /\ \A m : Follows(o, c, Push(c, m)) /\ Push(c, m).sat = c.sat
         /\ \A m : Named(m) => Follows(o, c, Send(c, m))
         /\ \A t : Follows(o, c, Returned(c, t))
         /\ Follows(o, c, Ended(c))
<1> USE DEF Follows, ConnFields, PeerInv
<1>1. Follows(o, c, c) OBVIOUS
<1>2. ASSUME NEW m PROVE Follows(o, c, Push(c, m)) /\ Push(c, m).sat = c.sat BY DEF Push
<1>3. ASSUME NEW m, Named(m) PROVE Follows(o, c, Send(c, m))
  BY <1>3, UpAppend DEF Send
<1>4. ASSUME NEW t PROVE Follows(o, c, Returned(c, t)) BY DEF Returned
<1>5. Follows(o, c, Ended(c)) BY <1>2, UpEmpty DEF Ended
<1> QED BY <1>1, <1>2, <1>3, <1>4, <1>5

\* Steps that follow one another.
LEMMA FollowsOn ==
  ASSUME NEW o, NEW c, NEW d, NEW e, Follows(o, c, d), Follows(o, d, e)
  PROVE  Follows(o, c, e)
BY DEF Follows

\* A step of connection i leaves the invariant true if it does so for the
\* store, for i and for the others, and if no second session starts to seed.
LEMMA OneStep ==
  ASSUME Inv, NEW i \in 1..Len(conns), NEW d, Becomes(i, d), cfg' = cfg,
         StoreInv(cfg, users', gone', once'),
         \A j \in 1..Len(conns) : j # i => ConnInv(cfg, users', gone', once', j, conns[j]),
         ConnInv(cfg, users', gone', once', i, d),
         Seeds(d) => Seeds(conns[i]) \/ once # "running"
  PROVE  Inv'
<1>1. /\ IsSeq(conns') /\ Len(conns') = Len(conns) /\ conns'[i] = d
      /\ \A j \in 1..Len(conns) : j # i => conns'[j] = conns[j]
  <2>1. conns' = [conns EXCEPT ![i] = d] /\ IsSeq(conns) BY DEF Inv, Becomes
  <2>2. PICK S : conns \in Seq(S) BY <2>1 DEF IsSeq
  <2>3. conns \in Seq(S \cup {d}) BY <2>2, SeqGrows
  <2>4. conns' \in Seq(S \cup {d}) /\ Len(conns') = Len(conns) BY <2>1, <2>3
  <2> QED BY <2>1, <2>2, <2>4 DEF IsSeq
<1>2. \A j \in 1..Len(conns) : Seeds(conns[j]) => once = "running" BY DEF Inv, ConnInv, SeedInv
<1>3. \A j, k \in 1..Len(conns) : Seeds(conns'[j]) /\ Seeds(conns'[k]) => j = k
  BY <1>1, <1>2 DEF Inv
<1>4. \A j \in 1..Len(conns) : ConnInv(cfg, users', gone', once', j, conns'[j]) BY <1>1
<1> QED BY <1>1, <1>3, <1>4 DEF Inv

\* A step that leaves the store alone.
LEMMA QuietStep ==
  ASSUME Inv, NEW i \in 1..Len(conns), NEW d, Becomes(i, d), UNCHANGED <<cfg, users, gone, once>>,
         ConnInv(cfg, users, gone, once, i, d), Seeds(d) => Seeds(conns[i])
  PROVE  Inv'
BY OneStep DEF Inv

\* Such a step of one connection keeps the invariant.
LEMMA FollowsStep ==
  ASSUME Inv, NEW i \in 1..Len(conns), NEW d, Becomes(i, d), UNCHANGED <<cfg, users, gone, once>>,
         Follows(once, conns[i], d)
  PROVE  Inv'
<1>1. ConnInv(cfg, users, gone, once, i, d) BY FollowsKeeps DEF Inv
<1>2. Seeds(d) => Seeds(conns[i]) BY DEF Follows, Seeds
<1> QED BY <1>1, <1>2, QuietStep
-----------------------------------------------------------------------------
\* Every request of the flow is named.
LEMMA RequestNamed ==
  ASSUME Inv, NEW call \in cfg.calls, call.kind # "peer"
  PROVE  Named(Request(call))
<1>1. call.name \in Names \cup {""} /\ call.pw \in STRING
  BY ScenariosAreNamed, Zenon DEF Inv, StoreInv
<1>2. CASE call.kind = "fetch" BY <1>2, Zenon DEF Request, Query, Named
<1>3. CASE call.kind # "fetch" BY <1>1, <1>3, FlowNames, Zenon DEF Request
<1> QED BY <1>2, <1>3

\* The flow and its deadline touch no account (flow.go:202, 290).
LEMMA FlowKeeps ==
  ASSUME Inv, NEW i \in 1..Len(conns), Flow(i) \/ deadline(i)
  PROVE  Inv'
<1> DEFINE c == conns[i]
<1>0. DOMAIN c = ConnFields /\ UpOK(c.up) /\ PeerInv(c) /\ c.call \in cfg.calls
  BY DEF Inv, ConnInv
<1>1. CASE readStreamFeatures(i)
  <2>1. c.call.kind # "peer" BY <1>0, <1>1, Zenon DEF readStreamFeatures, Arrived, PeerInv
  <2>2. ASSUME NEW x \in {"proceed", "answer"}, NEW m, Named(m),
               Becomes(i, Send([Taken(i) EXCEPT !.at = x], m))
        PROVE  Inv'
    <3> DEFINE d == [Taken(i) EXCEPT !.at = x]
    <3>2. Follows(once, c, d) BY <1>0, <2>1 DEF Follows, Taken, ConnFields, PeerInv
    <3>3. DOMAIN d = ConnFields /\ UpOK(d.up) /\ PeerInv(d) BY <1>0, <3>2 DEF Follows
    <3> HIDE DEF d
    <3>4. Follows(once, d, Send(d, m)) BY <2>2, <3>3, Moves, Zenon
    <3>5. Follows(once, c, Send(d, m)) BY <3>2, <3>4, FollowsOn
    <3> QED BY <1>1, <2>2, <3>5, FollowsStep, Zenon DEF readStreamFeatures, d
  <2>3. Named(Msg("starttls")) BY Zenon DEF Named, Msg
  <2>4. Named(Request(c.call)) BY <1>0, <2>1, RequestNamed
  <2>5. Taken(i).call = c.call BY <1>0 DEF Taken, ConnFields
  <2> QED BY <1>1, <2>2, <2>3, <2>4, <2>5, Zenon DEF readStreamFeatures
<1>2. CASE upgradeToTLS(i)
  <2>1. c.call.kind # "peer" BY <1>0, <1>2 DEF upgradeToTLS, PeerInv
  <2>2. CASE Becomes(i, Send([Taken(i) EXCEPT !.at = "features2"], Msg("header")))
    <3> DEFINE d == [Taken(i) EXCEPT !.at = "features2"]
    <3>2. Follows(once, c, d) BY <1>0, <2>1 DEF Follows, Taken, ConnFields, PeerInv
    <3>3. DOMAIN d = ConnFields /\ UpOK(d.up) /\ PeerInv(d) BY <1>0, <3>2 DEF Follows
    <3> HIDE DEF d
    <3>4. Named(Msg("header")) BY Zenon DEF Named, Msg
    <3>5. Follows(once, d, Send(d, Msg("header"))) BY <3>3, <3>4, Moves, Zenon
    <3>6. Follows(once, c, Send(d, Msg("header"))) BY <3>2, <3>5, FollowsOn
    <3> QED BY <1>2, <2>2, <3>6, FollowsStep DEF upgradeToTLS, d
  <2>3. CASE Becomes(i, Returned(c, "error"))
    BY <1>0, <1>2, <2>3, Moves, FollowsStep, Zenon DEF upgradeToTLS
  <2> QED BY <1>2, <2>2, <2>3 DEF upgradeToTLS
<1>3. CASE readRegistrationForm(i)
  <2>1. PICK t : Becomes(i, Returned(c, t)) BY <1>3 DEF readRegistrationForm
  <2> QED BY <1>0, <1>3, <2>1, Moves, FollowsStep, Zenon DEF readRegistrationForm
<1>4. CASE readRegistrationResult(i)
  <2>1. PICK t : Becomes(i, Returned(c, t)) BY <1>4 DEF readRegistrationResult
  <2> QED BY <1>0, <1>4, <2>1, Moves, FollowsStep, Zenon DEF readRegistrationResult
<1>5. CASE readEOF(i) BY <1>0, <1>5, Moves, FollowsStep, Zenon DEF readEOF
<1>6. CASE deadline(i) BY <1>0, <1>6, Moves, FollowsStep, Zenon DEF deadline
<1> QED BY <1>1, <1>2, <1>3, <1>4, <1>5, <1>6 DEF Flow

\* A new connection has done nothing yet.
LEMMA DialKeeps == ASSUME Inv, NEW call \in cfg.calls, Dial(call) PROVE Inv'
<1> DEFINE d == NewConn(call)
<1>1. PICK S : conns \in Seq(S) BY DEF Inv, IsSeq
<1>2. conns \in Seq(S \cup {d}) BY <1>1, SeqGrows
<1>3. UpOK(<<Msg("header")>>)
  <2>1. Named(Msg("header")) BY Zenon DEF Named, Msg
  <2>2. UpOK(Append(<<>>, Msg("header"))) BY <2>1, UpEmpty, UpAppend, Zenon
  <2> QED BY <2>2
<1>4. ASSUME NEW n PROVE ConnInv(cfg, users, gone, once, n, d)
  <2>1. UpOK(d.up) BY <1>3, UpEmpty DEF NewConn
  <2> QED BY <2>1 DEF NewConn, ConnInv, ConnFields, PeerInv, Served, NameInv, SeedInv, Seeds,
                      WinInv, DeleteInv
<1>5. ~Seeds(d) BY DEF NewConn, Seeds
<1> HIDE DEF d
<1>6. conns' = Append(conns, d) /\ UNCHANGED <<cfg, users, gone, once>> BY DEF Dial, d
<1>7. /\ conns' \in Seq(S \cup {d}) /\ Len(conns') = Len(conns) + 1 /\ Len(conns) \in Nat
      /\ conns'[Len(conns) + 1] = d /\ \A j \in 1..Len(conns) : conns'[j] = conns[j]
  BY <1>2, <1>6
<1>8. Len(conns') \leq cfg.conns
  <2>1. cfg \in Scenarios BY DEF Inv, StoreInv
  <2>2. cfg.conns \in 0..MaxConns /\ MaxConns \in Nat BY <2>1, ScenariosAreNamed, Zenon
  <2>3. Len(conns) < cfg.conns BY DEF Dial
  <2> QED BY <1>7, <2>2, <2>3
<1>9. \A j \in 1..Len(conns') : ConnInv(cfg, users, gone, once, j, conns'[j])
  BY <1>4, <1>7 DEF Inv
<1>10. \A j, k \in 1..Len(conns') : Seeds(conns'[j]) /\ Seeds(conns'[k]) => j = k
  BY <1>5, <1>7 DEF Inv
<1> QED BY <1>6, <1>7, <1>8, <1>9, <1>10 DEF Inv, IsSeq

\* What a peer sends is named, and no more is known of it.
LEMMA PeerSendsKeeps == ASSUME Inv, NEW i \in 1..Len(conns), PeerSends(i) PROVE Inv'
<1> DEFINE c == conns[i]
<1>0. DOMAIN c = ConnFields /\ UpOK(c.up) /\ PeerInv(c) /\ c.call \in cfg.calls
  BY DEF Inv, ConnInv
<1>1. PICK req \in c.call.reqs : Becomes(i, Send(c, req)) BY DEF PeerSends
<1>2. c.call.kind = "peer" => Named(req)
  <2>1. cfg \in Scenarios BY DEF Inv, StoreInv
  <2> QED BY <1>0, <1>1, <2>1, ScenariosAreNamed, Zenon
<1>3. c.call.kind = "peer" BY <1>0 DEF PeerInv, PeerSends
<1> QED BY <1>0, <1>1, <1>2, <1>3, Moves, FollowsStep, Zenon DEF PeerSends

\* A cut loses what is under way.
LEMMA CutKeeps == ASSUME Inv, NEW i \in 1..Len(conns), Cut(i) PROVE Inv'
<1> DEFINE c == conns[i]
           d == [c EXCEPT !.cut = TRUE, !.up = <<>>, !.down = <<>>]
<1>0. DOMAIN c = ConnFields /\ PeerInv(c) BY DEF Inv, ConnInv
<1>1. Follows(once, c, d) BY <1>0, UpEmpty DEF Follows, ConnFields, PeerInv
<1>2. Becomes(i, d) /\ UNCHANGED <<cfg, users, gone, once>> BY DEF Cut
<1> HIDE DEF d
<1> QED BY <1>1, <1>2, FollowsStep

\* After a restart no session is left, so nothing depends on the seeding.
LEMMA RestartKeeps == ASSUME Inv, Restart PROVE Inv'
<1>1. PICK S : conns \in Seq(S) BY DEF Inv, IsSeq
<1>2. DOMAIN conns = 1..Len(conns) /\ Len(conns) \in Nat BY <1>1
<1>3. ASSUME NEW i \in 1..Len(conns)
      PROVE  ConnInv(cfg, users, gone, "no", i, conns'[i]) /\ conns'[i].sat = "end"
  <2> DEFINE c == conns[i]
             e == Ended(c)
             d == [e EXCEPT !.at = IF @ = "open" THEN "done" ELSE @]
  <2>1. DOMAIN c = ConnFields /\ UpOK(c.up) /\ PeerInv(c) /\ ConnInv(cfg, users, gone, once, i, c)
    BY DEF Inv, ConnInv
  <2>2. conns'[i] = IF c.sat = "end" THEN c ELSE d BY <1>2 DEF Restart
  <2>3. Follows(once, c, e) BY <2>1, Moves
  <2>4. e.sat = "end" BY <2>1 DEF Ended, Push, ConnFields
  <2>5. DOMAIN e = ConnFields BY <2>1, <2>3 DEF Follows
  <2> HIDE DEF e
  <2>6. Follows(once, e, d) /\ d.sat = "end"
    BY <2>3, <2>4, <2>5 DEF Follows, ConnFields, PeerInv
  <2>7. Follows(once, c, d) BY <2>3, <2>6, FollowsOn
  <2>8. ConnInv(cfg, users, gone, once, i, d) BY <2>1, <2>7, FollowsKeeps
  <2>9. ASSUME NEW x, ConnInv(cfg, users, gone, once, i, x), x.sat = "end"
        PROVE  ConnInv(cfg, users, gone, "no", i, x)
    BY <2>9 DEF ConnInv, Served, SeedInv, Seeds
  <2> HIDE DEF d
  <2> QED BY <2>1, <2>2, <2>6, <2>8, <2>9
<1>4. conns' \in Seq({conns'[i] : i \in 1..Len(conns)}) /\ Len(conns') = Len(conns)
  <2> DEFINE f(i) == IF conns[i].sat = "end" THEN conns[i]
                     ELSE [Ended(conns[i]) EXCEPT !.at = IF @ = "open" THEN "done" ELSE @]
  <2>1. conns' = [i \in 1..Len(conns) |-> f(i)] BY <1>2 DEF Restart
  <2> HIDE DEF f
  <2>2. conns' \in [1..Len(conns) -> {conns'[i] : i \in 1..Len(conns)}] BY <2>1
  <2> QED BY <1>2, <2>1, <2>2
<1>5. StoreInv(cfg, users, gone, "no") BY DEF Inv, StoreInv
<1>6. \A i \in 1..Len(conns) : ~Seeds(conns'[i]) BY <1>3 DEF Seeds
<1>7. IsSeq(conns') BY <1>4 DEF IsSeq
<1>8. once' = "no" /\ UNCHANGED <<cfg, users, gone>> BY DEF Restart
<1> QED BY <1>3, <1>4, <1>5, <1>6, <1>7, <1>8 DEF Inv
-----------------------------------------------------------------------------
\* What is settled stays so whatever the seeding has still to do.
LEMMA SeedKeeps ==
  ASSUME NEW s, NEW u, NEW g, NEW o, NEW c, NEW v, NEW h, SeedInv(s, u, g, o, c),
         s.seeds \in Seq(Names), \A m \in Names : Settled(u, g, m) => Settled(v, h, m)
  PROVE  SeedInv(s, v, h, o, c)
<1> SUFFICES ASSUME Seeds(c), NEW k \in 1..(Len(s.seeds) - Len(c.todo)) PROVE Settled(v, h, s.seeds[k])
  BY Zenon DEF SeedInv, Progress
<1>1. c.todo \in Seq(Names) /\ Settled(u, g, s.seeds[k]) BY Zenon DEF SeedInv, Progress
<1>2. Len(s.seeds) \in Nat /\ Len(c.todo) \in Nat BY <1>1
<1>3. k \in 1..Len(s.seeds) BY <1>2
<1>4. s.seeds[k] \in Names BY <1>3
<1> QED BY <1>1, <1>4

\* The head of todo is the next account of seeds.
LEMMA SeedHead ==
  ASSUME NEW seeds \in Seq(Names), NEW u, NEW g, NEW todo, Progress(seeds, u, g, todo), todo # <<>>
  PROVE  Head(todo) \in Names /\ \E k \in 1..Len(seeds) : Head(todo) = seeds[k]
<1> DEFINE N == Len(seeds)
           T == Len(todo)
<1>1. todo \in Seq(Names) BY DEF Progress
<1>2. N \in Nat /\ T \in Nat /\ T # 0 /\ T \leq N /\ Head(todo) = todo[1] /\ Head(todo) \in Names
  BY <1>1 DEF Progress
<1>3. \A k \in 1..T : todo[k] = seeds[N - T + k] BY DEF Progress
<1> HIDE DEF N, T
<1>4. 1 \in 1..T /\ N - T + 1 \in 1..N BY <1>2
<1>5. todo[1] = seeds[N - T + 1] BY <1>3, <1>4
<1> QED BY <1>2, <1>4, <1>5 DEF N

\* Once it is settled, the seeding has come to the one after it.
LEMMA SeedTail ==
  ASSUME NEW seeds \in Seq(Names), NEW u, NEW g, NEW todo, Progress(seeds, u, g, todo), todo # <<>>,
         Settled(u, g, Head(todo))
  PROVE  Progress(seeds, u, g, Tail(todo))
<1> DEFINE N == Len(seeds)
           T == Len(todo)
           rest == Tail(todo)
           R == Len(rest)
<1>1. todo \in Seq(Names) BY DEF Progress
<1>2. N \in Nat /\ T \in Nat /\ T # 0 /\ T \leq N /\ Head(todo) = todo[1] BY <1>1 DEF Progress
<1>3. rest \in Seq(Names) /\ R = T - 1 /\ \A k \in 1..R : rest[k] = todo[k + 1] BY <1>1
<1>4. \A k \in 1..T : todo[k] = seeds[N - T + k] BY DEF Progress
<1>5. \A k \in 1..(N - T) : Settled(u, g, seeds[k]) BY DEF Progress
<1> HIDE DEF N, T, rest, R
<1>6. ASSUME NEW k \in 1..R PROVE rest[k] = seeds[N - R + k]
  <2>1. k + 1 \in 1..T /\ N - T + (k + 1) = N - R + k BY <1>2, <1>3
  <2> QED BY <1>3, <1>4, <2>1
<1>7. Settled(u, g, seeds[N - T + 1])
  <2>1. 1 \in 1..T BY <1>2
  <2> QED BY <1>2, <1>4, <2>1
<1>8. ASSUME NEW k \in 1..(N - R) PROVE Settled(u, g, seeds[k])
  <2>1. k \in 1..(N - T) \/ k = N - T + 1 BY <1>2, <1>3
  <2> QED BY <1>5, <1>7, <2>1
<1>9. R \leq N BY <1>2, <1>3
<1> QED BY <1>3, <1>6, <1>8, <1>9 DEF Progress, N, R, rest

TakesAway(u, g, n, v, h) == v = [u EXCEPT ![n] = NoUser] /\ h = g \cup {<<n, u[n].by>>}
Put(u, n, a, v) == v = [u EXCEPT ![n] = a]

\* An account that is created where there was none, by the seeding or after
\* it, disturbs nobody (CreateUser of the stores).
LEMMA CreateStore ==
  ASSUME NEW s, NEW u, NEW g, NEW o, StoreInv(s, u, g, o),
         NEW n \in Names, u[n] = NoUser, NEW a \in Account, a.by = 0 \/ o = "ok",
         NEW v, Put(u, n, a, v)
  PROVE  StoreInv(s, v, g, o)
<1>1. a # NoUser BY ScenariosAreNamed, Zenon
<1>2. s.seeds \in Seq(Names) BY ScenariosAreNamed, Zenon DEF StoreInv
<1>3. v \in [Names -> Account \cup {NoUser}] BY DEF StoreInv, Put
<1>4. v[n] = a /\ \A m \in Names : m # n => v[m] = u[m] BY DEF StoreInv, Put
<1>5. ASSUME NEW k \in 1..Len(s.seeds)
      PROVE  /\ o = "ok" => Settled(v, g, s.seeds[k])
             /\ v[s.seeds[k]] # NoUser => Settled(v, g, s.seeds[k])
  <2>1. s.seeds[k] \in Names BY <1>2
  <2>2. /\ o = "ok" => Settled(u, g, s.seeds[k])
        /\ u[s.seeds[k]] # NoUser => Settled(u, g, s.seeds[k])
    BY DEF StoreInv
  <2> QED BY <1>1, <1>4, <2>1, <2>2 DEF Settled
<1> QED BY <1>3, <1>5 DEF StoreInv

\* What is known of each connection survives it.
LEMMA CreateConn ==
  ASSUME NEW s, NEW u, NEW g, NEW o, StoreInv(s, u, g, o),
         NEW n \in Names, u[n] = NoUser, NEW a \in Account, a.by = 0 \/ o = "ok",
         NEW v, Put(u, n, a, v),
         NEW i \in 1..MaxConns, NEW c, ConnInv(s, u, g, o, i, c)
  PROVE  ConnInv(s, v, g, o, i, c)
<1>1. a # NoUser BY ScenariosAreNamed, Zenon
<1>2. s.seeds \in Seq(Names) BY ScenariosAreNamed, Zenon DEF StoreInv
<1>3. v[n] = a /\ \A m \in Names : m # n => v[m] = u[m] BY DEF StoreInv, Put
<1>4. SeedInv(s, v, g, o, c)
  <2>1. \A m \in Names : Settled(u, g, m) => Settled(v, g, m) BY <1>3 DEF Settled
  <2> QED BY <1>2, <2>1, SeedKeeps DEF ConnInv
<1>5. WinInv(v, g, i, c)
  <2>1. c.outcome = "registered" => [pw |-> PwOf(c), by |-> i] \in Account
    <3>0. MaxConns \in Nat BY ScenariosAreNamed, Zenon
    <3>1. i \in 0..MaxConns BY <3>0
    <3>2. c.outcome = "registered" => PwOf(c) \in STRING BY DEF ConnInv, NameInv
    <3> QED BY <3>1, <3>2 DEF Account
  <2>2. c.outcome = "registered" => [pw |-> PwOf(c), by |-> i] # NoUser
    BY <2>1, ScenariosAreNamed, Zenon
  <2> QED BY <1>1, <1>3, <2>2, Zenon DEF ConnInv, NameInv, WinInv
<1>6. DeleteInv(v, g, c) BY <1>3, Zenon DEF ConnInv, NameInv, DeleteInv
<1> QED BY <1>4, <1>5, <1>6 DEF ConnInv

\* Neither does one that is removed, once it is on record.
LEMMA DeleteStore ==
  ASSUME NEW s, NEW u, NEW g, NEW o, StoreInv(s, u, g, o),
         NEW n \in Names, u[n] # NoUser,
         NEW v, NEW h, TakesAway(u, g, n, v, h)
  PROVE  StoreInv(s, v, h, o)
<1>1. u[n] \in Account BY DEF StoreInv
<1>2. s.seeds \in Seq(Names) BY ScenariosAreNamed, Zenon DEF StoreInv
<1>3. v \in [Names -> Account \cup {NoUser}] /\ h \subseteq Names \X (0..MaxConns)
  BY <1>1 DEF StoreInv, Account, TakesAway
<1>4. v[n] = NoUser /\ \A m \in Names : m # n => v[m] = u[m] BY DEF StoreInv, TakesAway
<1>5. \A m \in Names : Settled(u, g, m) => Settled(v, h, m) BY <1>4 DEF Settled, TakesAway
<1>6. \A k \in 1..Len(s.seeds) : s.seeds[k] \in Names BY <1>2
<1> QED BY <1>3, <1>4, <1>5, <1>6 DEF StoreInv

\* What is known of each connection survives that too.
LEMMA DeleteConn ==
  ASSUME NEW s, NEW u, NEW g, NEW o, StoreInv(s, u, g, o),
         NEW n \in Names, u[n] # NoUser,
         NEW v, NEW h, TakesAway(u, g, n, v, h),
         NEW i, NEW c, ConnInv(s, u, g, o, i, c)
  PROVE  ConnInv(s, v, h, o, i, c)
<1>1. u[n] \in Account /\ u[n].by \in 0..MaxConns BY DEF StoreInv, Account
<1>2. s.seeds \in Seq(Names) BY ScenariosAreNamed, Zenon DEF StoreInv
<1>3. v[n] = NoUser /\ \A m \in Names : m # n => v[m] = u[m] BY DEF StoreInv, TakesAway
<1>4. SeedInv(s, v, h, o, c)
  <2>1. \A m \in Names : Settled(u, g, m) => Settled(v, h, m) BY <1>3 DEF Settled, TakesAway
  <2> QED BY <1>2, <2>1, SeedKeeps DEF ConnInv
<1>5. WinInv(v, h, i, c)
  <2>1. c.outcome = "registered" =>
          v[NameOf(c)] = [pw |-> PwOf(c), by |-> i] \/ <<NameOf(c), i>> \in h
    BY <1>3 DEF ConnInv, NameInv, WinInv, TakesAway
  <2>2. c.outcome = "user already exists" =>
          v[NameOf(c)] # NoUser \/ \E by \in 0..MaxConns : <<NameOf(c), by>> \in h
    BY <1>1, <1>3, Zenon DEF ConnInv, NameInv, WinInv, TakesAway
  <2> QED BY <2>1, <2>2, Zenon DEF WinInv
<1>6. DeleteInv(v, h, c) BY <1>3, Zenon DEF ConnInv, NameInv, DeleteInv, TakesAway
<1> QED BY <1>4, <1>5, <1>6 DEF ConnInv
-----------------------------------------------------------------------------
\* A decision keeps what is known of a connection if it is true of the store.
LEMMA DecidedKeeps ==
  ASSUME NEW s, NEW u, NEW g, NEW i, NEW c, ConnInv(s, u, g, "ok", i, c), NEW x,
         x \in {"registered", "user already exists"} => NameOf(c) \in Names /\ PwOf(c) \in STRING,
         x = "registered" => u[NameOf(c)] = [pw |-> PwOf(c), by |-> i],
         x = "user already exists" => u[NameOf(c)] # NoUser
  PROVE  ConnInv(s, u, g, "ok", i, Decided(c, x)) /\ ~Seeds(Decided(c, x))
<1> DEFINE d == Decided(c, x)
<1>1. DOMAIN c = ConnFields BY Zenon DEF ConnInv
<1>2. /\ DOMAIN d = ConnFields /\ d.call = c.call /\ d.up = c.up /\ d.down = c.down /\ d.at = c.at
      /\ d.req = c.req /\ d.sat = "answer" /\ d.outcome = x
  BY <1>1, Zenon DEF Decided, ConnFields
<1> HIDE DEF d
<1>3. NameOf(d) = NameOf(c) /\ PwOf(d) = PwOf(c) BY <1>2, Zenon DEF NameOf, PwOf
<1>4. d.call \in s.calls /\ UpOK(d.up) /\ PeerInv(d) BY <1>2, Zenon DEF ConnInv, PeerInv
<1>5. NameInv(d) BY <1>2, <1>3, Zenon DEF NameInv
<1>6. SeedInv(s, u, g, "ok", d) /\ ~Seeds(d) BY <1>2, Zenon DEF SeedInv, Seeds
<1>7. WinInv(u, g, i, d) BY <1>2, <1>3, Zenon DEF WinInv
<1>8. DeleteInv(u, g, d) BY <1>2, Zenon DEF DeleteInv
<1>9. ConnInv(s, u, g, "ok", i, d) BY <1>2, <1>4, <1>5, <1>6, <1>7, <1>8, Zenon DEF ConnInv
<1> QED BY <1>6, <1>9, Zenon DEF d

\* A decision other than these two needs nothing of the store.
LEMMA DecidedStep ==
  ASSUME Inv, NEW i \in 1..Len(conns), once = "ok", NEW x, Becomes(i, Decided(conns[i], x)),
         x # "registered" /\ x # "user already exists", UNCHANGED <<cfg, users, gone, once>>
  PROVE  Inv'
<1>1. ConnInv(cfg, users, gone, "ok", i, conns[i]) BY Zenon DEF Inv
<1>2. ConnInv(cfg, users, gone, "ok", i, Decided(conns[i], x)) /\ ~Seeds(Decided(conns[i], x))
  BY <1>1, DecidedKeeps, Zenon
<1> QED BY <1>2, QuietStep, Zenon

\* UserExists finds the name taken or free (registration.go:173).
LEMMA UserExistsKeeps == ASSUME Inv, NEW i \in 1..Len(conns), UserExists(i) PROVE Inv'
<1> DEFINE c == conns[i]
<1>0. ConnInv(cfg, users, gone, once, i, c) /\ c.sat = "exists" BY Zenon DEF Inv, UserExists
<1>1. once = "ok" /\ NameOf(c) \in Names /\ PwOf(c) \in STRING BY <1>0, Zenon DEF ConnInv, Served, NameInv
<1>2. UNCHANGED <<cfg, users, gone, once>> BY Zenon DEF UserExists
<1>3. CASE users[NameOf(c)] # NoUser /\ Becomes(i, Decided(c, "user already exists"))
  <2>1. /\ ConnInv(cfg, users, gone, "ok", i, Decided(c, "user already exists"))
        /\ ~Seeds(Decided(c, "user already exists"))
    BY <1>0, <1>1, <1>3, DecidedKeeps, Zenon
  <2> QED BY <1>1, <1>2, <1>3, <2>1, QuietStep, Zenon
<1>4. CASE Becomes(i, [c EXCEPT !.sat = "create"])
  <2> DEFINE d == [c EXCEPT !.sat = "create"]
  <2>1. /\ DOMAIN d = ConnFields /\ d.call = c.call /\ d.up = c.up /\ d.down = c.down /\ d.at = c.at
        /\ d.req = c.req /\ d.sat = "create" /\ d.outcome = c.outcome
    BY <1>0 DEF ConnInv, ConnFields
  <2> HIDE DEF d
  <2>2. NameOf(d) = NameOf(c) /\ PwOf(d) = PwOf(c) BY <2>1 DEF NameOf, PwOf
  <2>3. ConnInv(cfg, users, gone, once, i, d)
    BY <1>0, <1>1, <2>1, <2>2, Zenon DEF ConnInv, PeerInv, NameInv, SeedInv, Seeds, WinInv, DeleteInv
  <2>4. ~Seeds(d) BY <2>1 DEF Seeds
  <2> QED BY <1>2, <1>4, <2>3, <2>4, QuietStep DEF d
<1>5. CASE Becomes(i, Decided(c, "user lookup failed"))
  BY <1>1, <1>2, <1>5, DecidedStep, Zenon
<1> QED BY <1>3, <1>4, <1>5, Zenon DEF UserExists

\* CreateUser gives a name that is free to one request (registration.go:193).
LEMMA CreateUserKeeps == ASSUME Inv, NEW i \in 1..Len(conns), CreateUser(i) PROVE Inv'
<1> DEFINE c == conns[i]
           n == NameOf(c)
           a == [pw |-> PwOf(c), by |-> i]
<1>0. ConnInv(cfg, users, gone, once, i, c) /\ c.sat = "create" BY Zenon DEF Inv, CreateUser
<1>1. once = "ok" /\ n \in Names /\ PwOf(c) \in STRING BY <1>0, Zenon DEF ConnInv, Served, NameInv
<1>2. UNCHANGED <<cfg, gone, once>> BY Zenon DEF CreateUser
<1>3. StoreInv(cfg, users, gone, "ok") BY <1>1 DEF Inv
<1>4. MaxConns \in Nat /\ 1..Len(conns) \subseteq 1..MaxConns
  <2>1. PICK S : conns \in Seq(S) BY DEF Inv, IsSeq
  <2>2. Len(conns) \in Nat /\ Len(conns) \leq cfg.conns BY <2>1 DEF Inv
  <2>3. cfg.conns \in 0..MaxConns /\ MaxConns \in Nat BY <1>3, ScenariosAreNamed, Zenon DEF StoreInv
  <2> QED BY <2>2, <2>3
<1>5. a \in Account
  <2>1. i \in 0..MaxConns BY <1>4
  <2> QED BY <1>1, <2>1 DEF Account
<1>6. ASSUME users[n] = NoUser, Create(i), NEW x \in {"registered", "user create failed"},
             Becomes(i, Decided(c, x))
      PROVE  Inv'
  <2>1. Put(users, n, a, users') /\ users' = [users EXCEPT ![n] = a] BY <1>6, Zenon DEF Create, Put
  <2> HIDE DEF a, n
  <2>2. StoreInv(cfg, users', gone, "ok") BY <1>1, <1>3, <1>5, <1>6, <2>1, CreateStore, Zenon
  <2>3. ASSUME NEW j \in 1..Len(conns) PROVE ConnInv(cfg, users', gone, "ok", j, conns[j])
    <3>1. j \in 1..MaxConns BY <1>4, Zenon
    <3>2. ConnInv(cfg, users, gone, "ok", j, conns[j]) BY <1>1, Zenon DEF Inv
    <3> QED BY <1>1, <1>3, <1>5, <1>6, <2>1, <3>1, <3>2, CreateConn, Zenon
  <2>4. users'[n] = a BY <1>1, <1>3, <2>1, Zenon DEF StoreInv
  <2>5. /\ ConnInv(cfg, users', gone, "ok", i, Decided(c, x)) /\ ~Seeds(Decided(c, x))
    <3>1. x # "user already exists" BY <1>6, Zenon
    <3>2. users'[NameOf(c)] = [pw |-> PwOf(c), by |-> i] BY <2>4, Zenon DEF n, a
    <3>3. NameOf(c) \in Names /\ PwOf(c) \in STRING BY <1>1, Zenon DEF n
    <3>4. ConnInv(cfg, users', gone, "ok", i, c) BY <2>3, Zenon
    <3> QED BY <3>1, <3>2, <3>3, <3>4, DecidedKeeps, Zenon
  <2> QED BY <1>1, <1>2, <1>6, <2>2, <2>3, <2>5, OneStep, Zenon
<1>7. CASE users[n] # NoUser /\ Becomes(i, Decided(c, "user already exists")) /\ UNCHANGED users
  <2>1. /\ ConnInv(cfg, users, gone, "ok", i, Decided(c, "user already exists"))
        /\ ~Seeds(Decided(c, "user already exists"))
    BY <1>0, <1>1, <1>7, DecidedKeeps, Zenon
  <2> QED BY <1>1, <1>2, <1>7, <2>1, QuietStep, Zenon
<1>8. CASE Becomes(i, Decided(c, "password hashing failed")) /\ UNCHANGED users
  BY <1>1, <1>2, <1>8, DecidedStep, Zenon
<1>9. CASE Becomes(i, Decided(c, "user create failed")) /\ UNCHANGED users
  BY <1>1, <1>2, <1>9, DecidedStep, Zenon
<1> QED BY <1>6, <1>7, <1>8, <1>9, Zenon DEF CreateUser

\* Authenticate remembers whose account it was (registration.go:212).
LEMMA AuthenticateKeeps == ASSUME Inv, NEW i \in 1..Len(conns), Authenticate(i) PROVE Inv'
<1> DEFINE c == conns[i]
           user == users[NameOf(c)]
<1>0. ConnInv(cfg, users, gone, once, i, c) /\ c.sat = "auth" BY Zenon DEF Inv, Authenticate
<1>1. once = "ok" /\ NameOf(c) \in Names /\ PwOf(c) \in STRING BY <1>0, Zenon DEF ConnInv, Served, NameInv
<1>2. UNCHANGED <<cfg, users, gone, once>> BY Zenon DEF Authenticate
<1>3. CASE /\ user # NoUser /\ user.pw = PwOf(c)
           /\ Becomes(i, [c EXCEPT !.sat = "delete", !.account = user.by])
  <2> DEFINE d == [c EXCEPT !.sat = "delete", !.account = user.by]
  <2>1. /\ DOMAIN d = ConnFields /\ d.call = c.call /\ d.up = c.up /\ d.down = c.down /\ d.at = c.at
        /\ d.req = c.req /\ d.sat = "delete" /\ d.outcome = c.outcome /\ d.account = user.by
    BY <1>0 DEF ConnInv, ConnFields
  <2> HIDE DEF d
  <2>2. NameOf(d) = NameOf(c) /\ PwOf(d) = PwOf(c) BY <2>1 DEF NameOf, PwOf
  <2>3. DeleteInv(users, gone, d) BY <1>3, <2>1, <2>2 DEF DeleteInv
  <2>4. ConnInv(cfg, users, gone, once, i, d)
    BY <1>0, <1>1, <2>1, <2>2, <2>3, Zenon DEF ConnInv, PeerInv, NameInv, SeedInv, Seeds, WinInv
  <2>5. ~Seeds(d) BY <2>1 DEF Seeds
  <2> QED BY <1>2, <1>3, <2>4, <2>5, QuietStep DEF d
<1>4. CASE Becomes(i, Decided(c, "authentication failed"))
  BY <1>1, <1>2, <1>4, DecidedStep, Zenon
<1> QED BY <1>3, <1>4, Zenon DEF Authenticate

\* DeleteUser puts the account that has the name on record (registration.go:216).
LEMMA DeleteUserKeeps == ASSUME Inv, NEW i \in 1..Len(conns), DeleteUser(i) PROVE Inv'
<1> DEFINE c == conns[i]
           n == NameOf(c)
<1>0. ConnInv(cfg, users, gone, once, i, c) /\ c.sat = "delete" BY Zenon DEF Inv, DeleteUser
<1>1. once = "ok" /\ n \in Names BY <1>0, Zenon DEF ConnInv, Served, NameInv
<1>2. UNCHANGED <<cfg, once>> BY Zenon DEF DeleteUser
<1>3. StoreInv(cfg, users, gone, "ok") BY <1>1 DEF Inv
<1>4. ASSUME users[n] # NoUser, Delete(n), NEW x \in {"removed", "user delete failed"},
             Becomes(i, Decided(c, x))
      PROVE  Inv'
  <2>1. TakesAway(users, gone, n, users', gone') BY <1>4, Zenon DEF Delete, TakesAway
  <2> HIDE DEF n
  <2>2. StoreInv(cfg, users', gone', "ok") BY <1>1, <1>3, <1>4, <2>1, DeleteStore, Zenon
  <2>3. ASSUME NEW j \in 1..Len(conns) PROVE ConnInv(cfg, users', gone', "ok", j, conns[j])
    <3>1. ConnInv(cfg, users, gone, "ok", j, conns[j]) BY <1>1, Zenon DEF Inv
    <3> QED BY <1>1, <1>3, <1>4, <2>1, <3>1, DeleteConn, Zenon
  <2>4. /\ ConnInv(cfg, users', gone', "ok", i, Decided(c, x)) /\ ~Seeds(Decided(c, x))
    <3>1. x # "user already exists" /\ x # "registered" BY <1>4, Zenon
    <3>2. ConnInv(cfg, users', gone', "ok", i, c) BY <2>3, Zenon
    <3> QED BY <3>1, <3>2, DecidedKeeps, Zenon
  <2> QED BY <1>1, <1>2, <1>4, <2>2, <2>3, <2>4, OneStep, Zenon
<1>5. CASE Becomes(i, Decided(c, "user delete failed")) /\ UNCHANGED <<users, gone>>
  BY <1>1, <1>2, <1>5, DecidedStep, Zenon
<1> QED BY <1>4, <1>5, Zenon DEF DeleteUser

\* The stream and the replies touch no account (stream.go:144).
LEMMA StreamKeeps ==
  ASSUME Inv, NEW i \in 1..Len(conns),
         \/ writeStreamFeatures(i) \/ handleStartTLS(i) \/ serveStreamEnds(i)
         \/ SendReply(i) \/ handleIQ(i)
  PROVE  Inv'
<1> DEFINE c == conns[i]
<1>0. DOMAIN c = ConnFields /\ UpOK(c.up) /\ PeerInv(c) /\ (Served(c) => once = "ok") BY Zenon DEF Inv, ConnInv
<1>1. ASSUME NEW types, Received(i, types)
      PROVE  Follows(once, c, Read(i)) /\ Follows(once, c, [Read(i) EXCEPT !.secure = TRUE])
  <2>1. UpOK(Tail(c.up)) BY <1>0, <1>1, UpTail, Zenon DEF Received
  <2> QED BY <1>0, <2>1 DEF Read, Follows, ConnFields, PeerInv
<1>2. ASSUME NEW d, Follows(once, c, d), NEW m, Becomes(i, Push(d, m)), UNCHANGED <<cfg, users, gone, once>>
      PROVE  Inv'
  <2>1. DOMAIN d = ConnFields /\ UpOK(d.up) /\ PeerInv(d) BY <1>0, <1>2 DEF Follows
  <2>2. Follows(once, d, Push(d, m)) BY <2>1, Moves, Zenon
  <2>3. Follows(once, c, Push(d, m)) BY <1>2, <2>2, FollowsOn
  <2> QED BY <1>2, <2>3, FollowsStep
<1>3. CASE writeStreamFeatures(i) BY <1>1, <1>2, <1>3, Zenon DEF writeStreamFeatures
<1>4. CASE handleStartTLS(i) BY <1>1, <1>2, <1>4, Zenon DEF handleStartTLS
<1>5. CASE serveStreamEnds(i) BY <1>0, <1>5, Moves, FollowsStep DEF serveStreamEnds
<1>6. ASSUME NEW m, NEW x \in {"loop", "fall"}, Served(c), Sends(i, m, x),
             UNCHANGED <<cfg, users, gone, once>>
      PROVE  Inv'
  <2>1. CASE Becomes(i, [Push(c, m) EXCEPT !.sat = x])
    <3> DEFINE e == Push(c, m)
    <3>1. Follows(once, c, e) BY <1>0, Moves, Zenon
    <3>2. DOMAIN e = ConnFields BY <1>0, <3>1 DEF Follows
    <3> HIDE DEF e
    <3>3. Follows(once, c, [e EXCEPT !.sat = x])
      BY <1>0, <1>6, <3>1, <3>2 DEF Follows, ConnFields, PeerInv
    <3> QED BY <1>6, <2>1, <3>3, FollowsStep DEF e
  <2>2. CASE Becomes(i, Ended(c)) BY <1>0, <1>6, <2>2, Moves, FollowsStep
  <2> QED BY <1>6, <2>1, <2>2 DEF Sends
<1>7. CASE SendReply(i)
  <2>1. Served(c) BY <1>7, Zenon DEF SendReply, Served
  <2> QED BY <1>6, <1>7, <2>1 DEF SendReply
<1>8. CASE handleIQ(i)
  <2>1. Served(c) BY <1>8 DEF handleIQ, Served
  <2> QED BY <1>6, <1>8, <2>1 DEF handleIQ
<1> QED BY <1>3, <1>4, <1>5, <1>7, <1>8

\* The handler lets a request to the store only with a name and a password
\* (registration.go:137).
LEMMA HandleKeeps == ASSUME Inv, NEW i \in 1..Len(conns), Handle(i) PROVE Inv'
<1> DEFINE b == conns[i]
           c == [Read(i) EXCEPT !.req = Head(b.up), !.outcome = "",
                   !.items = Entries(b.items), !.log = Append(@, [at |-> now, ok |-> Allow(b.items)])]
<1>0. /\ DOMAIN b = ConnFields /\ UpOK(b.up) /\ PeerInv(b) /\ b.call \in cfg.calls
      /\ (Served(b) => once = "ok")
  BY DEF Inv, ConnInv
<1>1. b.sat = "loop" /\ b.up # <<>> /\ Head(b.up).type \in {"get", "set"} BY Zenon DEF Handle, Received
<1>2. once = "ok" BY <1>0, <1>1 DEF Served
<1>3. UpOK(Tail(b.up)) /\ Named(Head(b.up)) BY <1>0, <1>1, UpTail
<1>4. /\ DOMAIN c = ConnFields /\ c.call = b.call /\ c.up = Tail(b.up) /\ c.down = b.down /\ c.at = b.at
      /\ c.req = Head(b.up) /\ c.sat = "loop" /\ c.outcome = ""
  BY <1>0, <1>1 DEF Read, ConnFields
<1>5. Becomes(i, IF ~Allow(b.items) THEN Decided(c, "rate limit exceeded")
                 ELSE IF c.req.type = "get" THEN handleGet(c)
                 ELSE handleSet(c))
  BY Zenon DEF Handle
<1> HIDE DEF c
<1>6. ConnInv(cfg, users, gone, once, i, c)
  BY <1>0, <1>2, <1>3, <1>4, Zenon DEF ConnInv, PeerInv, NameInv, SeedInv, Seeds, WinInv, DeleteInv
<1>7. UNCHANGED <<cfg, users, gone, once>> BY Zenon DEF Handle
<1>8. ASSUME NEW x, Becomes(i, Decided(c, x)), x # "registered", x # "user already exists" PROVE Inv'
  <2>1. ConnInv(cfg, users, gone, "ok", i, Decided(c, x)) /\ ~Seeds(Decided(c, x))
    BY <1>2, <1>6, <1>8, DecidedKeeps, Zenon
  <2> QED BY <1>2, <1>7, <1>8, <2>1, QuietStep, Zenon
<1>9. ASSUME NEW y \in {"auth", "exists"}, Becomes(i, [c EXCEPT !.sat = y]), c.req.type # "get",
             Get(extractFields(c.req), "username") # ""
      PROVE  Inv'
  <2> DEFINE d == [c EXCEPT !.sat = y]
  <2>1. /\ DOMAIN d = ConnFields /\ d.call = c.call /\ d.up = c.up /\ d.down = c.down /\ d.at = c.at
        /\ d.req = c.req /\ d.sat = y /\ d.outcome = ""
    BY <1>4, Zenon DEF ConnFields
  <2> HIDE DEF d
  <2>2. NameOf(d) \in Names /\ PwOf(d) \in STRING
    BY <1>1, <1>3, <1>4, <1>9, <2>1, Zenon DEF Named, NameOf, PwOf
  <2>3. ConnInv(cfg, users, gone, once, i, d)
    BY <1>2, <1>6, <1>9, <2>1, <2>2, Zenon DEF ConnInv, PeerInv, NameInv, SeedInv, Seeds, WinInv, DeleteInv
  <2>4. ~Seeds(d) BY <1>9, <2>1, Zenon DEF Seeds
  <2> QED BY <1>7, <1>9, <2>3, <2>4, QuietStep, Zenon DEF d
<1>10. CASE ~Allow(b.items)
  <2>1. Becomes(i, Decided(c, "rate limit exceeded")) BY <1>5, <1>10, Zenon DEF Becomes
  <2> QED BY <1>8, <2>1, Zenon
<1>11. CASE Allow(b.items) /\ c.req.type = "get"
  <2> DEFINE x == IF cfg.policy = "closed" THEN "registration disabled" ELSE "form"
  <2>1. Becomes(i, Decided(c, x)) BY <1>5, <1>11, Zenon DEF Becomes, handleGet
  <2>2. x # "registered" /\ x # "user already exists" OBVIOUS
  <2> HIDE DEF x
  <2> QED BY <1>8, <2>1, <2>2, Zenon
<1>12. CASE Allow(b.items) /\ c.req.type # "get"
  <2>1. Becomes(i, handleSet(c)) BY <1>5, <1>12 DEF Becomes
  <2>2. \/ \E x : handleSet(c) = Decided(c, x) /\ x # "registered" /\ x # "user already exists"
        \/ \E y \in {"auth", "exists"} :
             handleSet(c) = [c EXCEPT !.sat = y] /\ Get(extractFields(c.req), "username") # ""
    BY Zenon DEF handleSet
  <2> QED BY <1>8, <1>9, <1>12, <2>1, <2>2, Zenon
<1> QED BY <1>10, <1>11, <1>12
-----------------------------------------------------------------------------
\* While nobody is served, what is known of a session that does not seed is
\* independent of the seeding.
LEMMA OnceMoves ==
  ASSUME NEW s, NEW u, NEW g, NEW o, NEW i, NEW c, ConnInv(s, u, g, o, i, c), o # "ok", ~Seeds(c), NEW p
  PROVE  ConnInv(s, u, g, p, i, c)
BY DEF ConnInv, SeedInv

\* The seeding goes from one account, once it is settled, to the next; after
\* the last all are (main.go:150).
LEMMA SeedingKeeps ==
  ASSUME NEW s, NEW u, NEW g, NEW o, StoreInv(s, u, g, o), NEW i, NEW c, ConnInv(s, u, g, o, i, c),
         o # "ok", NEW names, Progress(s.seeds, u, g, names)
  PROVE  /\ StoreInv(s, u, g, SeedState(names))
         /\ ConnInv(s, u, g, SeedState(names), i, Seeding(c, names))
<1> DEFINE d == Seeding(c, names)
<1>1. s.seeds \in Seq(Names) BY ScenariosAreNamed, Zenon DEF StoreInv
<1>2. StoreInv(s, u, g, SeedState(names))
  <2>1. CASE names = <<>>
    <3>1. Len(names) = 0 /\ Len(s.seeds) \in Nat BY <1>1, <2>1
    <3>2. \A k \in 1..(Len(s.seeds) - Len(names)) : Settled(u, g, s.seeds[k]) BY DEF Progress
    <3>3. \A k \in 1..Len(s.seeds) : Settled(u, g, s.seeds[k]) BY <3>1, <3>2
    <3> QED BY <3>3 DEF StoreInv
  <2>2. CASE names # <<>> BY <2>2 DEF StoreInv, SeedState
  <2> QED BY <2>1, <2>2
<1>3. /\ DOMAIN d = ConnFields /\ d.call = c.call /\ d.up = c.up /\ d.down = c.down /\ d.at = c.at
      /\ d.req = c.req /\ d.outcome = c.outcome /\ d.todo = names
      /\ d.sat = IF names = <<>> THEN "loop" ELSE "look"
  BY DEF Seeding, ConnInv, ConnFields
<1> HIDE DEF d
<1>4. NameOf(d) = NameOf(c) /\ PwOf(d) = PwOf(c) BY <1>3 DEF NameOf, PwOf
<1>5. SeedInv(s, u, g, SeedState(names), d) BY <1>3 DEF SeedInv, Seeds, SeedState
<1>6. Served(d) => SeedState(names) = "ok" BY <1>3 DEF Served, SeedState
<1>7. NameInv(d) /\ WinInv(u, g, i, d) /\ DeleteInv(u, g, d)
  BY <1>3, <1>4, Zenon DEF ConnInv, NameInv, WinInv, DeleteInv
<1>8. PeerInv(d) BY <1>3, Zenon DEF ConnInv, PeerInv
<1>9. ConnInv(s, u, g, SeedState(names), i, d) BY <1>3, <1>5, <1>6, <1>7, <1>8, Zenon DEF ConnInv
<1> QED BY <1>2, <1>9 DEF d

\* The first session seeds and the others are held back (main.go:76).
LEMMA SeedOnceKeeps == ASSUME Inv, NEW i \in 1..Len(conns), seedOnce(i) PROVE Inv'
<1> DEFINE c == conns[i]
<1>0. ConnInv(cfg, users, gone, once, i, c) /\ StoreInv(cfg, users, gone, once) BY DEF Inv
<1>1. DOMAIN c = ConnFields /\ UpOK(c.up) /\ PeerInv(c) BY <1>0 DEF ConnInv
<1>2. UNCHANGED <<cfg, users, gone>> BY DEF seedOnce
<1>3. CASE once = "no" /\ Becomes(i, Seeding(c, cfg.seeds)) /\ once' = SeedState(cfg.seeds)
  <2>1. cfg.seeds \in Seq(Names) BY <1>0, ScenariosAreNamed, Zenon DEF StoreInv
  <2>2. Len(cfg.seeds) \in Nat BY <2>1
  <2>3. Progress(cfg.seeds, users, gone, cfg.seeds) BY <2>1, <2>2 DEF Progress
  <2>4. /\ StoreInv(cfg, users, gone, once')
        /\ ConnInv(cfg, users, gone, once', i, Seeding(c, cfg.seeds))
    BY <1>0, <1>3, <2>3, SeedingKeeps
  <2>5. ASSUME NEW j \in 1..Len(conns) PROVE ConnInv(cfg, users, gone, once', j, conns[j])
    <3>1. ConnInv(cfg, users, gone, once, j, conns[j]) BY DEF Inv
    <3>2. ~Seeds(conns[j]) BY <1>3, <3>1, Zenon DEF ConnInv, SeedInv
    <3> QED BY <1>3, <3>1, <3>2, OnceMoves
  <2> QED BY <1>2, <1>3, <2>4, <2>5, OneStep
<1>4. CASE once = "ok" /\ Becomes(i, [c EXCEPT !.sat = "loop"]) /\ UNCHANGED once
  <2>1. Follows(once, c, [c EXCEPT !.sat = "loop"]) BY <1>1, <1>4 DEF Follows, ConnFields, PeerInv
  <2> QED BY <1>2, <1>4, <2>1, FollowsStep
<1>5. CASE Becomes(i, Ended(c)) /\ UNCHANGED once BY <1>1, <1>2, <1>5, Moves, FollowsStep
<1> QED BY <1>3, <1>4, <1>5 DEF seedOnce

\* Seeding creates accounts where there is none, and a failure ends it for
\* all sessions (main.go:150).
LEMMA SeedDefaultAccountsKeeps ==
  ASSUME Inv, NEW i \in 1..Len(conns), seedDefaultAccounts(i)
  PROVE  Inv'
<1> DEFINE c == conns[i]
           n == Head(c.todo)
           a == [pw |-> "seed", by |-> 0]
<1>0. ConnInv(cfg, users, gone, once, i, c) /\ StoreInv(cfg, users, gone, once) /\ Seeds(c)
  BY DEF Inv, seedDefaultAccounts, Seeds
<1>1. DOMAIN c = ConnFields /\ UpOK(c.up) /\ PeerInv(c) BY <1>0 DEF ConnInv
<1>2. UNCHANGED <<cfg, gone>> BY DEF seedDefaultAccounts
<1>3. once = "running" /\ c.todo # <<>> /\ Progress(cfg.seeds, users, gone, c.todo)
  BY <1>0 DEF ConnInv, SeedInv
<1>4. cfg.seeds \in Seq(Names) BY <1>0, ScenariosAreNamed, Zenon DEF StoreInv
<1>5. n \in Names /\ \E k \in 1..Len(cfg.seeds) : n = cfg.seeds[k] BY <1>3, <1>4, SeedHead
<1> DEFINE names == Tail(c.todo)
<1> HIDE DEF names, n, a
<1>9. ASSUME NEW j \in 1..Len(conns), j # i PROVE ~Seeds(conns[j]) BY <1>0, <1>9 DEF Inv
<1>10. MaxConns \in Nat /\ \A j \in 1..Len(conns) : j \in 1..MaxConns
  <2>1. PICK S : conns \in Seq(S) BY DEF Inv, IsSeq
  <2>2. Len(conns) \in Nat /\ Len(conns) \leq cfg.conns BY <2>1 DEF Inv
  <2>3. cfg.conns \in 0..MaxConns /\ MaxConns \in Nat BY <1>0, ScenariosAreNamed, Zenon DEF StoreInv
  <2> QED BY <2>2, <2>3
<1>11. a \in Account /\ a.by = 0
  <2>1. 0 \in 0..MaxConns BY <1>10
  <2> QED BY <2>1 DEF Account, a
<1>12. ASSUME users[n] = NoUser, Put(users, n, a, users')
       PROVE  /\ StoreInv(cfg, users', gone, once)
              /\ \A j \in 1..Len(conns) : ConnInv(cfg, users', gone, once, j, conns[j])
              /\ Settled(users', gone, n)
              /\ \A m \in Names : Settled(users, gone, m) => Settled(users', gone, m)
  <2>1. StoreInv(cfg, users', gone, once) BY <1>0, <1>5, <1>11, <1>12, CreateStore
  <2>2. ASSUME NEW j \in 1..Len(conns) PROVE ConnInv(cfg, users', gone, once, j, conns[j])
    <3>1. ConnInv(cfg, users, gone, once, j, conns[j]) /\ j \in 1..MaxConns BY <1>10 DEF Inv
    <3> QED BY <1>0, <1>5, <1>11, <1>12, <3>1, CreateConn
  <2>3. users'[n] = a /\ \A m \in Names : m # n => users'[m] = users[m]
    BY <1>0, <1>5, <1>12 DEF StoreInv, Put
  <2>4. a # NoUser BY <1>11, ScenariosAreNamed, Zenon
  <2> QED BY <1>11, <1>12, <2>1, <2>2, <2>3, <2>4 DEF Settled
<1>13. ASSUME Seeded(i), StoreInv(cfg, users', gone, once), Settled(users', gone, n),
              \A j \in 1..Len(conns) : ConnInv(cfg, users', gone, once, j, conns[j])
       PROVE  Inv'
  <2>1. Progress(cfg.seeds, users', gone, c.todo) BY <1>0, <1>13, Zenon DEF ConnInv, SeedInv
  <2>2. Progress(cfg.seeds, users', gone, names) BY <1>3, <1>4, <1>13, <2>1, SeedTail DEF n, names
  <2>4. ConnInv(cfg, users', gone, once, i, c) BY <1>13
  <2>5. /\ StoreInv(cfg, users', gone, SeedState(names))
        /\ ConnInv(cfg, users', gone, SeedState(names), i, Seeding(c, names))
    BY <1>3, <1>13, <2>2, <2>4, SeedingKeeps, Zenon
  <2>6. Becomes(i, Seeding(c, names)) /\ once' = SeedState(names) BY <1>13 DEF Seeded, names
  <2>7. \A j \in 1..Len(conns) : j # i => ConnInv(cfg, users', gone, once', j, conns[j])
    BY <1>3, <1>9, <1>13, OnceMoves
  <2> QED BY <1>0, <1>2, <2>5, <2>6, <2>7, OneStep
<1>14. ASSUME SeedFailed(i), StoreInv(cfg, users', gone, once),
              \A j \in 1..Len(conns) : ConnInv(cfg, users', gone, once, j, conns[j])
       PROVE  Inv'
  <2>1. Follows(once, c, Ended(c)) BY <1>1, Moves
  <2>2. Ended(c).sat = "end" BY <1>1 DEF Ended, Push, ConnFields
  <2>3. ~Seeds(Ended(c)) BY <2>2 DEF Seeds
  <2>4. ConnInv(cfg, users', gone, once, i, Ended(c)) BY <1>14, <2>1, FollowsKeeps
  <2>5. ConnInv(cfg, users', gone, "err", i, Ended(c)) BY <1>3, <2>3, <2>4, OnceMoves
  <2>6. \A j \in 1..Len(conns) : j # i => ConnInv(cfg, users', gone, "err", j, conns[j])
    BY <1>3, <1>9, <1>14, OnceMoves
  <2>7. StoreInv(cfg, users', gone, "err") BY <1>14 DEF StoreInv
  <2>8. Becomes(i, Ended(c)) /\ once' = "err" BY <1>14 DEF SeedFailed
  <2> QED BY <1>2, <2>3, <2>5, <2>6, <2>7, <2>8, OneStep
<1>15. UNCHANGED users => /\ StoreInv(cfg, users', gone, once)
                          /\ \A j \in 1..Len(conns) : ConnInv(cfg, users', gone, once, j, conns[j])
  BY DEF Inv
<1>16. CASE users[n] # NoUser /\ Seeded(i) /\ UNCHANGED users
  <2>2. Settled(users, gone, n) BY <1>0, <1>5, <1>16 DEF StoreInv
  <2>3. Settled(users', gone, n) BY <1>16, <2>2
  <2> QED BY <1>13, <1>15, <1>16, <2>3
<1>17. CASE Becomes(i, [c EXCEPT !.sat = "make"]) /\ UNCHANGED <<users, once>>
  <2> DEFINE d == [c EXCEPT !.sat = "make"]
  <2>1. /\ DOMAIN d = ConnFields /\ d.call = c.call /\ d.up = c.up /\ d.down = c.down /\ d.at = c.at
        /\ d.req = c.req /\ d.sat = "make" /\ d.outcome = c.outcome /\ d.todo = c.todo
    BY <1>1 DEF ConnFields
  <2> HIDE DEF d
  <2>2. NameOf(d) = NameOf(c) /\ PwOf(d) = PwOf(c) BY <2>1 DEF NameOf, PwOf
  <2>3. SeedInv(cfg, users, gone, once, d) BY <1>3, <2>1 DEF SeedInv
  <2>4. ConnInv(cfg, users, gone, once, i, d)
    BY <1>0, <2>1, <2>2, <2>3, Zenon DEF ConnInv, PeerInv, Served, NameInv, WinInv, DeleteInv
  <2> QED BY <1>0, <1>2, <1>17, <2>4, QuietStep DEF d
<1>18. CASE users[n] = NoUser /\ Put(users, n, a, users') /\ Seeded(i)
  BY <1>12, <1>13, <1>18
<1>19. CASE SeedFailed(i) /\ UNCHANGED users BY <1>14, <1>15, <1>19
<1>20. CASE SeedFailed(i) /\ users[n] = NoUser /\ Put(users, n, a, users') BY <1>12, <1>14, <1>20
<1> QED BY <1>16, <1>17, <1>18, <1>19, <1>20 DEF seedDefaultAccounts, Put, n, a
-----------------------------------------------------------------------------
\* xmppd starts with an empty store and no connection.
LEMMA InitInv == Init => Inv
<1> SUFFICES ASSUME Init PROVE Inv OBVIOUS
<1>1. cfg \in Scenarios /\ conns = <<>> /\ once = "no" /\ gone = {} /\ users = [n \in Names |-> NoUser]
  BY DEF Init
<1>2. cfg.conns \in 0..MaxConns /\ cfg.seeds \in Seq(Names) /\ MaxConns \in Nat BY <1>1, ScenariosAreNamed, Zenon
<1>3. IsSeq(conns) /\ Len(conns) = 0
  <2> DEFINE E == {}
  <2>1. conns \in Seq(E) BY <1>1
  <2> HIDE DEF E
  <2>2. IsSeq(conns) BY <2>1 DEF IsSeq
  <2> QED BY <1>1, <2>2
<1>4. StoreInv(cfg, users, gone, once)
  <2>1. \A k \in 1..Len(cfg.seeds) : users[cfg.seeds[k]] = NoUser BY <1>1, <1>2
  <2> QED BY <1>1, <2>1 DEF StoreInv
<1>5. Len(conns) \leq cfg.conns BY <1>2, <1>3
<1> QED BY <1>3, <1>4, <1>5 DEF Inv

\* The connections are numbered from 1.
LEMMA DomainConns == Inv => DOMAIN conns = 1..Len(conns)
<1> SUFFICES ASSUME Inv PROVE DOMAIN conns = 1..Len(conns) OBVIOUS
<1>1. PICK S : conns \in Seq(S) BY DEF Inv, IsSeq
<1> QED BY <1>1

\* Every step of the flow, of xmppd, of the network and of the process keeps
\* the invariant.
LEMMA NextInv == Inv /\ [Next]_vars => Inv'
<1> SUFFICES ASSUME Inv, [Next]_vars PROVE Inv' OBVIOUS
<1>0. DOMAIN conns = 1..Len(conns) BY DomainConns
<1>1. ASSUME NEW call \in cfg.calls, Dial(call) PROVE Inv' BY <1>1, DialKeeps
<1>2. ASSUME NEW i \in DOMAIN conns, Flow(i) \/ deadline(i) PROVE Inv' BY <1>0, <1>2, FlowKeeps
<1>3. ASSUME NEW i \in DOMAIN conns, Session(i) PROVE Inv'
  <2>0. i \in 1..Len(conns) BY <1>0
  <2>1. CASE seedOnce(i) BY <2>0, <2>1, SeedOnceKeeps
  <2>2. CASE seedDefaultAccounts(i) BY <2>0, <2>2, SeedDefaultAccountsKeeps
  <2>3. CASE writeStreamFeatures(i) \/ handleStartTLS(i) \/ serveStreamEnds(i) \/ SendReply(i) \/ handleIQ(i)
    BY <2>0, <2>3, StreamKeeps
  <2>4. CASE Handle(i) BY <2>0, <2>4, HandleKeeps
  <2>5. CASE UserExists(i) BY <2>0, <2>5, UserExistsKeeps
  <2>6. CASE CreateUser(i) BY <2>0, <2>6, CreateUserKeeps
  <2>7. CASE Authenticate(i) BY <2>0, <2>7, AuthenticateKeeps
  <2>8. CASE DeleteUser(i) BY <2>0, <2>8, DeleteUserKeeps
  <2> QED BY <1>3, <2>1, <2>2, <2>3, <2>4, <2>5, <2>6, <2>7, <2>8 DEF Session
<1>4. ASSUME NEW i \in DOMAIN conns, Cut(i) PROVE Inv' BY <1>0, <1>4, CutKeeps
<1>5. ASSUME NEW i \in DOMAIN conns, PeerSends(i) PROVE Inv' BY <1>0, <1>5, PeerSendsKeeps
<1>6. CASE Restart BY <1>6, RestartKeeps
<1>7. CASE Tick BY <1>7 DEF Tick, Inv
<1>8. CASE UNCHANGED vars BY <1>8 DEF vars, Inv
<1> QED BY <1>1, <1>2, <1>3, <1>4, <1>5, <1>6, <1>7, <1>8 DEF Next

\* The store, the seeding and every session agree throughout.
THEOREM Invariance == Spec => []Inv
BY InitInv, NextInv, PTL DEF Spec

\* A request that was told it registered a name has it, with its password,
\* until it is removed, and a conflict is answered only for a name that was
\* taken (registration.go:173, 194), whatever fails and however often xmppd is
\* started again.
THEOREM WinnerKeepsNameHolds == Spec => []WinnerKeepsName
<1>1. Inv => WinnerKeepsName
  <2> SUFFICES ASSUME Inv PROVE WinnerKeepsName OBVIOUS
  <2>1. \A i \in DOMAIN conns : WinInv(users, gone, i, conns[i]) BY DomainConns, Zenon DEF Inv, ConnInv
  <2> QED BY <2>1, Zenon DEF WinnerKeepsName, WinInv
<1> QED BY <1>1, Invariance, PTL

\* Nobody is served before the default accounts are there, and no request
\* gets the name of one (main.go:76, 150).
THEOREM DefaultsComeFirstHolds == Spec => []DefaultsComeFirst
<1>1. Inv => DefaultsComeFirst
  <2> SUFFICES ASSUME Inv, NEW k \in DOMAIN cfg.seeds
               PROVE  LET n == cfg.seeds[k]
                      IN  \/ <<n, 0>> \in gone
                          \/ /\ users[n] # NoUser => users[n].by = 0
                             /\ (\E i \in DOMAIN conns : Served(conns[i])) => users[n] # NoUser
    BY DEF DefaultsComeFirst
  <2>1. cfg.seeds \in Seq(Names) BY ScenariosAreNamed, Zenon DEF Inv, StoreInv
  <2>2. k \in 1..Len(cfg.seeds) BY <2>1
  <2>3. /\ once = "ok" => Settled(users, gone, cfg.seeds[k])
        /\ users[cfg.seeds[k]] # NoUser => Settled(users, gone, cfg.seeds[k])
    BY <2>2 DEF Inv, StoreInv
  <2>4. (\E i \in DOMAIN conns : Served(conns[i])) => once = "ok" BY DomainConns, Zenon DEF Inv, ConnInv
  <2> QED BY <2>3, <2>4 DEF Settled
<1> QED BY <1>1, Invariance, PTL

\* A removal deletes an account of another password only if the one it
\* authenticated against was removed in between (registration.go:212, 216).
THEOREM LostOnlyToOverlapHolds == Spec => LostOnlyToOverlap
<1> DEFINE Lost(i, n) ==
             (users[n] # NoUser /\ users'[n] = NoUser /\ conns[i].sat = "delete" /\ conns'[i].sat # "delete") =>
                 \/ users[n].pw = PwOf(conns[i])
                 \/ <<n, conns[i].account>> \in gone
<1>1. ASSUME Inv, [Next]_vars, NEW i \in DOMAIN conns, NEW n \in Names PROVE Lost(i, n)
  <2> SUFFICES ASSUME users[n] # NoUser, users'[n] = NoUser,
                      conns[i].sat = "delete", conns'[i].sat # "delete"
               PROVE  \/ users[n].pw = PwOf(conns[i]) \/ <<n, conns[i].account>> \in gone
    OBVIOUS
  <2>1. \E j \in DOMAIN conns : seedDefaultAccounts(j) \/ CreateUser(j) \/ DeleteUser(j)
    <3>1. users' # users OBVIOUS
    <3> QED BY <1>1, <3>1, Zenon DEF Next, vars, Flow, Session, Dial, readStreamFeatures, upgradeToTLS,
          readRegistrationForm, readRegistrationResult, readEOF, deadline, seedOnce, writeStreamFeatures,
          handleStartTLS, serveStreamEnds, Handle, UserExists, Authenticate, SendReply, handleIQ,
          PeerSends, Cut, Restart, Tick
  <2>2. PICK j \in DOMAIN conns : seedDefaultAccounts(j) \/ CreateUser(j) \/ DeleteUser(j) BY <2>1
  <2>3. users \in [Names -> Account \cup {NoUser}] BY <1>1 DEF Inv, StoreInv
  <2>4. PICK d : Becomes(j, d) BY <2>2, Zenon DEF seedDefaultAccounts, CreateUser, DeleteUser, Seeded, SeedFailed
  <2>5. j = i BY <1>1, <2>2, <2>4 DEF Becomes
  <2>6. DeleteUser(i) BY <2>2, <2>5, Zenon DEF seedDefaultAccounts, CreateUser
  <2>7. n = NameOf(conns[i]) BY <2>3, <2>6, Zenon DEF DeleteUser, Delete
  <2>8. DeleteInv(users, gone, conns[i]) BY <1>1, DomainConns, Zenon DEF Inv, ConnInv
  <2> QED BY <2>7, <2>8 DEF DeleteInv
<1>2. Inv /\ [Next]_vars => [\A i \in DOMAIN conns, n \in Names : Lost(i, n)]_vars BY <1>1
<1> QED BY <1>2, Invariance, PTL DEF Spec, LostOnlyToOverlap
=============================================================================
