------------------------- MODULE XmppdStreamProofs -------------------------
(* Proofs that hold for any number of sessions, accounts and resources. *)
EXTENDS XmppdStream, TLAPS

Empty == [f \in {} |-> {}]

InnerMap(m, b) == IF b \in DOMAIN m THEN m[b] ELSE Empty

\* Adding an entry to byFull changes its index as sessionRouter.register
\* changes byBare (stream.go:48-52).
LEMMA IndexPut ==
    ASSUME NEW m, NEW k, NEW v
    PROVE  Index(Put(m, k, v)) =
               Put(Index(m), Bare(k), Put(InnerMap(Index(m), Bare(k)), k, v))
<1> DEFINE n == Put(m, k, v)
           b == Bare(k)
           inner == Put(InnerMap(Index(m), b), k, v)
<1>1. DOMAIN n = DOMAIN m \cup {k} /\ n[k] = v
      /\ \A x \in DOMAIN m : x # k => n[x] = m[x]
  BY DEF Put
<1>2. DOMAIN Index(n) = DOMAIN Index(m) \cup {b}
  BY <1>1 DEF Index
<1>3. ASSUME NEW c \in DOMAIN Index(n), c # b
      PROVE  Index(n)[c] = Index(m)[c]
  <2>1. {g \in DOMAIN n : Bare(g) = c} = {g \in DOMAIN m : Bare(g) = c}
    BY <1>1, <1>3
  <2>2. \A g \in DOMAIN m : Bare(g) = c => n[g] = m[g]
    BY <1>1, <1>3
  <2> QED BY <1>2, <1>3, <2>1, <2>2 DEF Index
<1>4. Index(n)[b] = inner
  <2>1. DOMAIN InnerMap(Index(m), b) = {g \in DOMAIN m : Bare(g) = b}
        /\ \A g \in DOMAIN m : Bare(g) = b => InnerMap(Index(m), b)[g] = m[g]
    BY DEF InnerMap, Index, Empty
  <2>2. {g \in DOMAIN n : Bare(g) = b} = DOMAIN InnerMap(Index(m), b) \cup {k}
    BY <1>1, <2>1
  <2>3. Index(n)[b] = [f \in {g \in DOMAIN n : Bare(g) = b} |-> n[f]]
    BY <1>2 DEF Index
  <2> HIDE DEF n
  <2> QED BY <1>1, <2>1, <2>2, <2>3 DEF Put
<1>5. Put(Index(m), b, inner) =
        [c \in DOMAIN Index(n) |-> IF c = b THEN inner ELSE Index(m)[c]]
  BY <1>2 DEF Put
<1>6. Index(n) = [c \in DOMAIN Index(n) |-> Index(n)[c]]
  BY DEF Index
<1> HIDE DEF n, b, inner
<1>7. Index(n) = Put(Index(m), b, inner)
  BY <1>3, <1>4, <1>5, <1>6
<1> QED BY <1>7 DEF n, b, inner

\* Removing an entry from byFull changes its index as sessionRouter.unregister
\* changes byBare (stream.go:64-70), the entry being there or not.
LEMMA IndexDelete ==
    ASSUME NEW m, NEW k
    PROVE  LET b == Bare(k)
               rest == Delete(Index(m)[b], k)
           IN  Index(Delete(m, k)) =
                 IF b \notin DOMAIN Index(m) THEN Index(m)
                 ELSE IF DOMAIN rest = {} THEN Delete(Index(m), b)
                 ELSE Put(Index(m), b, rest)
<1> DEFINE n == Delete(m, k)
           b == Bare(k)
           rest == Delete(Index(m)[b], k)
<1>1. DOMAIN n = DOMAIN m \ {k} /\ \A x \in DOMAIN n : n[x] = m[x]
  BY DEF Delete
<1>2. DOMAIN Index(m) = {Bare(f) : f \in DOMAIN m}
      /\ DOMAIN Index(n) = {Bare(f) : f \in DOMAIN n}
  BY DEF Index
<1>3. Index(n) = [c \in DOMAIN Index(n) |-> Index(n)[c]]
      /\ Index(m) = [c \in DOMAIN Index(m) |-> Index(m)[c]]
  BY DEF Index
<1>4. ASSUME NEW c \in DOMAIN Index(n), c # b
      PROVE  Index(n)[c] = Index(m)[c]
  <2>1. {g \in DOMAIN n : Bare(g) = c} = {g \in DOMAIN m : Bare(g) = c}
    BY <1>1, <1>4
  <2>2. c \in DOMAIN Index(m)
    BY <1>1, <1>2
  <2> QED BY <1>1, <2>1, <2>2 DEF Index
<1>5. CASE b \notin DOMAIN Index(m)
  <2>1. k \notin DOMAIN m
    BY <1>2, <1>5
  <2>2. DOMAIN Index(n) = DOMAIN Index(m)
    BY <1>1, <1>2, <2>1
  <2> HIDE DEF n, b
  <2>3. Index(n) = Index(m)
    BY <1>3, <1>4, <1>5, <2>2
  <2> QED BY <1>5, <2>3 DEF n, b
<1>6. CASE b \in DOMAIN Index(m)
  <2>1. rest = [f \in {g \in DOMAIN n : Bare(g) = b} |-> n[f]]
    BY <1>1, <1>6 DEF Index, Delete
  <2>2. CASE DOMAIN rest = {}
    <3>1. DOMAIN Index(n) = DOMAIN Index(m) \ {b}
      BY <1>1, <1>2, <2>1, <2>2
    <3> HIDE DEF n, b, rest
    <3>2. Index(n) = Delete(Index(m), b)
      BY <1>3, <1>4, <3>1 DEF Delete
    <3> QED BY <1>6, <2>2, <3>2 DEF n, b, rest
  <2>3. CASE DOMAIN rest # {}
    <3>1. DOMAIN Index(n) = DOMAIN Index(m) /\ b \in DOMAIN Index(n)
      BY <1>1, <1>2, <1>6, <2>1, <2>3
    <3>2. Index(n)[b] = [f \in {g \in DOMAIN n : Bare(g) = b} |-> n[f]]
      BY <3>1 DEF Index
    <3> HIDE DEF n, b, rest
    <3>3. Index(n)[b] = rest
      BY <2>1, <3>2, Zenon
    <3>4. Index(n) = Put(Index(m), b, rest)
      BY <1>3, <1>4, <1>6, <3>1, <3>3 DEF Put
    <3> QED BY <1>6, <2>3, <3>4 DEF n, b, rest
  <2> QED BY <2>2, <2>3
<1> QED BY <1>5, <1>6

-----------------------------------------------------------------------------
\* What a session's fields say together: its flags, the name it authenticated
\* with, its address and the addresses it has bound.
SessionConsistent ==
    \A s \in Sessions :
        /\ user[s] \in Users <=> Has(s, "Authenticated")
        /\ Has(s, "Ready") <=> claims[s] # {}
        /\ \A f \in claims[s] : f.user = user[s]
        /\ Has(s, "Ready") => {"Authenticated", "Bound", "Ready"} \subseteq state[s]
        /\ Has(s, "Ready") => remote[s] \in claims[s]
        /\ ~Has(s, "Ready") => remote[s] \notin FullJIDs
        /\ pc[s] = "idle" => ~Has(s, "Ready")

\* A reply has no other target than the session it is for.
RepliesAreOwn ==
    \A s \in Sessions : out[s].own => out[s].dsts \subseteq {s}

IInv ==
    /\ TypeOK
    /\ IndexesAgree
    /\ SessionConsistent
    /\ RepliesAreOwn
    /\ RoutesToOwner
    /\ StaleTargetsKeepAccount
    /\ UncontestedIsReachable
    /\ GhostsAreRebound
    /\ NoHoldAndWait

\* The facts about the table and the sessions, as opposed to those about what
\* is being sent.
RInv == SessionConsistent /\ IndexesAgree /\ RoutesToOwner
        /\ UncontestedIsReachable /\ GhostsAreRebound

-----------------------------------------------------------------------------
\* What targets (stream.go:73-98) returns are sessions of the account the
\* address names.
LEMMA TargetsOfAccount ==
    ASSUME RouterTypeOK, IndexesAgree, NEW to \in JIDs, NEW d \in targets(to)
    PROVE  \E f \in DOMAIN byFull : byFull[f] = d /\ f.user = to.user
<1>1. CASE IsFull(to)
  BY <1>1 DEF targets
<1>2. CASE ~IsFull(to)
  <2>1. PICK f \in DOMAIN SessionsOf(Bare(to)) : d = SessionsOf(Bare(to))[f]
    BY <1>2 DEF targets
  <2>2. Bare(to) \in DOMAIN byBare /\ f \in DOMAIN byBare[Bare(to)]
        /\ d = byBare[Bare(to)][f]
    BY <2>1 DEF SessionsOf
  <2>3. f \in DOMAIN byFull /\ Bare(f) = Bare(to) /\ d = byFull[f]
    BY <2>2 DEF IndexesAgree, Index
  <2>4. f.user = to.user
    BY <2>3 DEF Bare
  <2> QED BY <2>3, <2>4
<1> QED BY <1>1, <1>2

\* A step that leaves the sessions and the table alone, and ends no stream
\* that was being served, keeps the facts about them.
LEMMA QuietStep ==
    ASSUME TypeOK, RInv,
           UNCHANGED <<state, user, remote, claims, byFull, byBare>>,
           \A t \in Sessions :
               /\ pc'[t] = "idle" => pc[t] = "idle"
               /\ pc'[t] \in {"close", "done"} => pc[t] \in {"idle", "close", "done"}
               /\ pc[t] \in {"close", "done"} => pc'[t] \in {"close", "done"}
    PROVE  RInv'
<1>1. SessionConsistent'
  BY DEF SessionConsistent, RInv, Has
<1>2. IndexesAgree' /\ RoutesToOwner'
  BY DEF IndexesAgree, Index, RoutesToOwner, RInv
<1>3. UncontestedIsReachable'
  <2> SUFFICES ASSUME NEW s \in Sessions, Has(s, "Ready"), pc'[s] \notin {"close", "done"},
                      \A t \in Sessions \ {s} : remote[s] \notin claims[t]
               PROVE  remote[s] \in DOMAIN byFull /\ byFull[remote[s]] = s
    BY DEF UncontestedIsReachable, Has
  <2> QED BY DEF UncontestedIsReachable, RInv
<1>4. GhostsAreRebound'
  <2> SUFFICES ASSUME NEW f \in DOMAIN byFull, pc'[byFull[f]] \in {"close", "done"}
               PROVE  f # remote[byFull[f]]
    BY DEF GhostsAreRebound
  <2>1. byFull[f] \in Sessions /\ Has(byFull[f], "Ready")
    BY DEF TypeOK, RouterTypeOK, RInv, RoutesToOwner, Has
  <2>2. pc[byFull[f]] # "idle"
    BY <2>1 DEF RInv, SessionConsistent
  <2> QED BY <2>1, <2>2 DEF GhostsAreRebound, RInv
<1> QED BY <1>1, <1>2, <1>3, <1>4 DEF RInv

\* A step of s outside a write that takes or releases no mutex.
LEMMA QuietMutex ==
    ASSUME TypeOK, NoHoldAndWait, UNCHANGED mu,
           NEW s \in Sessions, pc[s] # "write", pc'[s] # "write",
           \A t \in Sessions \ {s} : pc'[t] = pc[t] /\ out'[t] = out[t]
    PROVE  NoHoldAndWait'
<1> SUFFICES ASSUME NEW t \in Sessions
             PROVE  LET held == {d \in Sessions : mu[d] = t}
                    IN  IF pc'[t] = "write" THEN \E d \in out'[t].dsts : held = {d}
                                            ELSE held = {}
  BY DEF NoHoldAndWait
<1>1. CASE t = s
  BY <1>1 DEF NoHoldAndWait
<1>2. CASE t # s
  BY <1>2 DEF NoHoldAndWait
<1> QED BY <1>1, <1>2

\* A step of s that leaves everything still to be sent as it was, or replaces
\* what s has to send by something that satisfies the same facts.
LEMMA QuietWork ==
    ASSUME TypeOK, RepliesAreOwn, StaleTargetsKeepAccount,
           UNCHANGED <<state, user>>, NEW s \in Sessions,
           \A t \in Sessions \ {s} : out'[t] = out[t],
           out'[s].own => out'[s].dsts \subseteq {s},
           \A d \in out'[s].dsts :
               out'[s].own \/ ("Ready" \in state[d] /\ user[d] = out'[s].to.user /\ d # s)
    PROVE  RepliesAreOwn' /\ StaleTargetsKeepAccount'
BY DEF RepliesAreOwn, StaleTargetsKeepAccount

-----------------------------------------------------------------------------
\* The goroutine of s moves inside the loop, with nothing or with something
\* acceptable to send.
LocalStep(s) ==
    /\ pc' \in [Sessions -> PCs]
    /\ out' \in [Sessions -> Work]
    /\ \A t \in Sessions \ {s} : pc'[t] = pc[t] /\ out'[t] = out[t]
    /\ pc'[s] \notin {"idle", "write", "close", "done"}
    /\ out'[s].own => out'[s].dsts \subseteq {s}
    /\ \A d \in out'[s].dsts :
           out'[s].own \/ ("Ready" \in state[d] /\ user[d] = out'[s].to.user /\ d # s)

\* A handler that answers its own client takes such a step (session.go:61-111).
LEMMA ReplyIsLocal ==
    ASSUME TypeOK, NEW s \in Sessions, NEW n \in {"loop", "handshake", "fall"}, Reply(s, n)
    PROVE  LocalStep(s)
BY DEF TypeOK, Reply, Send, Goto, LocalStep, Work, PCs, JIDs

\* So does one that moves on with nothing new to send.
LEMMA GotoIsLocal ==
    ASSUME TypeOK, RepliesAreOwn, StaleTargetsKeepAccount, NEW s \in Sessions,
           NEW l \in PCs \ {"idle", "write", "close", "done"}, Goto(s, l), UNCHANGED out
    PROVE  LocalStep(s)
<1>1. pc' \in [Sessions -> PCs] /\ pc'[s] = l /\ \A t \in Sessions \ {s} : pc'[t] = pc[t]
  BY DEF Goto, TypeOK
<1>2. out' = out /\ out \in [Sessions -> Work]
  BY DEF TypeOK
<1> QED BY <1>1, <1>2 DEF LocalStep, RepliesAreOwn, StaleTargetsKeepAccount

\* So does routeMessage or routePresence: all it sends to are sessions of the
\* addressed account (stream.go:379-412).
LEMMA RouteIsLocal ==
    ASSUME TypeOK, RInv, NEW s \in Sessions, NEW to \in JIDs, Route(s, to)
    PROVE  LocalStep(s)
<1> DEFINE ds == targets(to) \ {s}
           w == [dsts |-> ds, own |-> FALSE, to |-> to, next |-> "loop"]
<1>1. \A d \in ds : d \in Sessions /\ "Ready" \in state[d] /\ user[d] = to.user /\ d # s
  <2> SUFFICES ASSUME NEW d \in ds
               PROVE  d \in Sessions /\ "Ready" \in state[d] /\ user[d] = to.user /\ d # s
    OBVIOUS
  <2>1. PICK f \in DOMAIN byFull : byFull[f] = d /\ f.user = to.user
    BY TargetsOfAccount DEF TypeOK, RInv
  <2> QED BY <2>1 DEF TypeOK, RouterTypeOK, RInv, RoutesToOwner
<1>2. out' = [out EXCEPT ![s] = w] /\ pc' = [pc EXCEPT ![s] = "send"]
  BY DEF Route, Send, Goto
<1> HIDE DEF ds
<1>3. w \in Work
  BY <1>1 DEF Work
<1> QED BY <1>1, <1>2, <1>3 DEF TypeOK, LocalStep, PCs

\* So does every branch of routeIQ (stream.go:414-445).
LEMMA RouteIQIsLocal ==
    ASSUME TypeOK, RInv, RepliesAreOwn, StaleTargetsKeepAccount,
           NEW s \in Sessions, NEW to \in JIDs, NEW request \in BOOLEAN,
           routeIQ(s, to, request)
    PROVE  LocalStep(s)
<1>1. CASE Reply(s, "loop")
  BY <1>1, ReplyIsLocal
<1>2. CASE Ignore(s)
  BY <1>2, GotoIsLocal DEF Ignore, PCs
<1>3. CASE Route(s, to)
  BY <1>3, RouteIsLocal
<1> QED BY <1>1, <1>2, <1>3 DEF routeIQ

\* So does one that has dealt with one of its targets.
LEMMA SentIsLocal ==
    ASSUME TypeOK, RepliesAreOwn, StaleTargetsKeepAccount,
           NEW s \in Sessions, NEW d \in Sessions, Sent(s, d)
    PROVE  LocalStep(s)
<1> DEFINE w == [out[s] EXCEPT !.dsts = @ \ {d}]
<1>1. out[s] \in Work
  BY DEF TypeOK
<1>2. /\ w \in Work /\ w.dsts \subseteq out[s].dsts
      /\ w.own = out[s].own /\ w.to = out[s].to
  BY <1>1 DEF Work
<1>3. out' = [out EXCEPT ![s] = w] /\ pc' = [pc EXCEPT ![s] = "send"]
  BY DEF Sent, Goto
<1> HIDE DEF w
<1>4. /\ out' \in [Sessions -> Work] /\ out'[s] = w /\ pc' \in [Sessions -> PCs]
      /\ pc'[s] = "send"
      /\ \A t \in Sessions \ {s} : pc'[t] = pc[t] /\ out'[t] = out[t]
  BY <1>2, <1>3 DEF TypeOK, PCs
<1> QED BY <1>2, <1>4 DEF LocalStep, RepliesAreOwn, StaleTargetsKeepAccount

\* So does one whose send failed.
LEMMA SendFailedIsLocal ==
    ASSUME TypeOK, RepliesAreOwn, StaleTargetsKeepAccount,
           NEW s \in Sessions, NEW d \in Sessions, SendFailed(s, d)
    PROVE  LocalStep(s)
<1>1. CASE out[s].own
  BY <1>1, GotoIsLocal DEF SendFailed, PCs
<1>2. CASE ~out[s].own
  BY <1>2, SentIsLocal DEF SendFailed
<1> QED BY <1>1, <1>2

\* Such a step, when it changes nothing else, preserves the whole invariant.
LEMMA LocalPreserves ==
    ASSUME IInv, NEW s \in Sessions, LocalStep(s),
           pc[s] \notin {"write", "close", "done"},
           UNCHANGED <<state, user, remote, claims, sharedVars, routerVars>>
    PROVE  IInv'
<1>1. TypeOK'
  BY DEF IInv, TypeOK, RouterTypeOK, LocalStep, sharedVars, routerVars
<1>2. RInv'
  BY QuietStep DEF IInv, RInv, LocalStep, routerVars
<1>3. NoHoldAndWait'
  BY QuietMutex DEF IInv, LocalStep, sharedVars
<1>4. RepliesAreOwn' /\ StaleTargetsKeepAccount'
  BY QuietWork DEF IInv, LocalStep
<1> QED BY <1>1, <1>2, <1>3, <1>4 DEF IInv, RInv

-----------------------------------------------------------------------------
(* The steps that touch the table, a session's fields or a mutex. *)

\* Starting a goroutine (stream.go:122-142).
LEMMA serveSessionPreserves ==
    ASSUME IInv, NEW s \in Sessions, serveSession(s)
    PROVE  IInv'
<1>1. TypeOK'
  BY DEF IInv, TypeOK, RouterTypeOK, serveSession, Goto, PCs, routerVars
<1>2. \A t \in Sessions \ {s} : pc'[t] = pc[t]
  BY DEF IInv, TypeOK, serveSession, Goto
<1>3. pc[s] = "idle" /\ pc'[s] \in {"loop", "close"}
  BY DEF IInv, TypeOK, serveSession, Goto
<1>4. RInv'
  BY <1>2, <1>3, QuietStep DEF IInv, RInv, serveSession, routerVars
<1>5. NoHoldAndWait'
  BY <1>2, <1>3, QuietMutex DEF IInv, serveSession
<1>6. RepliesAreOwn' /\ StaleTargetsKeepAccount'
  BY DEF IInv, serveSession, RepliesAreOwn, StaleTargetsKeepAccount
<1> QED BY <1>1, <1>4, <1>5, <1>6 DEF IInv, RInv

\* Session.Close at the end of handleConn (session.go:172-184).
LEMMA ClosePreserves ==
    ASSUME IInv, NEW s \in Sessions, Close(s)
    PROVE  IInv'
<1>1. TypeOK'
  BY StreamAssumption DEF IInv, TypeOK, RouterTypeOK, Close, Goto, PCs, routerVars
<1>2. \A t \in Sessions \ {s} : pc'[t] = pc[t]
  BY DEF IInv, TypeOK, Close, Goto
<1>3. pc[s] = "close" /\ pc'[s] = "done"
  BY DEF IInv, TypeOK, Close, Goto
<1>4. RInv'
  BY <1>2, <1>3, QuietStep DEF IInv, RInv, Close, routerVars
<1>5. NoHoldAndWait'
  BY <1>2, <1>3, QuietMutex DEF IInv, Close
<1>6. RepliesAreOwn' /\ StaleTargetsKeepAccount'
  BY DEF IInv, Close, RepliesAreOwn, StaleTargetsKeepAccount
<1> QED BY <1>1, <1>4, <1>5, <1>6 DEF IInv, RInv

\* The raw write of a stream header and its features (stream.go:168-176).
LEMMA writeStreamPreserves ==
    ASSUME IInv, NEW s \in Sessions, writeStream(s)
    PROVE  IInv'
<1>1. TypeOK'
  <2>1. wire' \in [Sessions -> 0 .. WireCap]
    BY StreamAssumption DEF IInv, TypeOK, writeStream
  <2> QED BY <2>1 DEF IInv, TypeOK, RouterTypeOK, writeStream, Goto, PCs, routerVars
<1>2. \A t \in Sessions \ {s} : pc'[t] = pc[t]
  BY DEF IInv, TypeOK, writeStream, Goto
<1>3. pc[s] = "open" /\ pc'[s] \in {"loop", "unregister"}
  BY DEF IInv, TypeOK, writeStream, Goto
<1>4. RInv'
  BY <1>2, <1>3, QuietStep DEF IInv, RInv, writeStream, routerVars
<1>5. NoHoldAndWait'
  BY <1>2, <1>3, QuietMutex DEF IInv, writeStream
<1>6. RepliesAreOwn' /\ StaleTargetsKeepAccount'
  BY DEF IInv, writeStream, RepliesAreOwn, StaleTargetsKeepAccount
<1> QED BY <1>1, <1>4, <1>5, <1>6 DEF IInv, RInv

\* The TLS handshake sets a flag that routing does not look at (stream.go:224-227).
LEMMA StartTLSPreserves ==
    ASSUME IInv, NEW s \in Sessions, StartTLS(s)
    PROVE  IInv'
<1>1. TypeOK'
  BY DEF IInv, TypeOK, RouterTypeOK, StartTLS, Goto, PCs, Flags, routerVars, sharedVars
<1>2. (\A t \in Sessions \ {s} : pc'[t] = pc[t])
      /\ pc[s] = "handshake" /\ pc'[s] \in {"loop", "unregister"}
  BY DEF IInv, TypeOK, StartTLS, Goto
<1>3. \A t \in Sessions : \A f \in Flags \ {"Secure"} : f \in state'[t] <=> f \in state[t]
  BY DEF IInv, TypeOK, StartTLS, Flags
<1>4. UNCHANGED <<user, remote, out, claims, byFull, byBare, mu>>
  BY DEF StartTLS, routerVars, sharedVars
<1>5. SessionConsistent'
  BY <1>2, <1>3, <1>4 DEF IInv, SessionConsistent, Has, Flags
<1>6. IndexesAgree' /\ RoutesToOwner'
  BY <1>3, <1>4 DEF IInv, IndexesAgree, Index, RoutesToOwner, TypeOK, RouterTypeOK, Flags
<1>7. UncontestedIsReachable' /\ GhostsAreRebound'
  BY <1>2, <1>3, <1>4
  DEF IInv, UncontestedIsReachable, GhostsAreRebound, Has, TypeOK, RouterTypeOK, Flags
<1>8. NoHoldAndWait'
  BY <1>2, <1>4, QuietMutex DEF IInv
<1>9. RepliesAreOwn' /\ StaleTargetsKeepAccount'
  BY <1>3, <1>4 DEF IInv, RepliesAreOwn, StaleTargetsKeepAccount, TypeOK, Work, Flags
<1> QED BY <1>1, <1>5, <1>6, <1>7, <1>8, <1>9 DEF IInv

\* Authentication changes the name and the address of a session that is not in
\* the table and not the target of anybody, because it is not Ready
\* (stream.go:231-280).
LEMMA handleSASLAuthPreserves ==
    ASSUME IInv, NEW s \in Sessions, handleSASLAuth(s)
    PROVE  IInv'
<1>1. pc[s] = "token" /\ Reply(s, "loop") /\ UNCHANGED <<claims, sharedVars, routerVars>>
  BY DEF handleSASLAuth, Reading
<1>2. LocalStep(s)
  BY <1>1, ReplyIsLocal DEF IInv
<1>3. CASE UNCHANGED <<state, user, remote>>
  BY <1>1, <1>2, <1>3, LocalPreserves
<1>4. ASSUME NEW u \in Users,
             ~Has(s, "Authenticated"),
             user' = [user EXCEPT ![s] = u],
             remote' = [remote EXCEPT ![s] = [user |-> u, res |-> NoResource]],
             state' = [state EXCEPT ![s] = @ \cup {"Authenticated"}]
      PROVE  IInv'
  <2>1. ~Has(s, "Ready") /\ claims[s] = {} /\ s \notin {byFull[f] : f \in DOMAIN byFull}
    BY <1>4 DEF IInv, SessionConsistent, RoutesToOwner, Has
  <2>2. \A t \in Sessions \ {s} :
          user'[t] = user[t] /\ remote'[t] = remote[t] /\ state'[t] = state[t] /\ pc'[t] = pc[t]
    BY <1>2, <1>4 DEF IInv, TypeOK, LocalStep
  <2>3. /\ user'[s] = u /\ state'[s] = state[s] \cup {"Authenticated"}
        /\ remote'[s] = [user |-> u, res |-> NoResource]
    BY <1>4 DEF IInv, TypeOK
  <2>4. remote'[s] \in JIDs /\ remote'[s] \notin FullJIDs
    BY <2>3, RouterAssumption DEF JIDs, BareJIDs, FullJIDs
  <2>5. TypeOK'
    BY <1>1, <1>2, <1>4, <2>3, <2>4
    DEF IInv, TypeOK, RouterTypeOK, LocalStep, sharedVars, routerVars, Flags
  <2>6. SessionConsistent'
    <3>1. SessionConsistent!(s)'
      BY <1>1, <1>2, <2>1, <2>3, <2>4 DEF Has, LocalStep
    <3>2. ASSUME NEW t \in Sessions \ {s}
          PROVE  SessionConsistent!(t)'
      BY <1>1, <2>2 DEF IInv, SessionConsistent, Has
    <3> QED BY <3>1, <3>2 DEF SessionConsistent
  <2>7. IndexesAgree'
    BY <1>1 DEF IInv, IndexesAgree, Index, routerVars
  <2>8. \A f \in DOMAIN byFull : byFull[f] \in Sessions \ {s}
    BY <2>1 DEF IInv, TypeOK, RouterTypeOK
  <2>9. RoutesToOwner' /\ GhostsAreRebound'
    BY <1>1, <2>2, <2>8 DEF IInv, RoutesToOwner, GhostsAreRebound, routerVars
  <2>10. UncontestedIsReachable'
    <3> SUFFICES ASSUME NEW t \in Sessions, Has(t, "Ready")', pc'[t] \notin {"close", "done"},
                        \A v \in Sessions \ {t} : remote'[t] \notin claims[v]
                 PROVE  remote'[t] \in DOMAIN byFull /\ byFull[remote'[t]] = t
      BY <1>1 DEF UncontestedIsReachable, routerVars
    <3>1. t # s
      BY <2>1, <2>3 DEF Has
    <3> QED BY <2>2, <3>1 DEF IInv, UncontestedIsReachable, Has
  <2>11. NoHoldAndWait'
    BY <1>1, <1>2, QuietMutex DEF IInv, LocalStep, sharedVars
  <2>12. RepliesAreOwn'
    BY <1>2 DEF IInv, RepliesAreOwn, LocalStep
  <2>13. StaleTargetsKeepAccount'
    <3> SUFFICES ASSUME NEW t \in Sessions, NEW d \in out'[t].dsts, ~out'[t].own
                 PROVE  "Ready" \in state'[d] /\ user'[d] = out'[t].to.user /\ d # t
      BY DEF StaleTargetsKeepAccount
    <3>1. t # s
      BY <1>1, <1>2 DEF Reply, Send, IInv, TypeOK
    <3>2. out'[t] = out[t] /\ d \in Sessions
      BY <1>2, <3>1 DEF LocalStep, IInv, TypeOK, Work
    <3>3. "Ready" \in state[d] /\ user[d] = out[t].to.user /\ d # t
      BY <3>2 DEF IInv, StaleTargetsKeepAccount
    <3>4. d # s
      BY <2>1, <3>3 DEF Has
    <3> QED BY <2>2, <3>2, <3>3, <3>4
  <2> QED BY <2>5, <2>6, <2>7, <2>9, <2>10, <2>11, <2>12, <2>13 DEF IInv
<1> QED BY <1>3, <1>4 DEF handleSASLAuth

\* Binding puts one entry in the table, for the session that binds and under
\* its own account; what another session had there is lost to it, and that
\* session has then bound the same address (stream.go:317-355).
LEMMA handleBindIQPreserves ==
    ASSUME IInv, NEW s \in Sessions, handleBindIQ(s)
    PROVE  IInv'
<1>1. pc[s] = "token" /\ Reply(s, "loop") /\ UNCHANGED <<user, sharedVars>>
  BY DEF handleBindIQ, Reading
<1>2. LocalStep(s)
  BY <1>1, ReplyIsLocal DEF IInv
<1>3. CASE UNCHANGED <<state, remote, claims, routerVars>>
  BY <1>1, <1>2, <1>3, LocalPreserves
<1>4. ASSUME NEW r \in Resources, NEW full, full = [user |-> user[s], res |-> r],
             Has(s, "Authenticated"),
             remote' = [remote EXCEPT ![s] = full],
             state' = [state EXCEPT ![s] = @ \cup {"Bound", "Ready"}],
             claims' = [claims EXCEPT ![s] = @ \cup {full}],
             register(full, s)
      PROVE  IInv'
  <2>1. user[s] \in Users /\ full \in FullJIDs /\ full \in JIDs /\ full.user = user[s]
    BY <1>4 DEF IInv, SessionConsistent, FullJIDs, JIDs
  <2>2. \A t \in Sessions \ {s} :
          remote'[t] = remote[t] /\ state'[t] = state[t] /\ claims'[t] = claims[t] /\ pc'[t] = pc[t]
    BY <1>2, <1>4 DEF IInv, TypeOK, LocalStep
  <2>3. /\ remote'[s] = full /\ state'[s] = state[s] \cup {"Bound", "Ready"}
        /\ claims'[s] = claims[s] \cup {full}
    BY <1>4 DEF IInv, TypeOK
  <2>4. /\ DOMAIN byFull' = DOMAIN byFull \cup {full} /\ byFull'[full] = s
        /\ \A f \in DOMAIN byFull : f # full => byFull'[f] = byFull[f]
        /\ byFull' = [f \in DOMAIN byFull' |-> byFull'[f]]
    BY <1>4 DEF register, Put
  <2>5. TypeOK'
    <3>1. RouterTypeOK'
      BY <2>1, <2>4 DEF IInv, TypeOK, RouterTypeOK
    <3>2. /\ state' \in [Sessions -> SUBSET Flags] /\ remote' \in [Sessions -> JIDs]
          /\ claims' \in [Sessions -> SUBSET FullJIDs]
      BY <1>4, <2>1 DEF IInv, TypeOK, Flags
    <3> QED BY <1>1, <1>2, <3>1, <3>2 DEF IInv, TypeOK, LocalStep, sharedVars
  <2>6. SessionConsistent'
    <3>1. SessionConsistent!(s)'
      BY <1>1, <1>2, <1>4, <2>1, <2>3 DEF IInv, SessionConsistent, Has, LocalStep
    <3>2. ASSUME NEW t \in Sessions \ {s}
          PROVE  SessionConsistent!(t)'
      BY <1>1, <2>2 DEF IInv, SessionConsistent, Has
    <3> QED BY <3>1, <3>2 DEF SessionConsistent
  <2>7. IndexesAgree'
    <3>1. byFull' = Put(byFull, full, s)
          /\ byBare' = Put(byBare, Bare(full), Put(SessionsOf(Bare(full)), full, s))
      BY <1>4 DEF register
    <3>2. byBare = Index(byFull) /\ SessionsOf(Bare(full)) = InnerMap(Index(byFull), Bare(full))
      BY DEF IInv, IndexesAgree, SessionsOf, InnerMap, Empty
    <3> QED BY <3>1, <3>2, IndexPut DEF IndexesAgree
  <2>8. RoutesToOwner'
    <3> SUFFICES ASSUME NEW f \in DOMAIN byFull'
                 PROVE  /\ {"Authenticated", "Bound", "Ready"} \subseteq state'[byFull'[f]]
                        /\ user'[byFull'[f]] = f.user
                        /\ f \in claims'[byFull'[f]]
      BY DEF RoutesToOwner
    <3>1. CASE f = full
      BY <1>1, <1>4, <2>1, <2>3, <2>4, <3>1 DEF Has
    <3>2. CASE f # full
      <4>1. f \in DOMAIN byFull /\ byFull'[f] = byFull[f] /\ byFull[f] \in Sessions
        BY <2>4, <3>2 DEF IInv, TypeOK, RouterTypeOK
      <4> QED BY <1>1, <2>2, <2>3, <4>1 DEF IInv, RoutesToOwner
    <3> QED BY <3>1, <3>2
  <2>9. UncontestedIsReachable'
    <3> SUFFICES ASSUME NEW t \in Sessions, Has(t, "Ready")', pc'[t] \notin {"close", "done"},
                        \A v \in Sessions \ {t} : remote'[t] \notin claims'[v]
                 PROVE  remote'[t] \in DOMAIN byFull' /\ byFull'[remote'[t]] = t
      BY DEF UncontestedIsReachable
    <3>1. CASE t = s
      BY <2>3, <2>4, <3>1
    <3>2. CASE t # s
      <4>1. remote[t] # full /\ \A v \in Sessions \ {t} : remote[t] \notin claims[v]
        BY <2>2, <2>3, <3>2
      <4>2. remote[t] \in DOMAIN byFull /\ byFull[remote[t]] = t
        BY <2>2, <3>2, <4>1 DEF IInv, UncontestedIsReachable, Has
      <4> QED BY <2>2, <2>4, <3>2, <4>1, <4>2
    <3> QED BY <3>1, <3>2
  <2>10. GhostsAreRebound'
    <3> SUFFICES ASSUME NEW f \in DOMAIN byFull', pc'[byFull'[f]] \in {"close", "done"}
                 PROVE  f # remote'[byFull'[f]]
      BY DEF GhostsAreRebound
    <3>1. pc'[s] = "send"
      BY <1>1 DEF Reply, Send, Goto, IInv, TypeOK
    <3>2. f # full /\ f \in DOMAIN byFull /\ byFull'[f] = byFull[f] /\ byFull[f] \in Sessions
      BY <2>4, <3>1 DEF IInv, TypeOK, RouterTypeOK
    <3> QED BY <2>2, <3>1, <3>2 DEF IInv, GhostsAreRebound
  <2>11. NoHoldAndWait'
    BY <1>1, <1>2, QuietMutex DEF IInv, LocalStep, sharedVars
  <2>12. RepliesAreOwn'
    BY <1>2 DEF IInv, RepliesAreOwn, LocalStep
  <2>13. StaleTargetsKeepAccount'
    <3> SUFFICES ASSUME NEW t \in Sessions, NEW d \in out'[t].dsts, ~out'[t].own
                 PROVE  "Ready" \in state'[d] /\ user'[d] = out'[t].to.user /\ d # t
      BY DEF StaleTargetsKeepAccount
    <3>1. t # s
      BY <1>1, <1>2 DEF Reply, Send, IInv, TypeOK
    <3>2. out'[t] = out[t] /\ d \in Sessions
      BY <1>2, <3>1 DEF LocalStep, IInv, TypeOK, Work
    <3>3. "Ready" \in state[d] /\ user[d] = out[t].to.user /\ d # t
      BY <3>2 DEF IInv, StaleTargetsKeepAccount
    <3> QED BY <1>1, <2>2, <2>3, <3>2, <3>3
  <2> QED BY <2>5, <2>6, <2>7, <2>8, <2>9, <2>10, <2>11, <2>12, <2>13 DEF IInv
<1> QED BY <1>3, <1>4 DEF handleBindIQ

\* The deferred unregister removes at most the entry of an address that the
\* ending session has bound, so nobody else's uncontested entry
\* (stream.go:55-71, 135-137).
LEMMA deferredUnregisterPreserves ==
    ASSUME IInv, NEW s \in Sessions, deferredUnregister(s)
    PROVE  IInv'
<1> DEFINE j == remote[s]
<1>1. /\ pc[s] = "unregister" /\ pc' = [pc EXCEPT ![s] = "close"] /\ unregister(j)
      /\ UNCHANGED <<state, user, remote, out, claims, ctxDone, conn, closed, mu, wire>>
  BY DEF deferredUnregister, Goto, sharedVars
<1>2. (\A t \in Sessions \ {s} : pc'[t] = pc[t]) /\ pc'[s] = "close"
  BY <1>1 DEF IInv, TypeOK
<1>3. byFull' = Delete(byFull, j)
  <2>1. CASE IsZero(j)
    <3>1. j \notin DOMAIN byFull
      BY <2>1, RouterAssumption DEF IInv, TypeOK, RouterTypeOK, IsZero, ZeroJID, FullJIDs
    <3>2. byFull' = byFull /\ byFull = [f \in DOMAIN byFull |-> byFull[f]]
      BY <1>1, <2>1 DEF unregister, routerVars, IInv, TypeOK, RouterTypeOK
    <3> QED BY <3>1, <3>2 DEF Delete
  <2>2. CASE ~IsZero(j)
    BY <1>1, <2>2 DEF unregister
  <2> QED BY <2>1, <2>2
<1>4. IndexesAgree'
  <2>1. byBare = Index(byFull)
    BY DEF IInv, IndexesAgree
  <2>2. CASE IsZero(j)
    BY <1>1, <2>1, <2>2 DEF unregister, routerVars, IndexesAgree
  <2>3. CASE ~IsZero(j)
    <3>1. byBare' = IF Bare(j) \notin DOMAIN byBare THEN byBare
                    ELSE IF DOMAIN Delete(byBare[Bare(j)], j) = {} THEN Delete(byBare, Bare(j))
                    ELSE Put(byBare, Bare(j), Delete(byBare[Bare(j)], j))
      BY <1>1, <2>3 DEF unregister
    <3> HIDE DEF j
    <3> QED BY <1>3, <2>1, <3>1, IndexDelete DEF IndexesAgree
  <2> QED BY <2>2, <2>3
<1>5. /\ DOMAIN byFull' = DOMAIN byFull \ {j}
      /\ \A f \in DOMAIN byFull' : byFull'[f] = byFull[f] /\ byFull[f] \in Sessions
      /\ byFull' = [f \in DOMAIN byFull' |-> byFull'[f]]
  BY <1>3 DEF Delete, IInv, TypeOK, RouterTypeOK
<1>6. TypeOK'
  <2>1. RouterTypeOK'
    BY <1>5 DEF IInv, TypeOK, RouterTypeOK
  <2> QED BY <1>1, <2>1 DEF IInv, TypeOK, PCs
<1>7. SessionConsistent'
  BY <1>1, <1>2 DEF IInv, SessionConsistent, Has
<1>8. RoutesToOwner'
  BY <1>1, <1>5 DEF IInv, RoutesToOwner
<1>9. UncontestedIsReachable'
  <2> SUFFICES ASSUME NEW t \in Sessions, Has(t, "Ready"), pc'[t] \notin {"close", "done"},
                      \A v \in Sessions \ {t} : remote[t] \notin claims[v]
               PROVE  remote[t] \in DOMAIN byFull' /\ byFull'[remote[t]] = t
    BY <1>1 DEF UncontestedIsReachable, Has
  <2>1. t # s
    BY <1>2
  <2>2. remote[t] \in DOMAIN byFull /\ byFull[remote[t]] = t
    BY <1>2, <2>1 DEF IInv, UncontestedIsReachable
  <2>3. remote[t] # j
    BY <2>1, <2>2 DEF IInv, SessionConsistent, TypeOK, RouterTypeOK
  <2> QED BY <1>5, <2>2, <2>3
<1>10. GhostsAreRebound'
  <2> SUFFICES ASSUME NEW f \in DOMAIN byFull', pc'[byFull'[f]] \in {"close", "done"}
               PROVE  f # remote[byFull'[f]]
    BY <1>1 DEF GhostsAreRebound
  <2> QED BY <1>2, <1>5 DEF IInv, GhostsAreRebound
<1>11. NoHoldAndWait'
  BY <1>1, <1>2, QuietMutex DEF IInv
<1>12. RepliesAreOwn' /\ StaleTargetsKeepAccount'
  BY <1>1 DEF IInv, RepliesAreOwn, StaleTargetsKeepAccount
<1> QED BY <1>4, <1>6, <1>7, <1>8, <1>9, <1>10, <1>11, <1>12 DEF IInv

\* Taking the mutex of a target, or failing to send to it (session.go:61-74).
LEMMA lockForSendPreserves ==
    ASSUME IInv, NEW s \in Sessions, NEW d \in Sessions, lockForSend(s, d)
    PROVE  IInv'
<1>1. /\ pc[s] = "send" /\ d \in out[s].dsts /\ mu[d] = NoSession
      /\ UNCHANGED <<state, user, remote, claims, ctxDone, conn, closed, wire, byFull, byBare>>
  BY DEF lockForSend, routerVars
<1>2. CASE ctxDone \/ closed[d]
  <2>1. SendFailed(s, d) /\ UNCHANGED mu
    BY <1>2 DEF lockForSend
  <2>2. LocalStep(s)
    BY <2>1, SendFailedIsLocal DEF IInv
  <2> QED BY <1>1, <2>1, <2>2, LocalPreserves DEF sharedVars, routerVars
<1>3. CASE ~(ctxDone \/ closed[d])
  <2>1. mu' = [mu EXCEPT ![d] = s] /\ pc' = [pc EXCEPT ![s] = "write"] /\ out' = out
    BY <1>3 DEF lockForSend, Goto
  <2>2. TypeOK'
    BY <1>1, <2>1 DEF IInv, TypeOK, RouterTypeOK, PCs
  <2>3. RInv'
    <3>1. (\A t \in Sessions \ {s} : pc'[t] = pc[t]) /\ pc'[s] = "write"
      BY <2>1 DEF IInv, TypeOK
    <3> QED BY <1>1, <3>1, QuietStep DEF IInv, RInv
  <2>4. NoHoldAndWait'
    <3> SUFFICES ASSUME NEW t \in Sessions
                 PROVE  LET held == {e \in Sessions : mu'[e] = t}
                        IN  IF pc'[t] = "write" THEN \E e \in out[t].dsts : held = {e}
                                                ELSE held = {}
      BY <2>1 DEF NoHoldAndWait
    <3>1. \A e \in Sessions : mu'[e] = IF e = d THEN s ELSE mu[e]
      BY <2>1 DEF IInv, TypeOK
    <3>2. CASE t = s
      <4>1. {e \in Sessions : mu[e] = s} = {}
        BY <1>1 DEF IInv, NoHoldAndWait
      <4>2. {e \in Sessions : mu'[e] = s} = {d}
        BY <3>1, <4>1
      <4>3. pc'[s] = "write"
        BY <2>1 DEF IInv, TypeOK
      <4> QED BY <1>1, <3>2, <4>2, <4>3
    <3>3. CASE t # s
      <4>1. {e \in Sessions : mu'[e] = t} = {e \in Sessions : mu[e] = t} /\ pc'[t] = pc[t]
        BY <1>1, <2>1, <3>1, <3>3, StreamAssumption DEF IInv, TypeOK
      <4> QED BY <4>1 DEF IInv, NoHoldAndWait
    <3> QED BY <3>2, <3>3
  <2>5. RepliesAreOwn' /\ StaleTargetsKeepAccount'
    BY <1>1, <2>1 DEF IInv, RepliesAreOwn, StaleTargetsKeepAccount
  <2> QED BY <2>2, <2>3, <2>4, <2>5 DEF IInv, RInv
<1> QED BY <1>2, <1>3

\* The write under the mutex, which is released whatever comes of it
\* (session.go:62-73).
LEMMA writeStanzaPreserves ==
    ASSUME IInv, NEW s \in Sessions, NEW d \in Sessions, writeStanza(s, d)
    PROVE  IInv'
<1>1. /\ pc[s] = "write" /\ mu[d] = s /\ mu' = [mu EXCEPT ![d] = NoSession]
      /\ UNCHANGED <<state, user, remote, claims, ctxDone, conn, closed, byFull, byBare>>
  BY DEF writeStanza, routerVars
<1>2. SendFailed(s, d) \/ Sent(s, d)
  BY DEF writeStanza
<1>3. LocalStep(s)
  BY <1>2, SendFailedIsLocal, SentIsLocal DEF IInv
<1>4. TypeOK'
  <2>1. wire' \in [Sessions -> 0 .. WireCap]
    BY StreamAssumption DEF IInv, TypeOK, writeStanza
  <2>2. mu' \in [Sessions -> Sessions \cup {NoSession}]
    BY <1>1 DEF IInv, TypeOK
  <2> QED BY <1>1, <1>3, <2>1, <2>2 DEF IInv, TypeOK, RouterTypeOK, LocalStep
<1>5. RInv'
  BY <1>1, <1>3, QuietStep DEF IInv, RInv, LocalStep
<1>6. NoHoldAndWait'
  <2> SUFFICES ASSUME NEW t \in Sessions
               PROVE  LET held == {e \in Sessions : mu'[e] = t}
                      IN  IF pc'[t] = "write" THEN \E e \in out'[t].dsts : held = {e}
                                              ELSE held = {}
    BY DEF NoHoldAndWait
  <2>1. \A e \in Sessions : mu'[e] = IF e = d THEN NoSession ELSE mu[e]
    BY <1>1 DEF IInv, TypeOK
  <2>2. CASE t = s
    <3>1. {e \in Sessions : mu[e] = s} = {d}
      BY <1>1 DEF IInv, NoHoldAndWait
    <3>2. {e \in Sessions : mu'[e] = s} = {}
      BY <2>1, <3>1, StreamAssumption
    <3> QED BY <1>3, <2>2, <3>2 DEF LocalStep
  <2>3. CASE t # s
    <3>1. {e \in Sessions : mu'[e] = t} = {e \in Sessions : mu[e] = t}
          /\ pc'[t] = pc[t] /\ out'[t] = out[t]
      BY <1>1, <1>3, <2>1, <2>3, StreamAssumption DEF LocalStep
    <3> QED BY <3>1 DEF IInv, NoHoldAndWait
  <2> QED BY <2>2, <2>3
<1>7. RepliesAreOwn' /\ StaleTargetsKeepAccount'
  BY <1>1, <1>3, QuietWork DEF IInv, LocalStep
<1> QED BY <1>4, <1>5, <1>6, <1>7 DEF IInv, RInv

\* What clients and the operator do changes no field the invariant is about.
LEMMA EnvironmentPreserves ==
    ASSUME IInv,
           cancel \/ UNCHANGED vars
           \/ \E s \in Sessions : clientReads(s) \/ clientVanishes(s)
    PROVE  IInv'
<1>1. UNCHANGED <<pc, state, user, remote, out, claims, closed, mu, byFull, byBare>>
  BY DEF cancel, clientReads, clientVanishes, vars, localVars, sharedVars, routerVars
<1>2. wire' \in [Sessions -> 0 .. WireCap]
  BY StreamAssumption
  DEF IInv, TypeOK, cancel, clientReads, clientVanishes, vars, sharedVars
<1>3. ctxDone' \in BOOLEAN /\ conn' \in [Sessions -> {"none", "up", "gone"}]
  BY DEF IInv, TypeOK, cancel, clientReads, clientVanishes, vars, sharedVars
<1>4. TypeOK'
  BY <1>1, <1>2, <1>3 DEF IInv, TypeOK, RouterTypeOK
<1>5. RInv'
  BY <1>1, QuietStep DEF IInv, RInv
<1>6. RepliesAreOwn' /\ StaleTargetsKeepAccount' /\ NoHoldAndWait'
  BY <1>1 DEF IInv, RepliesAreOwn, StaleTargetsKeepAccount, NoHoldAndWait
<1> QED BY <1>4, <1>5, <1>6 DEF IInv, RInv

-----------------------------------------------------------------------------
\* The invariant holds initially.
LEMMA InitIInv == Init => IInv
<1> SUFFICES ASSUME Init PROVE IInv
  OBVIOUS
<1>1. TypeOK
  <2>1. RouterTypeOK
    BY DEF Init, RouterInit, RouterTypeOK
  <2>2. out \in [Sessions -> Work]
    BY DEF Init, NoWork, Work, JIDs
  <2>3. wire \in [Sessions -> 0 .. WireCap] /\ remote \in [Sessions -> JIDs]
    BY StreamAssumption DEF Init, JIDs
  <2> QED BY <2>1, <2>2, <2>3 DEF Init, TypeOK, PCs
<1>2. IndexesAgree
  BY DEF Init, RouterInit, IndexesAgree, Index
<1>3. SessionConsistent
  BY RouterAssumption DEF Init, SessionConsistent, Has, ZeroJID, FullJIDs
<1>4. RepliesAreOwn /\ StaleTargetsKeepAccount
  BY DEF Init, NoWork, RepliesAreOwn, StaleTargetsKeepAccount
<1>5. RoutesToOwner /\ UncontestedIsReachable /\ GhostsAreRebound
  BY DEF Init, RouterInit, RoutesToOwner, UncontestedIsReachable, GhostsAreRebound, Has
<1>6. NoHoldAndWait
  BY StreamAssumption DEF Init, NoHoldAndWait
<1> QED BY <1>1, <1>2, <1>3, <1>4, <1>5, <1>6 DEF IInv

\* Every step keeps it.
LEMMA NextIInv == IInv /\ [Next]_vars => IInv'
<1> SUFFICES ASSUME IInv, [Next]_vars PROVE IInv'
  OBVIOUS
<1>1. CASE UNCHANGED vars
  BY <1>1, EnvironmentPreserves
<1>2. ASSUME NEW s \in Sessions, serveSession(s) PROVE IInv'
  BY <1>2, serveSessionPreserves
<1>3. ASSUME NEW s \in Sessions, Handlers(s) PROVE IInv'
  <2>0. CASE skipElement(s)
    BY <2>0, GotoIsLocal, LocalPreserves DEF skipElement, Ignore, Reading, IInv, PCs
  <2>1. CASE readStreamOpen(s)
    BY <2>1, GotoIsLocal, LocalPreserves DEF readStreamOpen, Reading, IInv, PCs
  <2>2. CASE handleStartTLS(s)
    BY <2>2, ReplyIsLocal, LocalPreserves DEF handleStartTLS, Reading, IInv
  <2>3. CASE handleSASLAuth(s)
    BY <2>3, handleSASLAuthPreserves
  <2>4. CASE handleBindIQ(s)
    BY <2>4, handleBindIQPreserves
  <2>5. CASE handleMessage(s)
    <3>1. LocalStep(s)
      BY <2>5, RouteIsLocal, GotoIsLocal DEF handleMessage, Ignore, IInv, RInv, PCs
    <3> QED BY <2>5, <3>1, LocalPreserves DEF handleMessage, Reading
  <2>6. CASE handleIQ(s)
    <3>1. LocalStep(s)
      BY <2>6, RouteIQIsLocal, ReplyIsLocal, GotoIsLocal DEF handleIQ, Ignore, IInv, RInv, PCs
    <3> QED BY <2>6, <3>1, LocalPreserves DEF handleIQ, Reading
  <2>7. CASE handleRegistrationIQ(s)
    BY <2>7, ReplyIsLocal, LocalPreserves DEF handleRegistrationIQ, Reading, IInv
  <2> QED BY <1>3, <2>0, <2>1, <2>2, <2>3, <2>4, <2>5, <2>6, <2>7 DEF Handlers
<1>4. ASSUME NEW s \in Sessions, readFails(s) PROVE IInv'
  BY <1>4, GotoIsLocal, LocalPreserves DEF readFails, IInv, PCs
<1>5. ASSUME NEW s \in Sessions, Progress(s) PROVE IInv'
  <2>1. CASE checkContext(s)
    BY <2>1, GotoIsLocal, LocalPreserves DEF checkContext, IInv, PCs
  <2>2. CASE StartTLS(s)
    BY <2>2, StartTLSPreserves
  <2>3. CASE fallThrough(s)
    <3>1. LocalStep(s)
      BY <2>3, RouteIQIsLocal, ReplyIsLocal DEF fallThrough, IInv, RInv
    <3> QED BY <2>3, <3>1, LocalPreserves DEF fallThrough
  <2>4. CASE sendDone(s)
    <3>1. LocalStep(s)
      BY <2>4 DEF sendDone, Goto, LocalStep, IInv, TypeOK, Work, NoWork, PCs, JIDs
    <3> QED BY <2>4, <3>1, LocalPreserves DEF sendDone
  <2>5. CASE deferredUnregister(s)
    BY <2>5, deferredUnregisterPreserves
  <2> QED BY <1>5, <2>1, <2>2, <2>3, <2>4, <2>5 DEF Progress
<1>6. ASSUME NEW s \in Sessions, Waiting(s) PROVE IInv'
  BY <1>6, writeStreamPreserves, ClosePreserves, lockForSendPreserves, writeStanzaPreserves
  DEF Waiting
<1>7. CASE cancel \/ finished \/ \E s \in Sessions : clientReads(s) \/ clientVanishes(s)
  BY <1>7, EnvironmentPreserves DEF finished
<1> QED BY <1>1, <1>2, <1>3, <1>4, <1>5, <1>6, <1>7 DEF Next

\* xmppd keeps the routing invariants for any number of clients: see the
\* comments of the conjuncts in XmppdStream and SessionRouter.
THEOREM RoutingInvariant == Spec => []IInv
<1>1. Init => IInv
  BY InitIInv
<1>2. IInv /\ [Next]_vars => IInv'
  BY NextIInv
<1> QED BY <1>1, <1>2, PTL DEF Spec

\* The fields of every session and the table stay within their types.
THEOREM TypeCorrect == Spec => []TypeOK
<1>1. IInv => TypeOK
  BY DEF IInv
<1> QED BY <1>1, RoutingInvariant, PTL

\* The two maps of sessionRouter never disagree (stream.go:39-71).
THEOREM TableIsIndexed == Spec => []IndexesAgree
<1>1. IInv => IndexesAgree
  BY DEF IInv
<1> QED BY <1>1, RoutingInvariant, PTL

\* The table leads only to sessions that authenticated as the account of the
\* address (stream.go:231-280, 317-355).
THEOREM OnlyOwnersAreRouted == Spec => []RoutesToOwner
<1>1. IInv => RoutesToOwner
  BY DEF IInv
<1> QED BY <1>1, RoutingInvariant, PTL

\* A stanza on its way goes only to sessions of its account, however stale the
\* targets snapshot is (stream.go:73-98, 379-445).
THEOREM SnapshotsAreSafe == Spec => []StaleTargetsKeepAccount
<1>1. IInv => StaleTargetsKeepAccount
  BY DEF IInv
<1> QED BY <1>1, RoutingInvariant, PTL

\* Nobody but the session itself removes an address only it has bound
\* (stream.go:55-71, 135-137).
THEOREM UncontestedStays == Spec => []UncontestedIsReachable
<1>1. IInv => UncontestedIsReachable
  BY DEF IInv
<1> QED BY <1>1, RoutingInvariant, PTL

\* Only a session that bound more than one address outlives its stream in the
\* table (stream.go:135-137, 345-347).
THEOREM GhostsOnlyAfterRebinding == Spec => []GhostsAreRebound
<1>1. IInv => GhostsAreRebound
  BY DEF IInv
<1> QED BY <1>1, RoutingInvariant, PTL

\* No goroutine waits for a session's mutex while it holds one, so senders do
\* not deadlock on mutexes (session.go:61-111).
THEOREM MutexesAreNotNested == Spec => []NoHoldAndWait
<1>1. IInv => NoHoldAndWait
  BY DEF IInv
<1> QED BY <1>1, RoutingInvariant, PTL
=============================================================================
