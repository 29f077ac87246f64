---------------------------- MODULE XmppdStream ----------------------------
(***************************************************************************)
(* The server side of client streams in xmppd: cmd/xmppd/stream.go on top  *)
(* of session.go.  One goroutine per accepted connection runs serveSession *)
(* and serveStream; goroutines meet in the routing table (SessionRouter)   *)
(* and in Session.mu, which a goroutine holds while it writes a stanza to  *)
(* another session's connection.                                           *)
(*                                                                         *)
(* A step of the goroutine of s ends where it can block or where another   *)
(* goroutine can see the difference: reading an element, taking a mutex,   *)
(* writing to a connection, touching the table.  What an element says      *)
(* beyond its kind and its address is left out.  A connection holds at     *)
(* most WireCap written and unread elements; a write blocks when it is     *)
(* full and fails when the connection is gone.                             *)
(***************************************************************************)
EXTENDS SessionRouter, Naturals

CONSTANTS
    NoSession,      \* nobody holds the mutex
    TLSConfigured,  \* cfg names a certificate and a key (buildTLSConfig)
    WireCap         \* elements a connection takes before a write blocks

ASSUME StreamAssumption ==
    /\ NoSession \notin Sessions
    /\ TLSConfigured \in BOOLEAN
    /\ WireCap \in Nat \ {0}

VARIABLES
    ctxDone,    \* the server's context is cancelled
    conn,       \* "none", "up" or "gone": the transport of each session
    pc,         \* where the goroutine of each session is
    state,      \* Session.state: the set of flags that are on
    user,       \* authenticatedUser, the local variable of serveSession
    remote,     \* Session.remoteJID
    closed,     \* Session.closed is a closed channel
    mu,         \* which goroutine holds Session.mu
    wire,       \* written and unread elements of each connection
    out,        \* what the goroutine of each session has left to send
    claims      \* history: the full JIDs each session has ever bound

localVars == <<pc, state, user, remote, out, claims>>
sharedVars == <<ctxDone, conn, closed, mu, wire>>
vars == <<localVars, sharedVars, routerVars>>

Flags == {"Secure", "Authenticated", "Bound", "Ready"}

PCs == {"idle", "loop", "token", "open", "send", "write", "handshake", "fall",
        "unregister", "close", "done"}

\* own: a reply to the goroutine's own client, whose failure ends the stream.
\* next: where the goroutine goes once everything is sent.  to: the address of
\* the stanza being routed (ZeroJID for a reply).
Work == [dsts : SUBSET Sessions, own : BOOLEAN, to : JIDs,
         next : {"loop", "handshake", "fall"}]

NoWork == [dsts |-> {}, own |-> FALSE, to |-> ZeroJID, next |-> "loop"]

Has(s, flag) == flag \in state[s]

Init ==
    /\ RouterInit
    /\ ctxDone = FALSE
    /\ conn = [s \in Sessions |-> "none"]
    /\ pc = [s \in Sessions |-> "idle"]
    /\ state = [s \in Sessions |-> {}]
    /\ user = [s \in Sessions |-> NoUser]
    /\ remote = [s \in Sessions |-> ZeroJID]
    /\ closed = [s \in Sessions |-> FALSE]
    /\ mu = [s \in Sessions |-> NoSession]
    /\ wire = [s \in Sessions |-> 0]
    /\ out = [s \in Sessions |-> NoWork]
    /\ claims = [s \in Sessions |-> {}]

-----------------------------------------------------------------------------
(* Steps of the goroutine that only move it on. *)

Goto(s, l) == pc' = [pc EXCEPT ![s] = l]

Send(s, work) ==
    /\ Goto(s, "send")
    /\ out' = [out EXCEPT ![s] = work]

\* Session.Send, SendRaw or SendElement to the goroutine's own client.
Reply(s, next) ==
    Send(s, [dsts |-> {s}, own |-> TRUE, to |-> ZeroJID, next |-> next])

\* The handler returned nil without sending anything.
Ignore(s) == Goto(s, "loop") /\ UNCHANGED out

-----------------------------------------------------------------------------
(* The life of the goroutine outside the loop. *)

\* handleConn starts the goroutine.  A certificate that does not load ends it
\* before the deferred unregister is in place.
serveSession(s) ==
    /\ pc[s] = "idle"
    /\ conn' = [conn EXCEPT ![s] = "up"]
    /\ \/ Goto(s, "loop")
       \/ TLSConfigured /\ Goto(s, "close")
    /\ UNCHANGED <<state, user, remote, out, claims, ctxDone, closed, mu, wire,
                   routerVars>>

\* The select at the head of the loop: a cancelled context ends the stream.
checkContext(s) ==
    /\ pc[s] = "loop"
    /\ Goto(s, IF ctxDone THEN "unregister" ELSE "token")
    /\ UNCHANGED <<state, user, remote, out, claims, sharedVars, routerVars>>

\* reader.Token, Skip or DecodeElement fails: end of stream, a broken
\* connection, or an element that does not decode.
readFails(s) ==
    /\ pc[s] = "token"
    /\ Goto(s, "unregister")
    /\ UNCHANGED <<state, user, remote, out, claims, sharedVars, routerVars>>

\* Mutant: the table is cleaned with the account's bare address.
deferredUnregisterBare(s) ==
    /\ pc[s] = "unregister"
    /\ unregister(Bare(remote[s]))
    /\ Goto(s, "close")
    /\ UNCHANGED <<state, user, remote, out, claims, sharedVars>>

\* The deferred call: it removes the address the session has NOW.
deferredUnregister(s) ==
    /\ pc[s] = "unregister"
    /\ unregister(remote[s])
    /\ Goto(s, "close")
    /\ UNCHANGED <<state, user, remote, out, claims, sharedVars>>

\* The deferred Session.Close of handleConn, under the session's mutex.
Close(s) ==
    /\ pc[s] = "close"
    /\ mu[s] = NoSession
    /\ closed' = [closed EXCEPT ![s] = TRUE]
    /\ conn' = [conn EXCEPT ![s] = "gone"]
    /\ wire' = [wire EXCEPT ![s] = 0]
    /\ Goto(s, "done")
    /\ UNCHANGED <<state, user, remote, out, claims, ctxDone, mu, routerVars>>

-----------------------------------------------------------------------------
(* Elements the client sends.  Each handler reads the whole element, decides *)
(* and either returns or has something to send.                             *)

Reading(s) == pc[s] = "token"

\* Anything the loop has no case for: white space, an end tag, another element.
skipElement(s) ==
    /\ Reading(s)
    /\ Ignore(s)
    /\ UNCHANGED <<state, user, remote, claims, sharedVars, routerVars>>

\* A stream header, at the start and after STARTTLS and SASL.
readStreamOpen(s) ==
    /\ Reading(s)
    /\ Goto(s, "open")
    /\ UNCHANGED <<state, user, remote, out, claims, sharedVars, routerVars>>

\* writeStreamStart and writeStreamFeatures use the writer without Session.mu
\* and without looking at ctx or closed.
writeStream(s) ==
    /\ pc[s] = "open"
    /\ \/ /\ conn[s] = "gone"
          /\ Goto(s, "unregister")
          /\ UNCHANGED wire
       \/ /\ conn[s] = "up"
          /\ wire[s] < WireCap
          /\ wire' = [wire EXCEPT ![s] = @ + 1]
          /\ Goto(s, "loop")
    /\ UNCHANGED <<state, user, remote, out, claims, ctxDone, conn, closed, mu,
                   routerVars>>

handleStartTLS(s) ==
    /\ Reading(s)
    /\ Reply(s, IF ~TLSConfigured \/ Has(s, "Secure") THEN "loop" ELSE "handshake")
    /\ UNCHANGED <<state, user, remote, claims, sharedVars, routerVars>>

\* Transport.StartTLS after the proceed element has been written.
StartTLS(s) ==
    /\ pc[s] = "handshake"
    /\ \/ /\ state' = [state EXCEPT ![s] = @ \cup {"Secure"}]
          /\ conn[s] = "up"
          /\ Goto(s, "loop")
       \/ /\ Goto(s, "unregister")
          /\ UNCHANGED state
    /\ UNCHANGED <<user, remote, out, claims, sharedVars, routerVars>>

\* One failure stands for every reason: a second attempt, another mechanism, a
\* malformed payload, no store, a store error, a wrong password, a bad name.
handleSASLAuth(s) ==
    /\ Reading(s)
    /\ Reply(s, "loop")
    /\ \/ UNCHANGED <<state, user, remote>>
       \/ \E u \in Users :
            /\ ~Has(s, "Authenticated")
            /\ user' = [user EXCEPT ![s] = u]
            /\ remote' = [remote EXCEPT ![s] = [user |-> u, res |-> NoResource]]
            /\ state' = [state EXCEPT ![s] = @ \cup {"Authenticated"}]
    /\ UNCHANGED <<claims, sharedVars, routerVars>>

\* Mutant: binding does not ask for authentication.
handleBindIQUnauthenticated(s) ==
    /\ Reading(s)
    /\ Reply(s, "loop")
    /\ \E r \in Resources :
            LET full == [user |-> user[s], res |-> r]
            IN  /\ remote' = [remote EXCEPT ![s] = full]
                /\ state' = [state EXCEPT ![s] = @ \cup {"Bound", "Ready"}]
                /\ claims' = [claims EXCEPT ![s] = @ \cup {full}]
                /\ register(full, s)
    /\ UNCHANGED <<user, sharedVars>>

\* Mutant: the account is taken from the request.
handleBindIQAnyAccount(s) ==
    /\ Reading(s)
    /\ Reply(s, "loop")
    /\ \E full \in FullJIDs :
            /\ Has(s, "Authenticated")
            /\ remote' = [remote EXCEPT ![s] = full]
            /\ state' = [state EXCEPT ![s] = @ \cup {"Bound", "Ready"}]
            /\ claims' = [claims EXCEPT ![s] = @ \cup {full}]
            /\ register(full, s)
    /\ UNCHANGED <<user, sharedVars>>

\* A resource binding request.  Nothing stops a session from binding again, or
\* from taking the address of another session.
handleBindIQ(s) ==
    /\ Reading(s)
    /\ Reply(s, "loop")
    /\ \/ UNCHANGED <<state, remote, claims, routerVars>>
       \/ \E r \in Resources :
            LET full == [user |-> user[s], res |-> r]
            IN  /\ Has(s, "Authenticated")
                /\ remote' = [remote EXCEPT ![s] = full]
                /\ state' = [state EXCEPT ![s] = @ \cup {"Bound", "Ready"}]
                /\ claims' = [claims EXCEPT ![s] = @ \cup {full}]
                /\ register(full, s)
    /\ UNCHANGED <<user, sharedVars>>

\* Mutant: the sender is not left out.
RouteToSelfToo(s, to) ==
    Send(s, [dsts |-> targets(to), own |-> FALSE, to |-> to, next |-> "loop"])

\* The sessions a stanza goes to, as the table is now; never back to its sender.
Route(s, to) ==
    Send(s, [dsts |-> targets(to) \ {s}, own |-> FALSE, to |-> to, next |-> "loop"])

\* A message or a presence (one without an address goes nowhere).
handleMessage(s) ==
    /\ Reading(s)
    /\ IF Has(s, "Ready") THEN \E to \in JIDs : Route(s, to) ELSE Ignore(s)
    /\ UNCHANGED <<state, user, remote, claims, sharedVars, routerVars>>

\* A request that finds nobody is answered with an error; a request whose only
\* target is its sender is neither answered nor delivered.
routeIQ(s, to, request) ==
    IF IsZero(to) \/ targets(to) = {}
    THEN IF request THEN Reply(s, "loop") ELSE Ignore(s)
    ELSE Route(s, to)

\* An IQ that is neither a binding nor a registration request.
handleIQ(s) ==
    /\ Reading(s)
    /\ \E request \in BOOLEAN :
         IF Has(s, "Ready")
         THEN \E to \in JIDs : routeIQ(s, to, request)
         ELSE IF request THEN Reply(s, "loop") ELSE Ignore(s)
    /\ UNCHANGED <<state, user, remote, claims, sharedVars, routerVars>>

\* A registration request: registrationHandler.Handle answers it (module
\* Registration has the details), then handleIQ goes on with the same IQ.
handleRegistrationIQ(s) ==
    /\ Reading(s)
    /\ Reply(s, "fall")
    /\ UNCHANGED <<state, user, remote, claims, sharedVars, routerVars>>

fallThrough(s) ==
    /\ pc[s] = "fall"
    /\ IF Has(s, "Ready")
       THEN \E to \in JIDs : routeIQ(s, to, TRUE)
       ELSE Reply(s, "loop")
    /\ UNCHANGED <<state, user, remote, claims, sharedVars, routerVars>>

-----------------------------------------------------------------------------
(* Sending: Session.Send, SendRaw and SendElement of session.go. *)

\* The goroutine has dealt with d.
Sent(s, d) ==
    /\ out' = [out EXCEPT ![s].dsts = @ \ {d}]
    /\ Goto(s, "send")

\* Mutant: after a failed send routing tries the same target again.
SendFailedRetry(s, d) ==
    IF out[s].own THEN Goto(s, "unregister") /\ UNCHANGED out
    ELSE Goto(s, "send") /\ UNCHANGED out

\* The send to d failed: a reply gives up the stream, routing logs and goes on.
SendFailed(s, d) ==
    IF out[s].own THEN Goto(s, "unregister") /\ UNCHANGED out ELSE Sent(s, d)

\* Mutant: the mutex is not released on the early return.
lockForSendLeak(s, d) ==
    /\ pc[s] = "send"
    /\ d \in out[s].dsts
    /\ mu[d] = NoSession
    /\ mu' = [mu EXCEPT ![d] = s]
    /\ IF ctxDone \/ closed[d]
       THEN SendFailed(s, d)
       ELSE Goto(s, "write") /\ UNCHANGED out
    /\ UNCHANGED <<state, user, remote, claims, ctxDone, conn, closed, wire, routerVars>>

\* Takes d's mutex and looks at ctx and closed; a write follows under the mutex.
lockForSend(s, d) ==
    /\ pc[s] = "send"
    /\ d \in out[s].dsts
    /\ mu[d] = NoSession
    /\ IF ctxDone \/ closed[d]
       THEN SendFailed(s, d) /\ UNCHANGED mu
       ELSE /\ mu' = [mu EXCEPT ![d] = s]
            /\ Goto(s, "write")
            /\ UNCHANGED out
    /\ UNCHANGED <<state, user, remote, claims, ctxDone, conn, closed, wire, routerVars>>

writeStanza(s, d) ==
    /\ pc[s] = "write"
    /\ mu[d] = s
    /\ \/ /\ conn[d] = "gone"
          /\ SendFailed(s, d)
          /\ UNCHANGED wire
       \/ /\ conn[d] = "up"
          /\ wire[d] < WireCap
          /\ wire' = [wire EXCEPT ![d] = @ + 1]
          /\ Sent(s, d)
    /\ mu' = [mu EXCEPT ![d] = NoSession]
    /\ UNCHANGED <<state, user, remote, claims, ctxDone, conn, closed, routerVars>>

\* Everything is sent: the handler goes on or returns to the loop.
sendDone(s) ==
    /\ pc[s] = "send"
    /\ out[s].dsts = {}
    /\ Goto(s, out[s].next)
    /\ out' = [out EXCEPT ![s] = NoWork]
    /\ UNCHANGED <<state, user, remote, claims, sharedVars, routerVars>>

-----------------------------------------------------------------------------
(* The environment: clients read or vanish, the process is told to stop. *)

clientReads(s) ==
    /\ conn[s] = "up"
    /\ wire[s] > 0
    /\ wire' = [wire EXCEPT ![s] = @ - 1]
    /\ UNCHANGED <<localVars, ctxDone, conn, closed, mu, routerVars>>

clientVanishes(s) ==
    /\ conn[s] = "up"
    /\ conn' = [conn EXCEPT ![s] = "gone"]
    /\ wire' = [wire EXCEPT ![s] = 0]
    /\ UNCHANGED <<localVars, ctxDone, closed, mu, routerVars>>

cancel ==
    /\ ~ctxDone
    /\ ctxDone' = TRUE
    /\ UNCHANGED <<localVars, conn, closed, mu, wire, routerVars>>

\* The process was told to stop and every goroutine has returned.
finished ==
    /\ ctxDone
    /\ \A s \in Sessions : pc[s] = "done"
    /\ UNCHANGED vars

Handlers(s) ==
    \/ skipElement(s)
    \/ readStreamOpen(s)
    \/ handleStartTLS(s)
    \/ handleSASLAuth(s)
    \/ handleBindIQ(s)
    \/ handleMessage(s)
    \/ handleIQ(s)
    \/ handleRegistrationIQ(s)

\* What the goroutine does without waiting for anybody.
Progress(s) ==
    \/ checkContext(s)
    \/ StartTLS(s)
    \/ fallThrough(s)
    \/ sendDone(s)
    \/ deferredUnregister(s)

\* What it does once a mutex is free or a connection takes more.
Waiting(s) ==
    \/ writeStream(s)
    \/ Close(s)
    \/ \E d \in Sessions : lockForSend(s, d) \/ writeStanza(s, d)

Next ==
    \/ \E s \in Sessions :
        \/ serveSession(s)
        \/ Handlers(s)
        \/ readFails(s)
        \/ Progress(s)
        \/ Waiting(s)
        \/ clientReads(s)
        \/ clientVanishes(s)
    \/ cancel
    \/ finished

Spec == Init /\ [][Next]_vars

\* A goroutine that can run does.  One that waits for a mutex or for room in a
\* connection gets it when it becomes free again and again: sync.Mutex and the
\* write lock of a net.Conn hand over in FIFO order to those that wait long.
\* Clients read what is written to them.  A connection that is gone runs out of
\* buffered input.
Fairness ==
    \A s \in Sessions :
        /\ WF_vars(Progress(s))
        /\ SF_vars(Waiting(s))
        /\ WF_vars(clientReads(s))
        /\ SF_vars(conn[s] = "gone" /\ readFails(s))

FairSpec == Spec /\ Fairness

-----------------------------------------------------------------------------
(* Properties. *)

TypeOK ==
    /\ RouterTypeOK
    /\ ctxDone \in BOOLEAN
    /\ conn \in [Sessions -> {"none", "up", "gone"}]
    /\ pc \in [Sessions -> PCs]
    /\ state \in [Sessions -> SUBSET Flags]
    /\ user \in [Sessions -> Users \cup {NoUser}]
    /\ remote \in [Sessions -> JIDs]
    /\ closed \in [Sessions -> BOOLEAN]
    /\ mu \in [Sessions -> Sessions \cup {NoSession}]
    /\ wire \in [Sessions -> 0 .. WireCap]
    /\ out \in [Sessions -> Work]
    /\ claims \in [Sessions -> SUBSET FullJIDs]

\* Whatever was bound, rebound, taken over and cleaned up before, the table
\* leads from an address only to a session that authenticated as the account
\* of that address and has bound it.  handleSASLAuth refuses a second
\* authentication (stream.go:232); handleBindIQ builds the address from the
\* authenticated name (stream.go:322-347).
RoutesToOwner ==
    \A f \in DOMAIN byFull :
        /\ {"Authenticated", "Bound", "Ready"} \subseteq state[byFull[f]]
        /\ user[byFull[f]] = f.user
        /\ f \in claims[byFull[f]]

\* targets returns a snapshot (stream.go:78-97) and the sends follow after the
\* lock is released: sessions may rebind, end and be replaced in between.  A
\* stanza on its way still goes only to sessions of the account it is for.
StaleTargetsKeepAccount ==
    \A s \in Sessions : \A d \in out[s].dsts :
        out[s].own \/ ("Ready" \in state[d] /\ user[d] = out[s].to.user /\ d # s)

\* A session that is Ready and has not cleaned up is found under its address,
\* provided no other session has ever bound that address: registration by one
\* session and clean-up by another (stream.go:55-71, 135-137) cannot lose it.
UncontestedIsReachable ==
    \A s \in Sessions :
        /\ Has(s, "Ready")
        /\ pc[s] \notin {"close", "done"}
        /\ \A t \in Sessions \ {s} : remote[s] \notin claims[t]
        => remote[s] \in DOMAIN byFull /\ byFull[remote[s]] = s

\* A session that has ended stays in the table only under an address it gave
\* up by binding another one: the deferred unregister removes just the last.
GhostsAreRebound ==
    \A f \in DOMAIN byFull :
        pc[byFull[f]] \in {"close", "done"} => f # remote[byFull[f]]

\* A goroutine holds a session's mutex exactly while it writes to it, and never
\* holds one while it waits for another, so goroutines that send to each other
\* cannot wait in a circle (session.go:61-111).
NoHoldAndWait ==
    \A s \in Sessions :
        LET held == {d \in Sessions : mu[d] = s}
        IN  IF pc[s] = "write"
            THEN \E d \in out[s].dsts : held = {d}
            ELSE held = {}

\* The goroutine of a client that vanished ends: its table entry goes and its
\* session is closed, even when others are writing to it or it to them.
VanishedIsCleanedUp ==
    \A s \in Sessions : conn[s] = "gone" ~> pc[s] = "done"

\* Routing one stanza ends, whatever the targets do meanwhile.
RoutingEnds ==
    \A s \in Sessions : pc[s] \in {"send", "write"} ~> pc[s] \notin {"send", "write"}
=============================================================================
