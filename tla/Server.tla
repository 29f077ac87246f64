------------------------------- MODULE Server ------------------------------
(***************************************************************************)
(* The life of a Server (server.go): the goroutine in ListenAndServe, one  *)
(* goroutine per connection in handleConn, and one that calls Close, with  *)
(* Server.mu, the map of sessions by remote address and the mutex of each  *)
(* session.                                                                *)
(*                                                                         *)
(* The session handler is the application's (cmd/xmppd's is the subject of *)
(* XmppdStream): it writes, may return at any time, and returns once its   *)
(* connection is gone.  A write holds Session.mu until the client reads or *)
(* its connection breaks.  The plugin manager is reduced to how far        *)
(* Initialize and Close came, which PluginManager looks at in detail.      *)
(***************************************************************************)
EXTENDS Naturals, FiniteSets

CONSTANTS
    Conns,        \* connections that may come in
    Addrs,        \* remote addresses they may come from
    EarlyClose,   \* may Close be called before ListenAndServe accepts
    NoAddr, NoConn

ASSUME ServerAssumption ==
    /\ EarlyClose \in BOOLEAN
    /\ NoAddr \notin Addrs
    /\ NoConn \notin Conns

VARIABLES
    serving,      \* where ListenAndServe is
    closer,       \* where Close is
    handler,      \* where handleConn is, for each connection
    mu,           \* Server.mu is held by Close (others hold it within a step)
    closed,       \* Server.closed
    cancelled,    \* the context of ListenAndServe
    listener,     \* the socket
    hasListener,  \* Server.listener # nil
    hasPlugins,   \* Server.plugins # nil
    plugins,      \* what became of the plugins
    storage,      \* what became of the storage
    sessions,     \* Server.sessions
    todo,         \* Close: sessions its loop has not come to
    remote,       \* remote address of each connection
    shut,         \* connections whose session was closed
    writing,      \* sessions whose mutex is held by a writer
    gone,         \* connections the client has left
    late,         \* history: connections registered after Close began
    shared        \* history: addresses that served two connections

serveVars == <<serving, cancelled, listener, hasListener, plugins>>
connVars  == <<handler, remote, shut, writing, gone, late, shared>>
vars == <<serveVars, closer, mu, closed, hasPlugins, storage, sessions, todo, connVars>>

Init ==
    /\ serving = "idle"
    /\ closer = "idle"
    /\ handler = [c \in Conns |-> "idle"]
    /\ mu = FALSE
    /\ closed = FALSE
    /\ cancelled = FALSE
    /\ listener = "none"
    /\ hasListener = FALSE
    /\ hasPlugins = FALSE
    /\ plugins = "none"
    /\ storage = "none"
    /\ sessions = [a \in Addrs |-> NoConn]
    /\ todo = {}
    /\ remote = [c \in Conns |-> NoAddr]
    /\ shut = {}
    /\ writing = {}
    /\ gone = {}
    /\ late = {}
    /\ shared = {}

-----------------------------------------------------------------------------
(* ListenAndServe and serve. *)

\* Storage.Init, which may fail.
initStorage ==
    /\ serving = "idle"
    /\ \/ storage' = "open" /\ serving' = "plugins"
       \/ serving' = "returned" /\ UNCHANGED storage
    /\ UNCHANGED <<cancelled, listener, hasListener, plugins, closer, mu, closed,
                   hasPlugins, sessions, todo, connVars>>

\* Register and Initialize of a new plugin manager.  When a plugin fails those
\* before it stay initialised.
initPlugins ==
    /\ serving = "plugins"
    /\ \/ plugins' = "ready" /\ serving' = "setPlugins"
       \/ plugins' = "partial" /\ serving' = "returned"
       \/ serving' = "returned" /\ UNCHANGED plugins
    /\ UNCHANGED <<cancelled, listener, hasListener, closer, mu, closed, hasPlugins,
                   storage, sessions, todo, connVars>>

\* The manager is stored without Server.mu.
setPlugins ==
    /\ serving = "setPlugins"
    /\ hasPlugins' = TRUE
    /\ serving' = "listen"
    /\ UNCHANGED <<cancelled, listener, hasListener, plugins, closer, mu, closed,
                   storage, sessions, todo, connVars>>

\* The certificate is loaded and the socket opened, which may fail.
listen ==
    /\ serving = "listen"
    /\ \/ listener' = "open" /\ serving' = "setListener"
       \/ serving' = "returned" /\ UNCHANGED listener
    /\ UNCHANGED <<cancelled, hasListener, plugins, closer, mu, closed, hasPlugins,
                   storage, sessions, todo, connVars>>

setListener ==
    /\ serving = "setListener"
    /\ ~mu
    /\ hasListener' = TRUE
    /\ serving' = "loop"
    /\ UNCHANGED <<cancelled, listener, plugins, closer, mu, closed, hasPlugins,
                   storage, sessions, todo, connVars>>

\* The select at the head of the loop in serve.
serve ==
    /\ serving = "loop"
    /\ serving' = IF cancelled \/ closed THEN "returned" ELSE "accept"
    /\ UNCHANGED <<cancelled, listener, hasListener, plugins, closer, mu, closed,
                   hasPlugins, storage, sessions, todo, connVars>>

\* A connection comes from an address that no connection still open here has.
accept(c, a) ==
    /\ serving = "accept"
    /\ listener = "open"
    /\ handler[c] = "idle"
    /\ \A d \in Conns : remote[d] = a => d \in shut
    /\ serving' = "loop"
    /\ handler' = [handler EXCEPT ![c] = "new"]
    /\ remote' = [remote EXCEPT ![c] = a]
    /\ shared' = IF \E d \in Conns : remote[d] = a THEN shared \cup {a} ELSE shared
    /\ UNCHANGED <<cancelled, listener, hasListener, plugins, closer, mu, closed,
                   hasPlugins, storage, sessions, todo, shut, writing, gone, late>>

\* Accept fails because the listener is closed, or for want of resources.
acceptFails ==
    /\ serving = "accept"
    /\ serving' = "returned"
    /\ UNCHANGED <<cancelled, listener, hasListener, plugins, closer, mu, closed,
                   hasPlugins, storage, sessions, todo, connVars>>

\* The caller of ListenAndServe cancels its context.
cancel ==
    /\ ~cancelled
    /\ cancelled' = TRUE
    /\ UNCHANGED <<serving, listener, hasListener, plugins, closer, mu, closed,
                   hasPlugins, storage, sessions, todo, connVars>>

-----------------------------------------------------------------------------
(* handleConn. *)

\* Mutant: a server that is closed takes no more sessions into its map, but runs
\* their handlers.
registerClosedNot(c) ==
    /\ handler[c] = "new"
    /\ ~mu
    /\ handler' = [handler EXCEPT ![c] = "running"]
    /\ sessions' = IF closed THEN sessions ELSE [sessions EXCEPT ![remote[c]] = c]
    /\ late' = IF closed THEN late \cup {c} ELSE late
    /\ UNCHANGED <<serveVars, closer, mu, closed, hasPlugins, storage, todo, remote,
                   shut, writing, gone, shared>>

register(c) ==
    /\ handler[c] = "new"
    /\ ~mu
    /\ handler' = [handler EXCEPT ![c] = "running"]
    /\ sessions' = [sessions EXCEPT ![remote[c]] = c]
    /\ late' = IF closed THEN late \cup {c} ELSE late
    /\ UNCHANGED <<serveVars, closer, mu, closed, hasPlugins, storage, todo, remote,
                   shut, writing, gone, shared>>

\* Some goroutine enters Session.Send and gets its mutex.
send(c) ==
    /\ handler[c] = "running"
    /\ c \notin shut \cup writing
    /\ writing' = writing \cup {c}
    /\ UNCHANGED <<serveVars, closer, mu, closed, hasPlugins, storage, sessions, todo,
                   handler, remote, shut, gone, late, shared>>

\* Mutant: the error path does not release the mutex.
sentLeak(c) ==
    /\ c \in writing
    /\ c \notin gone
    /\ writing' = writing \ {c}
    /\ UNCHANGED <<serveVars, closer, mu, closed, hasPlugins, storage, sessions, todo,
                   handler, remote, shut, gone, late, shared>>

\* The client has read what was written, or the connection broke.
sent(c) ==
    /\ c \in writing
    /\ writing' = writing \ {c}
    /\ UNCHANGED <<serveVars, closer, mu, closed, hasPlugins, storage, sessions, todo,
                   handler, remote, shut, gone, late, shared>>

\* The client leaves.
leave(c) ==
    /\ handler[c] \in {"new", "running"}
    /\ c \notin gone
    /\ gone' = gone \cup {c}
    /\ UNCHANGED <<serveVars, closer, mu, closed, hasPlugins, storage, sessions, todo,
                   handler, remote, shut, writing, late, shared>>

handlerReturns(c) ==
    /\ handler[c] = "running"
    /\ handler' = [handler EXCEPT ![c] = "closing"]
    /\ UNCHANGED <<serveVars, closer, mu, closed, hasPlugins, storage, sessions, todo,
                   remote, shut, writing, gone, late, shared>>

\* The deferred session.Close, which waits for Session.mu.
closeSession(c) ==
    /\ handler[c] = "closing"
    /\ c \notin writing
    /\ shut' = shut \cup {c}
    /\ handler' = [handler EXCEPT ![c] = "deleting"]
    /\ UNCHANGED <<serveVars, closer, mu, closed, hasPlugins, storage, sessions, todo,
                   remote, writing, gone, late, shared>>

\* Mutant: nothing is deleted any more once the server is closed.
deleteSessionOpen(c) ==
    /\ handler[c] = "deleting"
    /\ ~mu
    /\ handler' = [handler EXCEPT ![c] = "ended"]
    /\ sessions' = IF closed THEN sessions ELSE [sessions EXCEPT ![remote[c]] = NoConn]
    /\ UNCHANGED <<serveVars, closer, mu, closed, hasPlugins, storage, todo, remote,
                   shut, writing, gone, late, shared>>

\* The deferred delete, by address.
deleteSession(c) ==
    /\ handler[c] = "deleting"
    /\ ~mu
    /\ handler' = [handler EXCEPT ![c] = "ended"]
    /\ sessions' = [sessions EXCEPT ![remote[c]] = NoConn]
    /\ UNCHANGED <<serveVars, closer, mu, closed, hasPlugins, storage, todo, remote,
                   shut, writing, gone, late, shared>>

-----------------------------------------------------------------------------
(* Close.  A second call finds closed closed and changes nothing. *)

\* Mutant: the listener is left alone.
closeListenerNot == UNCHANGED listener

closeListener == listener' = IF hasListener THEN "closed" ELSE listener

Close ==
    /\ closer = "idle"
    /\ EarlyClose \/ serving \in {"loop", "accept", "returned"}
    /\ ~mu
    /\ mu' = TRUE
    /\ closed' = TRUE
    /\ closeListener
    /\ todo' = {sessions[a] : a \in Addrs} \ {NoConn}
    /\ closer' = "sessions"
    /\ UNCHANGED <<serving, cancelled, hasListener, plugins, hasPlugins, storage,
                   sessions, connVars>>

\* Mutant: the loop ends at the first session whose Close returns an error.
closeNextUntilError ==
    /\ closer = "sessions"
    /\ \E c \in todo :
        /\ c \notin writing
        /\ shut' = shut \cup {c}
        /\ \E err \in BOOLEAN : todo' = IF err THEN {} ELSE todo \ {c}
    /\ UNCHANGED <<serveVars, closer, mu, closed, hasPlugins, storage, sessions,
                   handler, remote, writing, gone, late, shared>>

\* Session.Close for one session of the map, which waits for its mutex.
closeNext ==
    /\ closer = "sessions"
    /\ \E c \in todo :
        /\ c \notin writing
        /\ shut' = shut \cup {c}
        /\ todo' = todo \ {c}
    /\ UNCHANGED <<serveVars, closer, mu, closed, hasPlugins, storage, sessions,
                   handler, remote, writing, gone, late, shared>>

closePlugins ==
    /\ closer = "sessions"
    /\ todo = {}
    /\ plugins' = IF hasPlugins THEN "closed" ELSE plugins
    /\ hasPlugins' = FALSE
    /\ closer' = "storage"
    /\ UNCHANGED <<serving, cancelled, listener, hasListener, mu, closed, storage,
                   sessions, todo, connVars>>

\* Mutant: Server.mu is not released.
closeStorageLocked ==
    /\ closer = "storage"
    /\ storage' = "closed"
    /\ closer' = "returned"
    /\ UNCHANGED <<serveVars, mu, closed, hasPlugins, sessions, todo, connVars>>

\* Storage.Close, and the deferred unlock.
closeStorage ==
    /\ closer = "storage"
    /\ storage' = "closed"
    /\ mu' = FALSE
    /\ closer' = "returned"
    /\ UNCHANGED <<serveVars, closed, hasPlugins, sessions, todo, connVars>>

-----------------------------------------------------------------------------

ListenAndServe ==
    \/ initStorage \/ initPlugins \/ setPlugins \/ listen \/ setListener \/ serve
    \/ \E c \in Conns, a \in Addrs : accept(c, a)
    \/ acceptFails

handleConn(c) ==
    \/ register(c) \/ send(c) \/ sent(c) \/ leave(c)
    \/ handlerReturns(c) \/ closeSession(c) \/ deleteSession(c)

Closing == Close \/ closeNext \/ closePlugins \/ closeStorage

Next == ListenAndServe \/ cancel \/ (\E c \in Conns : handleConn(c)) \/ Closing

Spec == Init /\ [][Next]_vars

\* Goroutines go on.  Accept returns on a closed listener, clients read or leave,
\* and a handler returns when its connection is gone.  The mutexes are not
\* starved: a goroutine waiting for one that is free again and again gets it.
Fairness ==
    /\ WF_vars(initPlugins \/ setPlugins \/ listen \/ serve)
    /\ SF_vars(setListener)
    /\ WF_vars(acceptFails /\ listener = "closed")
    /\ \A c \in Conns :
        /\ SF_vars(register(c)) /\ WF_vars(sent(c))
        /\ WF_vars(handlerReturns(c) /\ c \in gone \cup shut)
        /\ SF_vars(closeSession(c)) /\ SF_vars(deleteSession(c))
    /\ SF_vars(closeNext) /\ WF_vars(closePlugins) /\ WF_vars(closeStorage)

FairSpec == Spec /\ Fairness

-----------------------------------------------------------------------------
(* Properties. *)

TypeOK ==
    /\ serving \in {"idle", "plugins", "setPlugins", "listen", "setListener", "loop",
                    "accept", "returned"}
    /\ closer \in {"idle", "sessions", "storage", "returned"}
    /\ handler \in [Conns -> {"idle", "new", "running", "closing", "deleting", "ended"}]
    /\ {mu, closed, cancelled, hasListener, hasPlugins} \subseteq BOOLEAN
    /\ mu = (closer \in {"sessions", "storage"})
    /\ listener \in {"none", "open", "closed"}
    /\ plugins \in {"none", "partial", "ready", "closed"}
    /\ storage \in {"none", "open", "closed"}
    /\ sessions \in [Addrs -> Conns \cup {NoConn}]
    /\ remote \in [Conns -> Addrs \cup {NoAddr}]
    /\ \A S \in {todo, shut, writing, gone, late} : S \subseteq Conns
    /\ shared \subseteq Addrs

\* The map holds no entry of a handler that has ended (server.go:148), so
\* SessionCount never counts more than the handlers that run, through address
\* reuse and Close.
NoGhosts ==
    \A a \in Addrs : LET c == sessions[a] IN
        c # NoConn => remote[c] = a /\ handler[c] \in {"running", "closing", "deleting"}

\* A session is in the map while its handler runs (server.go:142) unless its
\* address served two connections: then the first one's deferred delete may
\* remove the entry of the second.
UncontestedIsTracked ==
    \A c \in Conns :
        handler[c] = "running" /\ remote[c] \notin shared => sessions[remote[c]] = c

\* Once Close has closed the storage (server.go:190), a session still open is one
\* that was registered later or that the map had lost.
OpenAfterClose ==
    \A c \in Conns :
        storage = "closed" /\ closer = "returned" /\ handler[c] = "running" =>
            c \in shut \cup late \/ remote[c] \in shared

\* After Close ListenAndServe returns, whatever it was doing and also when Close
\* came before the listener was stored (server.go:110, 118).
ServeReturns ==
    closed /\ serving # "idle" ~> serving \in {"returned", "idle"}

\* Close returns although it waits for the mutex of each session with Server.mu
\* held (server.go:177), if clients read or leave.
CloseReturns == closer = "sessions" ~> closer = "returned"

\* The handler of a connection whose client left or whose session was closed ends
\* and takes its entry out of the map (server.go:145-150), also while Close holds
\* Server.mu and waits for other sessions.
HandlersEnd == \A c \in Conns : c \in gone \cup shut ~> handler[c] = "ended"

\* "Close stops the server" (server.go:157): afterwards ListenAndServe returns
\* and every handler ends.
CloseStopsServer ==
    closer = "returned" ~>
        /\ serving = "returned"
        /\ \A c \in Conns : handler[c] \in {"idle", "ended"}
=============================================================================
