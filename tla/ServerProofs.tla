---------------------------- MODULE ServerProofs ---------------------------
(* The safety of the session map and of Close, for any number of           *)
(* connections and addresses.                                              *)
EXTENDS Server, TLAPS

\* What the map and Close rest on: a connection has an address once it was
\* accepted, two with one address make it shared, Server.mu is held throughout
\* Close, and Close has not yet come to the sessions in todo.
Inv ==
    /\ TypeOK
    /\ NoGhosts
    /\ UncontestedIsTracked
    /\ \A c \in Conns : handler[c] # "idle" => remote[c] \in Addrs
    /\ \A c, d \in Conns : c # d /\ remote[c] = remote[d] /\ remote[c] # NoAddr
                                => remote[c] \in shared
    /\ closed = (closer # "idle")
    /\ closer \in {"storage", "returned"} => todo = {}
    /\ \A c \in Conns :
            closed /\ handler[c] = "running" =>
                c \in shut \cup late \cup todo \/ remote[c] \in shared

\* The variables Inv relates to each other.
core == <<closer, handler, mu, closed, sessions, todo, remote, shut, late, shared>>

\* A new server satisfies it (server.go:26).
LEMMA InitInv == Init => Inv
<1> SUFFICES ASSUME Init PROVE Inv OBVIOUS
<1>1. TypeOK
  <2>1. handler \in [Conns -> {"idle", "new", "running", "closing", "deleting", "ended"}]
    BY DEF Init
  <2>2. sessions \in [Addrs -> Conns \cup {NoConn}] /\ remote \in [Conns -> Addrs \cup {NoAddr}]
    BY DEF Init
  <2>3. {mu, closed, cancelled, hasListener, hasPlugins} \subseteq BOOLEAN
    BY DEF Init
  <2> QED BY <2>1, <2>2, <2>3 DEF Init, TypeOK
<1> QED BY <1>1 DEF Init, Inv, NoGhosts, UncontestedIsTracked

\* A step that leaves the map, the handlers and Close alone keeps the rest.
LEMMA CoreStays ==
  ASSUME Inv, TypeOK', UNCHANGED core
  PROVE  Inv'
BY DEF Inv, core, NoGhosts, UncontestedIsTracked

\* The types are kept by every step of server.go.
LEMMA NextType == Inv /\ [Next]_vars => TypeOK'
<1> SUFFICES ASSUME Inv, [Next]_vars PROVE TypeOK' OBVIOUS
<1>0. TypeOK BY DEF Inv
<1> USE <1>0 DEF TypeOK, serveVars, connVars
<1>1. CASE initStorage BY <1>1 DEF initStorage
<1>2. CASE initPlugins BY <1>2 DEF initPlugins
<1>3. CASE setPlugins BY <1>3 DEF setPlugins
<1>4. CASE listen BY <1>4 DEF listen
<1>5. CASE setListener BY <1>5 DEF setListener
<1>6. CASE serve BY <1>6 DEF serve
<1>7. ASSUME NEW c \in Conns, NEW a \in Addrs, accept(c, a) PROVE TypeOK'
  BY <1>7 DEF accept
<1>8. CASE acceptFails BY <1>8 DEF acceptFails
<1>9. CASE cancel BY <1>9 DEF cancel
<1>10. ASSUME NEW c \in Conns, register(c) PROVE TypeOK' BY <1>10 DEF register
<1>11. ASSUME NEW c \in Conns, send(c) PROVE TypeOK' BY <1>11 DEF send
<1>12. ASSUME NEW c \in Conns, sent(c) PROVE TypeOK' BY <1>12 DEF sent
<1>13. ASSUME NEW c \in Conns, leave(c) PROVE TypeOK' BY <1>13 DEF leave
<1>14. ASSUME NEW c \in Conns, handlerReturns(c) PROVE TypeOK' BY <1>14 DEF handlerReturns
<1>15. ASSUME NEW c \in Conns, closeSession(c) PROVE TypeOK' BY <1>15 DEF closeSession
<1>16. ASSUME NEW c \in Conns, deleteSession(c) PROVE TypeOK' BY <1>16 DEF deleteSession
<1>17. CASE Close
  <2>1. (closer' \in {"sessions", "storage"}) = TRUE BY <1>17 DEF Close
  <2>2. mu' = (closer' \in {"sessions", "storage"}) BY <1>17, <2>1, Zenon DEF Close
  <2>3. todo' \subseteq Conns BY <1>17 DEF Close
  <2>4. listener' \in {"none", "open", "closed"} BY <1>17 DEF Close, closeListener
  <2> QED BY <1>17, <2>2, <2>3, <2>4 DEF Close
<1>18. CASE closeNext BY <1>18 DEF closeNext
<1>19. CASE closePlugins BY <1>19 DEF closePlugins
<1>20. CASE closeStorage
  <2>1. (closer' \in {"sessions", "storage"}) = FALSE BY <1>20 DEF closeStorage
  <2>2. mu' = (closer' \in {"sessions", "storage"}) BY <1>20, <2>1, Zenon DEF closeStorage
  <2> QED BY <1>20, <2>2 DEF closeStorage
<1>21. CASE UNCHANGED vars BY <1>21 DEF vars
<1> QED
  BY <1>1, <1>2, <1>3, <1>4, <1>5, <1>6, <1>7, <1>8, <1>9, <1>10, <1>11, <1>12,
     <1>13, <1>14, <1>15, <1>16, <1>17, <1>18, <1>19, <1>20, <1>21
  DEF Next, ListenAndServe, handleConn, Closing

\* Every step keeps the invariant; the interesting ones are those of handleConn
\* and Close that work on the map.
LEMMA NextInv == Inv /\ [Next]_vars => Inv'
<1> SUFFICES ASSUME Inv, [Next]_vars PROVE Inv' OBVIOUS
<1>0. TypeOK /\ TypeOK' BY NextType DEF Inv
<1> USE ServerAssumption
<1>1. CASE UNCHANGED core BY <1>0, <1>1, CoreStays
<1>2. ASSUME NEW c \in Conns, NEW a \in Addrs, accept(c, a) PROVE Inv'
  <2> USE <1>2 DEF accept
  <2>1. handler[c] = "idle" /\ handler' = [handler EXCEPT ![c] = "new"]
        /\ remote' = [remote EXCEPT ![c] = a]
        /\ shared \subseteq shared'
        /\ ((\E d \in Conns : remote[d] = a) => a \in shared')
    OBVIOUS
  <2>2. sessions' = sessions /\ todo' = todo /\ shut' = shut /\ late' = late
        /\ closer' = closer /\ closed' = closed
    OBVIOUS
  <2>3. NoGhosts' BY <2>1, <2>2, <1>0 DEF Inv, NoGhosts, TypeOK
  <2>4. UncontestedIsTracked' BY <2>1, <2>2, <1>0 DEF Inv, UncontestedIsTracked, TypeOK
  <2>5. \A d, e \in Conns : d # e /\ remote'[d] = remote'[e] /\ remote'[d] # NoAddr
                                => remote'[d] \in shared'
    BY <2>1, <1>0 DEF Inv, TypeOK
  <2> QED BY <2>1, <2>2, <2>3, <2>4, <2>5, <1>0 DEF Inv, TypeOK
<1>3. ASSUME NEW c \in Conns, register(c) PROVE Inv'
  <2>1. /\ handler[c] = "new" /\ handler' = [handler EXCEPT ![c] = "running"]
        /\ remote[c] \in Addrs /\ sessions' = [sessions EXCEPT ![remote[c]] = c]
        /\ late' = IF closed THEN late \cup {c} ELSE late
        /\ todo' = todo /\ shut' = shut /\ closer' = closer /\ closed' = closed
        /\ remote' = remote /\ shared' = shared
    BY <1>3 DEF register, Inv
  <2>2. NoGhosts' BY <2>1, <1>0 DEF Inv, NoGhosts, TypeOK
  <2>3. UncontestedIsTracked' BY <2>1, <1>0 DEF Inv, UncontestedIsTracked, TypeOK
  <2> QED BY <2>1, <2>2, <2>3, <1>0 DEF Inv, TypeOK
<1>4. ASSUME NEW c \in Conns, handlerReturns(c) PROVE Inv'
  <2>1. /\ handler[c] = "running" /\ handler' = [handler EXCEPT ![c] = "closing"]
        /\ sessions' = sessions /\ todo' = todo /\ shut' = shut /\ late' = late
        /\ closer' = closer /\ closed' = closed /\ remote' = remote /\ shared' = shared
    BY <1>4 DEF handlerReturns
  <2>2. NoGhosts' /\ UncontestedIsTracked'
    BY <2>1, <1>0 DEF Inv, NoGhosts, UncontestedIsTracked, TypeOK
  <2> QED BY <2>1, <2>2, <1>0 DEF Inv, TypeOK
<1>5. ASSUME NEW c \in Conns, closeSession(c) PROVE Inv'
  <2>1. /\ handler[c] = "closing" /\ handler' = [handler EXCEPT ![c] = "deleting"]
        /\ shut' = shut \cup {c}
        /\ sessions' = sessions /\ todo' = todo /\ late' = late
        /\ closer' = closer /\ closed' = closed /\ remote' = remote /\ shared' = shared
    BY <1>5 DEF closeSession
  <2>2. NoGhosts' /\ UncontestedIsTracked'
    BY <2>1, <1>0 DEF Inv, NoGhosts, UncontestedIsTracked, TypeOK
  <2> QED BY <2>1, <2>2, <1>0 DEF Inv, TypeOK
<1>6. ASSUME NEW c \in Conns, deleteSession(c) PROVE Inv'
  <2>1. /\ handler[c] = "deleting" /\ handler' = [handler EXCEPT ![c] = "ended"]
        /\ remote[c] \in Addrs /\ sessions' = [sessions EXCEPT ![remote[c]] = NoConn]
        /\ todo' = todo /\ shut' = shut /\ late' = late
        /\ closer' = closer /\ closed' = closed /\ remote' = remote /\ shared' = shared
    BY <1>6 DEF deleteSession, Inv
  <2>2. NoGhosts' BY <2>1, <1>0 DEF Inv, NoGhosts, TypeOK
  <2>3. UncontestedIsTracked' BY <2>1, <1>0 DEF Inv, UncontestedIsTracked, TypeOK
  <2> QED BY <2>1, <2>2, <2>3, <1>0 DEF Inv, TypeOK
<1>7. CASE Close
  <2>1. /\ closer' = "sessions" /\ closed' = TRUE
        /\ todo' = {sessions[a] : a \in Addrs} \ {NoConn}
        /\ sessions' = sessions /\ handler' = handler /\ remote' = remote
        /\ shut' = shut /\ late' = late /\ shared' = shared
    BY <1>7 DEF Close, connVars
  <2>2. NoGhosts' /\ UncontestedIsTracked'
    BY <2>1 DEF Inv, NoGhosts, UncontestedIsTracked
  <2>3. \A c \in Conns : handler[c] = "running" => c \in todo' \/ remote[c] \in shared
    BY <2>1 DEF Inv, UncontestedIsTracked
  <2>4. closed' = (closer' # "idle")
    <3>1. (closer' # "idle") = TRUE BY <2>1
    <3> QED BY <2>1, <3>1, Zenon
  <2> QED BY <2>1, <2>2, <2>3, <2>4, <1>0 DEF Inv
<1>8. CASE closeNext
  <2>1. PICK c \in todo : shut' = shut \cup {c} /\ todo' = todo \ {c}
    BY <1>8 DEF closeNext
  <2>2. /\ closer = "sessions" /\ closer' = closer /\ closed' = closed
        /\ sessions' = sessions /\ handler' = handler /\ remote' = remote
        /\ late' = late /\ shared' = shared
    BY <1>8 DEF closeNext
  <2>3. NoGhosts' /\ UncontestedIsTracked'
    BY <2>2 DEF Inv, NoGhosts, UncontestedIsTracked
  <2> QED BY <2>1, <2>2, <2>3, <1>0 DEF Inv
<1>9. CASE closePlugins \/ closeStorage
  <2>1. /\ closer \in {"sessions", "storage"} /\ closer' \in {"storage", "returned"}
        /\ todo = {} /\ todo' = todo /\ closed' = closed
        /\ sessions' = sessions /\ handler' = handler /\ remote' = remote
        /\ shut' = shut /\ late' = late /\ shared' = shared
    BY <1>9 DEF closePlugins, closeStorage, connVars, Inv
  <2>2. NoGhosts' /\ UncontestedIsTracked'
    BY <2>1 DEF Inv, NoGhosts, UncontestedIsTracked
  <2>3. closed' = (closer' # "idle")
    <3>1. (closer # "idle") = TRUE /\ (closer' # "idle") = TRUE BY <2>1
    <3>2. closed = (closer # "idle") /\ closed' = closed BY <2>1 DEF Inv
    <3> QED BY <3>1, <3>2, Zenon
  <2> QED BY <2>1, <2>2, <2>3, <1>0 DEF Inv
<1>10. CASE initStorage \/ initPlugins \/ setPlugins \/ listen \/ setListener \/ serve
            \/ acceptFails \/ cancel
  <2>1. UNCHANGED core
    BY <1>10 DEF initStorage, initPlugins, setPlugins, listen, setListener, serve,
                 acceptFails, cancel, core, connVars
  <2> QED BY <2>1, <1>1
<1>11. ASSUME NEW c \in Conns, send(c) \/ sent(c) \/ leave(c) PROVE Inv'
  <2>1. UNCHANGED core BY <1>11 DEF send, sent, leave, core
  <2> QED BY <2>1, <1>1
<1>12. CASE UNCHANGED vars
  <2>1. UNCHANGED core BY <1>12 DEF vars, connVars, core
  <2> QED BY <2>1, <1>1
<1> QED
  BY <1>2, <1>3, <1>4, <1>5, <1>6, <1>7, <1>8, <1>9, <1>10, <1>11, <1>12
  DEF Next, ListenAndServe, handleConn, Closing

\* The invariant holds throughout the life of a server.
THEOREM Invariance == Spec => []Inv
BY InitInv, NextInv, PTL DEF Spec

-----------------------------------------------------------------------------

\* The fields of Server keep their types, and Server.mu is Close's from its first
\* step to its last.
THEOREM TypeCorrect == Spec => []TypeOK
<1>1. Inv => TypeOK BY DEF Inv
<1> QED BY <1>1, Invariance, PTL

\* No entry of the map leads to a handler that has ended (server.go:148).
THEOREM MapHasNoGhosts == Spec => []NoGhosts
<1>1. Inv => NoGhosts BY DEF Inv
<1> QED BY <1>1, Invariance, PTL

\* A running handler is in the map unless its address is shared
\* (server.go:142-148).
THEOREM UncontestedStaysTracked == Spec => []UncontestedIsTracked
<1>1. Inv => UncontestedIsTracked BY DEF Inv
<1> QED BY <1>1, Invariance, PTL

\* Close leaves open only sessions that came after it or that the map had lost
\* (server.go:176-196).
THEOREM CloseReachesTheRest == Spec => []OpenAfterClose
<1>1. ASSUME Inv PROVE OpenAfterClose
  <2> SUFFICES ASSUME NEW c \in Conns, closer = "returned", handler[c] = "running"
               PROVE  c \in shut \cup late \/ remote[c] \in shared
    BY DEF OpenAfterClose
  <2>1. todo = {} BY <1>1 DEF Inv
  <2>2. closed
    <3>1. (closer # "idle") = TRUE OBVIOUS
    <3> QED BY <1>1, <3>1 DEF Inv
  <2> QED BY <1>1, <2>1, <2>2 DEF Inv
<1> QED BY <1>1, Invariance, PTL
=============================================================================
