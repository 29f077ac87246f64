--------------------------- MODULE PluginManager ---------------------------
(***************************************************************************)
(* plugin/manager.go: plugins are registered, sorted by their dependencies *)
(* (Kahn's algorithm), initialised in that order and closed in the reverse *)
(* order.                                                                  *)
(*                                                                         *)
(* One behaviour is the life of one Manager as Client.Connect and          *)
(* Server.ListenAndServe use it: Register for each plugin, one Initialize, *)
(* one Close.  Manager.mu is held by each method; the steps of Initialize  *)
(* and Close are apart because a plugin's own Initialize or Close runs in  *)
(* each of them and may fail.                                              *)
(*                                                                         *)
(* What a plugin names as its dependencies is a set: a name given twice    *)
(* counts twice in inDegree and twice in dependents, and cancels out.      *)
(***************************************************************************)
EXTENDS SequencesExt

CONSTANT Names      \* names of plugins and of what they depend on

ASSUME NamesAssumption == IsFiniteSet(Names)

VARIABLES
    deps,       \* Plugin.Dependencies() of each name; never changes
    plugins,    \* Manager.plugins: the names registered
    order,      \* Manager.order
    phase,      \* where the manager is in its life
    inDegree,   \* topologicalSort: dependencies not yet in sorted
    queue,      \* topologicalSort: names without such dependencies
    sorted,     \* topologicalSort: its result so far
    inits,      \* plugins whose Initialize returned nil, in that order
    closes,     \* plugins whose Close was called, in that order
    firstErr    \* plugins whose error Close returns: none or one

sortVars == <<inDegree, queue, sorted>>
vars == <<deps, plugins, order, phase, sortVars, inits, closes, firstErr>>

Init ==
    /\ deps \in [Names -> SUBSET Names]
    /\ plugins = {}
    /\ order = <<>>
    /\ phase = "registering"
    /\ inDegree = [n \in {} |-> 0]
    /\ queue = <<>>
    /\ sorted = <<>>
    /\ inits = <<>>
    /\ closes = <<>>
    /\ firstErr = {}

-----------------------------------------------------------------------------

\* A name that is registered already is refused and nothing changes.
Register(n) ==
    /\ phase = "registering"
    /\ n \notin plugins
    /\ plugins' = plugins \cup {n}
    /\ UNCHANGED <<deps, order, phase, sortVars, inits, closes, firstErr>>

-----------------------------------------------------------------------------
(* topologicalSort, called first by Initialize. *)

MissingDep == \E n \in plugins : ~(deps[n] \subseteq plugins)

sortMissing ==
    /\ phase = "registering"
    /\ MissingDep
    /\ phase' = "missing"
    /\ UNCHANGED <<deps, plugins, order, sortVars, inits, closes, firstErr>>

\* The queue starts with the names without dependencies, in the order in which
\* the map inDegree happens to be ranged over.
sortStart ==
    /\ phase = "registering"
    /\ ~MissingDep
    /\ phase' = "sorting"
    /\ inDegree' = [n \in plugins |-> Cardinality(deps[n])]
    /\ queue' \in SetToSeqs({n \in plugins : deps[n] = {}})
    /\ UNCHANGED <<deps, plugins, order, sorted, inits, closes, firstErr>>

dependents(n) == {m \in plugins : n \in deps[m]}

\* Mutant: every in-degree is lowered, not only the dependents'.
LoweredAll(n) == [m \in plugins |-> inDegree[m] - 1]

Lowered(n) ==
    [m \in plugins |-> IF m \in dependents(n) THEN inDegree[m] - 1 ELSE inDegree[m]]

\* One round of the loop.  The order within dependents[name] is again that of
\* a map.
sortNext ==
    /\ phase = "sorting"
    /\ queue # <<>>
    /\ sorted' = Append(sorted, Head(queue))
    /\ inDegree' = Lowered(Head(queue))
    /\ \E s \in SetToSeqs({m \in dependents(Head(queue)) : inDegree'[m] = 0}) :
            queue' = Tail(queue) \o s
    /\ UNCHANGED <<deps, plugins, order, phase, inits, closes, firstErr>>

\* Mutant: the length of the result is not looked at.
sortEndUnchecked ==
    /\ phase = "sorting"
    /\ queue = <<>>
    /\ phase' = "initializing"
    /\ order' = sorted
    /\ UNCHANGED <<deps, plugins, sortVars, inits, closes, firstErr>>

sortEnd ==
    /\ phase = "sorting"
    /\ queue = <<>>
    /\ IF Len(sorted) # Cardinality(plugins)
       THEN phase' = "cyclic" /\ UNCHANGED order
       ELSE phase' = "initializing" /\ order' = sorted
    /\ UNCHANGED <<deps, plugins, sortVars, inits, closes, firstErr>>

-----------------------------------------------------------------------------
(* The rest of Initialize, and Close. *)

\* Mutant: the loop ranges over the map instead of the order.
initializeNextOfMap ==
    /\ phase = "initializing"
    /\ \E n \in plugins \ ToSet(inits) :
            \/ inits' = Append(inits, n) /\ UNCHANGED phase
            \/ phase' = "failed" /\ UNCHANGED inits
    /\ UNCHANGED <<deps, plugins, order, sortVars, closes, firstErr>>

\* The next plugin's Initialize returns nil, or an error that ends the loop; the
\* plugins initialised before stay so.
initializeNext ==
    /\ phase = "initializing"
    /\ Len(inits) < Len(order)
    /\ \/ inits' = Append(inits, order[Len(inits) + 1]) /\ UNCHANGED phase
       \/ phase' = "failed" /\ UNCHANGED inits
    /\ UNCHANGED <<deps, plugins, order, sortVars, closes, firstErr>>

initializeEnd ==
    /\ phase = "initializing"
    /\ Len(inits) = Len(order)
    /\ phase' = "ready"
    /\ UNCHANGED <<deps, plugins, order, sortVars, inits, closes, firstErr>>

\* Close works on m.order, which is empty after a failed sort and complete after
\* a failed initialisation.
Close ==
    /\ phase \in {"ready", "failed", "missing", "cyclic"}
    /\ phase' = "closing"
    /\ UNCHANGED <<deps, plugins, order, sortVars, inits, closes, firstErr>>

\* Mutant: from the first to the last.
ClosingForward == order[Len(closes) + 1]

Closing == order[Len(order) - Len(closes)]

closeNext ==
    /\ phase = "closing"
    /\ Len(closes) < Len(order)
    /\ closes' = Append(closes, Closing)
    /\ \/ UNCHANGED firstErr
       \/ firstErr' = IF firstErr = {} THEN {Closing} ELSE firstErr
    /\ UNCHANGED <<deps, plugins, order, phase, sortVars, inits>>

closeEnd ==
    /\ phase = "closing"
    /\ Len(closes) = Len(order)
    /\ phase' = "closed"
    /\ UNCHANGED <<deps, plugins, order, sortVars, inits, closes, firstErr>>

\* Nobody uses a closed manager.
finished == phase = "closed" /\ UNCHANGED vars

Next ==
    \/ \E n \in Names : Register(n)
    \/ sortMissing \/ sortStart \/ sortNext \/ sortEnd
    \/ initializeNext \/ initializeEnd
    \/ Close \/ closeNext \/ closeEnd
    \/ finished

Spec == Init /\ [][Next]_vars

-----------------------------------------------------------------------------
(* Properties. *)

Phases == {"registering", "missing", "sorting", "cyclic", "initializing",
           "failed", "ready", "closing", "closed"}

TypeOK ==
    /\ deps \in [Names -> SUBSET Names]
    /\ plugins \subseteq Names
    /\ phase \in Phases
    /\ inDegree \in [DOMAIN inDegree -> Nat]
    /\ phase = "sorting" => DOMAIN inDegree = plugins
    /\ {order, queue, sorted, inits, closes} \subseteq Seq(plugins)
    /\ firstErr \subseteq ToSet(closes)

\* The names before position i of a sequence.
Before(s, i) == {s[j] : j \in 1 .. i - 1}

\* A plugin is initialised only after every plugin it depends on
\* (manager.go:51, manager_test.go:95), also when an initialisation fails in
\* between: what Initialize leaves behind then is closed under dependencies.
DepsFirst ==
    \A i \in 1 .. Len(inits) : deps[inits[i]] \subseteq Before(inits, i)

\* When Close comes to a plugin it has closed everything that depends on it
\* (manager.go:76), whichever of these calls returned errors.
DependentsFirst ==
    \A i \in 1 .. Len(closes) : dependents(closes[i]) \subseteq Before(closes, i)

\* Some registered plugins depend on each other in a circle: a nonempty set in
\* which everyone needs another member of the set.
Cycle == \E S \in SUBSET plugins : S # {} /\ \A n \in S : deps[n] \cap S # {}

\* Kahn's algorithm against this definition: topologicalSort returns
\* ErrCyclicDep exactly when there is a circle (manager.go:154), and otherwise
\* an order in which every registered plugin occurs once.
SortCorrect ==
    /\ phase = "cyclic" => Cycle
    /\ phase \in {"initializing", "failed", "ready"} =>
            /\ ~Cycle
            /\ ToSet(order) = plugins
            /\ Len(order) = Cardinality(plugins)
=============================================================================
