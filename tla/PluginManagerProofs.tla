------------------------ MODULE PluginManagerProofs ------------------------
(***************************************************************************)
(* For every finite set of plugins and every dependency graph: the order   *)
(* Kahn's algorithm computes, initialisation along it and closing against  *)
(* it.                                                                     *)
(***************************************************************************)
EXTENDS PluginManager, FiniteSetTheorems, TLAPS

-----------------------------------------------------------------------------
(* Sequences. *)

\* No element occurs twice.
Distinct(s) == \A i, j \in 1 .. Len(s) : s[i] = s[j] => i = j

\* What Append does to the elements of topologicalSort's order (manager.go:144).
LEMMA AppendElements ==
  ASSUME NEW S, NEW s \in Seq(S), NEW x \in S
  PROVE  /\ Append(s, x) \in Seq(S)
         /\ ToSet(Append(s, x)) = ToSet(s) \cup {x}
         /\ \A i \in 1 .. Len(s) + 1 : Before(Append(s, x), i) = Before(s, i)
         /\ Before(Append(s, x), Len(s) + 1) = ToSet(s)
         /\ Distinct(s) /\ x \notin ToSet(s) => Distinct(Append(s, x))
<1>1. /\ Append(s, x) \in Seq(S)
      /\ Len(Append(s, x)) = Len(s) + 1
      /\ \A i \in 1 .. Len(s) : Append(s, x)[i] = s[i]
      /\ Append(s, x)[Len(s) + 1] = x
      /\ DOMAIN s = 1 .. Len(s) /\ DOMAIN Append(s, x) = 1 .. Len(s) + 1
      /\ Len(s) \in Nat
  OBVIOUS
<1>2. ToSet(Append(s, x)) = ToSet(s) \cup {x}
  BY <1>1 DEF ToSet
<1>3. \A i \in 1 .. Len(s) + 1 : Before(Append(s, x), i) = Before(s, i)
  BY <1>1 DEF Before
<1>4. Before(Append(s, x), Len(s) + 1) = ToSet(s)
  BY <1>1 DEF Before, ToSet
<1>5. ASSUME Distinct(s), x \notin ToSet(s) PROVE Distinct(Append(s, x))
  BY <1>1, <1>5 DEF Distinct, ToSet
<1> QED BY <1>1, <1>2, <1>3, <1>4, <1>5

\* A sequence without repetitions is as long as its set is large: what the
\* comparison of lengths in manager.go:154 rests on.
LEMMA DistinctLength ==
  ASSUME NEW S, NEW s \in Seq(S), Distinct(s)
  PROVE  IsFiniteSet(ToSet(s)) /\ Cardinality(ToSet(s)) = Len(s)
<1>1. Len(s) \in Nat /\ DOMAIN s = 1 .. Len(s) /\ s \in [1 .. Len(s) -> S]
  OBVIOUS
<1>2. s \in Bijection(1 .. Len(s), ToSet(s))
  BY <1>1 DEF Bijection, Injection, Surjection, IsInjective, Distinct, ToSet
<1>3. ExistsBijection(1 .. Len(s), ToSet(s))
  BY <1>2 DEF ExistsBijection
<1> QED BY <1>1, <1>3, FS_CountingElements, FS_NatBijection

\* A map ranged over yields each of its keys once, in some order (manager.go:134).
LEMMA ArrangementElements ==
  ASSUME NEW S, NEW T \in SUBSET S, IsFiniteSet(T), NEW s \in SetToSeqs(T)
  PROVE  s \in Seq(S) /\ ToSet(s) = T /\ Distinct(s)
<1> DEFINE n == Cardinality(T)
<1>1. n \in Nat BY FS_CardinalityType
<1>2. s \in [1 .. n -> T] /\ \A i, j \in 1 .. n : i # j => s[i] # s[j]
  BY DEF SetToSeqs
<1>3. s \in Injection(1 .. n, T) BY <1>2 DEF Injection, IsInjective
<1>4. Cardinality(1 .. n) = n BY <1>1, FS_Interval
<1>5. s \in Surjection(1 .. n, T) BY <1>3, <1>4, FS_Injection
<1>6. s \in Seq(S) /\ Len(s) = n BY <1>1, <1>2
<1>7. ToSet(s) = T BY <1>5, <1>2 DEF ToSet, Surjection
<1>8. Distinct(s) BY <1>2, <1>6 DEF Distinct
<1> QED BY <1>6, <1>7, <1>8

\* Dropping the head of a queue without repetitions and appending new names
\* (manager.go:143, 149).
LEMMA QueueElements ==
  ASSUME NEW S, NEW q \in Seq(S), NEW s \in Seq(S), q # <<>>,
         Distinct(q), Distinct(s), ToSet(q) \cap ToSet(s) = {}
  PROVE  /\ Head(q) \in S /\ Head(q) \in ToSet(q)
         /\ Tail(q) \o s \in Seq(S)
         /\ ToSet(Tail(q) \o s) = (ToSet(q) \ {Head(q)}) \cup ToSet(s)
         /\ Distinct(Tail(q) \o s)
<1> DEFINE t == Tail(q) \o s
           m == Len(q) - 1
<1>1. /\ Len(q) \in Nat /\ Len(q) > 0 /\ m \in Nat /\ Len(s) \in Nat
      /\ Head(q) = q[1]
      /\ t \in Seq(S) /\ Len(t) = m + Len(s)
      /\ DOMAIN t = 1 .. Len(t) /\ DOMAIN q = 1 .. Len(q) /\ DOMAIN s = 1 .. Len(s)
      /\ \A i \in 1 .. m : t[i] = q[i + 1]
      /\ \A i \in 1 .. Len(s) : t[m + i] = s[i]
  OBVIOUS
<1>2. Head(q) \in S /\ Head(q) \in ToSet(q)
  BY <1>1 DEF ToSet
<1> HIDE DEF t, m
<1>3. \A i \in 1 .. Len(t) :
        i \in 1 .. m \/ (i - m \in 1 .. Len(s) /\ i = m + (i - m))
  BY <1>1
<1>4. \A i \in 1 .. m : t[i] \in ToSet(q) /\ t[i] # Head(q)
  <2> SUFFICES ASSUME NEW i \in 1 .. m PROVE t[i] \in ToSet(q) /\ t[i] # Head(q)
    OBVIOUS
  <2>1. i + 1 \in 1 .. Len(q) /\ 1 \in 1 .. Len(q) /\ i + 1 # 1 /\ t[i] = q[i + 1]
    BY <1>1 DEF m
  <2> QED BY <2>1, <1>1 DEF ToSet, Distinct
<1>5. \A i \in 1 .. Len(t) : i \notin 1 .. m => t[i] = s[i - m] /\ t[i] \in ToSet(s)
  BY <1>1, <1>3 DEF ToSet
<1>6. ToSet(t) \subseteq (ToSet(q) \ {Head(q)}) \cup ToSet(s)
  BY <1>1, <1>2, <1>4, <1>5 DEF ToSet
<1>7. ASSUME NEW x \in ToSet(q), x # Head(q) PROVE x \in ToSet(t)
  <2>1. PICK i \in 1 .. Len(q) : x = q[i] BY <1>1 DEF ToSet
  <2>2. i - 1 \in 1 .. m /\ i - 1 \in 1 .. Len(t) /\ x = t[i - 1]
    BY <2>1, <1>1, <1>7 DEF m
  <2> QED BY <2>2, <1>1 DEF ToSet
<1>8. ASSUME NEW x \in ToSet(s) PROVE x \in ToSet(t)
  <2>1. PICK i \in 1 .. Len(s) : x = s[i] BY <1>1 DEF ToSet
  <2>2. m + i \in 1 .. Len(t) /\ x = t[m + i] BY <2>1, <1>1
  <2> QED BY <2>2, <1>1 DEF ToSet
<1>9. Distinct(t)
  <2> SUFFICES ASSUME NEW i \in 1 .. Len(t), NEW j \in 1 .. Len(t), t[i] = t[j]
               PROVE  i = j
    BY DEF Distinct
  <2>1. CASE i \in 1 .. m /\ j \in 1 .. m
    <3>1. q[i + 1] = q[j + 1] /\ i + 1 \in 1 .. Len(q) /\ j + 1 \in 1 .. Len(q)
      BY <2>1, <1>1 DEF m
    <3> QED BY <3>1, <1>1, <2>1 DEF Distinct
  <2>2. CASE i \notin 1 .. m /\ j \notin 1 .. m
    <3>1. s[i - m] = s[j - m] /\ i - m \in 1 .. Len(s) /\ j - m \in 1 .. Len(s)
      BY <2>2, <1>5, <1>3
    <3> QED BY <3>1, <1>1 DEF Distinct
  <2>3. CASE ~(i \in 1 .. m <=> j \in 1 .. m)
    BY <2>3, <1>4, <1>5
  <2> QED BY <2>1, <2>2, <2>3
<1> QED BY <1>1, <1>2, <1>6, <1>7, <1>8, <1>9 DEF t

-----------------------------------------------------------------------------
(* The inductive invariant. *)

\* Every nonempty part of S has a member that needs nothing of that part.
Acyclic(S) == \A T \in SUBSET S : T # {} => \E n \in T : deps[n] \cap T = {}

\* A sequence in which every name comes once, after what it depends on.
Ordered(s) ==
    /\ Distinct(s)
    /\ \A i \in 1 .. Len(s) : deps[s[i]] \subseteq Before(s, i)

\* The loop of topologicalSort: in-degrees count what is still to come, and the
\* names that are sorted or queued are those for which nothing is.
SortInv ==
    /\ \A n \in plugins : deps[n] \subseteq plugins
    /\ Ordered(sorted) /\ Distinct(queue)
    /\ ToSet(sorted) \cap ToSet(queue) = {}
    /\ Acyclic(ToSet(sorted))
    /\ \A n \in plugins : inDegree[n] = Cardinality(deps[n] \ ToSet(sorted))
    /\ \A n \in plugins :
            n \in ToSet(sorted) \cup ToSet(queue) <=> deps[n] \subseteq ToSet(sorted)

Complete ==
    /\ Ordered(order)
    /\ ToSet(order) = plugins
    /\ Len(order) = Cardinality(plugins)
    /\ Acyclic(plugins)

IInv ==
    /\ TypeOK
    /\ phase = "registering" => queue = <<>> /\ sorted = <<>>
    /\ phase = "sorting" => SortInv
    /\ phase = "cyclic" => Cycle
    /\ phase \in {"registering", "missing", "sorting", "cyclic"} => order = <<>>
    /\ phase \in {"initializing", "failed", "ready"} => Complete
    /\ order = <<>> \/ Complete
    /\ Len(inits) <= Len(order)
    /\ \A i \in 1 .. Len(inits) : inits[i] = order[i]
    /\ phase \notin {"closing", "closed"} => closes = <<>>
    /\ Len(closes) <= Len(order)
    /\ \A i \in 1 .. Len(closes) : closes[i] = order[Len(order) + 1 - i]

-----------------------------------------------------------------------------
(* The sort. *)

\* Sets of plugins are finite.
LEMMA FinitePlugins ==
  ASSUME TypeOK
  PROVE  /\ IsFiniteSet(plugins)
         /\ \A n \in plugins : IsFiniteSet(deps[n])
         /\ \A T \in SUBSET plugins : IsFiniteSet(T)
<1>1. \A T \in SUBSET Names : IsFiniteSet(T)
  BY NamesAssumption, FS_Subset
<1>2. \A n \in plugins : deps[n] \in SUBSET Names
  BY DEF TypeOK
<1> QED BY <1>1, <1>2 DEF TypeOK

\* The queue starts with exactly the names that wait for nothing
\* (manager.go:118-138).
LEMMA SortStartInv ==
  ASSUME IInv, sortStart
  PROVE  TypeOK' /\ SortInv'
<1> USE DEF IInv
<1> DEFINE Z == {n \in plugins : deps[n] = {}}
<1>0. /\ TypeOK /\ sorted = <<>> /\ phase' = "sorting"
      /\ deps' = deps /\ plugins' = plugins /\ order' = order /\ sorted' = sorted
      /\ inits' = inits /\ closes' = closes /\ firstErr' = firstErr
      /\ inDegree' = [n \in plugins |-> Cardinality(deps[n])]
      /\ queue' \in SetToSeqs(Z)
      /\ \A n \in plugins : deps[n] \subseteq plugins
  BY DEF sortStart, MissingDep
<1>1. queue' \in Seq(plugins) /\ ToSet(queue') = Z /\ Distinct(queue')
  <2>1. Z \in SUBSET plugins /\ IsFiniteSet(Z) BY <1>0, FinitePlugins
  <2> HIDE DEF Z
  <2> QED BY <1>0, <2>1, ArrangementElements
<1>2. \A n \in plugins : Cardinality(deps[n]) \in Nat
  BY <1>0, FinitePlugins, FS_CardinalityType
<1>3. ToSet(sorted) = {} /\ Len(sorted) = 0
  BY <1>0 DEF ToSet
<1>4. TypeOK'
  <2>1. inDegree' \in [plugins -> Nat] BY <1>0, <1>2
  <2>2. {order, queue, sorted, inits, closes}' \subseteq Seq(plugins)
    BY <1>0, <1>1 DEF TypeOK
  <2> QED BY <1>0, <2>1, <2>2 DEF TypeOK, Phases
<1>5. Ordered(sorted)' /\ Acyclic(ToSet(sorted))'
  BY <1>0, <1>3 DEF Ordered, Distinct, Acyclic
<1>6. \A n \in plugins : (inDegree[n])' = Cardinality(deps[n] \ ToSet(sorted))
  BY <1>0, <1>3
<1>7. \A n \in plugins :
        n \in ToSet(sorted) \cup ToSet(queue') <=> deps[n] \subseteq ToSet(sorted)
  BY <1>1, <1>3
<1> QED BY <1>0, <1>1, <1>3, <1>4, <1>5, <1>6, <1>7 DEF SortInv

\* Adding to a set without circles a name all of whose dependencies are in it
\* closes no circle.
LEMMA AcyclicAdd ==
  ASSUME NEW S, NEW x, Acyclic(S), x \notin S, deps[x] \subseteq S,
         \A n \in S : deps[n] \subseteq S
  PROVE  Acyclic(S \cup {x})
<1> SUFFICES ASSUME NEW T \in SUBSET (S \cup {x}), T # {}
             PROVE  \E n \in T : deps[n] \cap T = {}
  BY DEF Acyclic
<1>1. CASE T \ {x} = {}
  BY <1>1
<1>2. CASE T \ {x} # {}
  <2>1. T \ {x} \in SUBSET S OBVIOUS
  <2>2. PICK n \in T \ {x} : deps[n] \cap (T \ {x}) = {}
    BY <1>2, <2>1 DEF Acyclic
  <2>3. x \notin deps[n] BY <2>1, <2>2
  <2> QED BY <2>2, <2>3
<1> QED BY <1>1, <1>2

\* What comes before a position of an ordered sequence is in the sequence.
LEMMA OrderedClosed ==
  ASSUME NEW S, NEW s \in Seq(S), Ordered(s), NEW n \in ToSet(s)
  PROVE  deps[n] \subseteq ToSet(s)
<1>1. Len(s) \in Nat /\ DOMAIN s = 1 .. Len(s) OBVIOUS
<1>2. PICK i \in 1 .. Len(s) : n = s[i] BY <1>1 DEF ToSet
<1>3. deps[n] \subseteq Before(s, i) BY <1>2 DEF Ordered
<1> QED BY <1>1, <1>3 DEF Before, ToSet

\* One round of Kahn's loop (manager.go:141-152).
LEMMA SortNextInv ==
  ASSUME IInv, sortNext
  PROVE  TypeOK' /\ SortInv'
<1> DEFINE x == Head(queue)
           Z == {m \in dependents(x) : Lowered(x)[m] = 0}
           Old == ToSet(sorted)
           New == ToSet(sorted) \cup {x}
<1>1. /\ TypeOK /\ SortInv /\ phase = "sorting" /\ phase' = phase /\ queue # <<>>
      /\ deps' = deps /\ plugins' = plugins /\ order' = order
      /\ inits' = inits /\ closes' = closes /\ firstErr' = firstErr
      /\ sorted' = Append(sorted, x)
      /\ inDegree' = Lowered(x)
  BY DEF IInv, sortNext
<1>2. PICK s \in SetToSeqs(Z) : queue' = Tail(queue) \o s
  BY <1>1 DEF sortNext
<1>3. /\ queue \in Seq(plugins) /\ sorted \in Seq(plugins)
      /\ plugins \subseteq Names /\ inDegree \in [plugins -> Nat]
  BY <1>1 DEF TypeOK
<1>4. x \in plugins /\ x \in ToSet(queue)
  <2>1. Len(queue) \in Nat /\ Len(queue) > 0 /\ x = queue[1] /\ DOMAIN queue = 1 .. Len(queue)
    BY <1>1, <1>3
  <2> QED BY <1>3, <2>1 DEF ToSet
<1>5. x \notin Old /\ deps[x] \subseteq Old
  BY <1>1, <1>4 DEF SortInv
<1>6. /\ sorted' \in Seq(plugins) /\ ToSet(sorted') = New /\ Distinct(sorted')
      /\ \A j \in 1 .. Len(sorted) + 1 : Before(sorted', j) = Before(sorted, j)
      /\ Before(sorted', Len(sorted) + 1) = Old
  BY <1>1, <1>3, <1>4, <1>5, AppendElements DEF SortInv, Ordered
<1>7. ASSUME NEW n \in plugins
      PROVE  /\ Lowered(x)[n] = Cardinality(deps[n] \ New)
             /\ Lowered(x)[n] \in Nat
             /\ n \in dependents(x) <=> x \in deps[n]
             /\ Lowered(x)[n] = 0 <=> deps[n] \subseteq New
  <2>1. IsFiniteSet(deps[n]) BY <1>1, FinitePlugins
  <2>2. IsFiniteSet(deps[n] \ Old)
    BY <2>1, FS_Subset
  <2>3. deps[n] \ New = (deps[n] \ Old) \ {x} OBVIOUS
  <2>4. inDegree[n] = Cardinality(deps[n] \ Old) BY <1>1 DEF SortInv
  <2>5. /\ IsFiniteSet(deps[n] \ New)
        /\ Cardinality(deps[n] \ New) =
             IF x \in deps[n] THEN inDegree[n] - 1 ELSE inDegree[n]
    BY <2>2, <2>3, <2>4, <1>5, FS_RemoveElement
  <2>6. Cardinality(deps[n] \ New) \in Nat BY <2>5, FS_CardinalityType
  <2>7. Cardinality(deps[n] \ New) = 0 <=> deps[n] \subseteq New
    BY <2>5, FS_EmptySet
  <2> QED BY <2>5, <2>6, <2>7 DEF Lowered, dependents
<1>8. /\ Z \in SUBSET plugins
      /\ \A n \in plugins : n \in Z <=> x \in deps[n] /\ deps[n] \subseteq New
  BY <1>7 DEF dependents
<1>9. s \in Seq(plugins) /\ ToSet(s) = Z /\ Distinct(s)
  <2> HIDE DEF Z
  <2>1. IsFiniteSet(Z) BY <1>1, <1>8, FinitePlugins
  <2> QED BY <1>2, <1>8, <2>1, ArrangementElements
<1>10. Z \cap ToSet(queue) = {} /\ Z \cap Old = {} /\ x \notin Z
  <2>1. ASSUME NEW n \in Z PROVE n \notin Old \cup ToSet(queue) /\ n # x
    <3>1. n \in plugins /\ x \in deps[n] BY <1>8
    <3>2. ~(deps[n] \subseteq Old) BY <3>1, <1>5
    <3> QED BY <3>1, <3>2, <1>1, <1>4 DEF SortInv
  <2> QED BY <2>1
<1>11. /\ queue' \in Seq(plugins)
       /\ ToSet(queue') = (ToSet(queue) \ {x}) \cup Z
       /\ Distinct(queue')
  <2>1. Distinct(queue) BY <1>1 DEF SortInv
  <2> HIDE DEF Z
  <2> QED BY <1>1, <1>2, <1>3, <1>9, <1>10, <2>1, QueueElements
<1>12. TypeOK'
  <2>1. inDegree' \in [plugins -> Nat] BY <1>1, <1>7 DEF Lowered
  <2>2. {order, queue, sorted, inits, closes}' \subseteq Seq(plugins)
    BY <1>1, <1>6, <1>11 DEF TypeOK
  <2> QED BY <1>1, <2>1, <2>2 DEF TypeOK
<1>13. Ordered(sorted)'
  <2> SUFFICES ASSUME NEW i \in 1 .. Len(sorted')
               PROVE  deps[sorted'[i]] \subseteq Before(sorted', i)
    BY <1>1, <1>6 DEF Ordered
  <2>1. Len(sorted) \in Nat /\ Len(sorted') = Len(sorted) + 1
    BY <1>1, <1>3, <1>4
  <2>2. CASE i = Len(sorted) + 1
    BY <2>2, <1>1, <1>3, <1>5, <1>6
  <2>3. CASE i # Len(sorted) + 1
    <3>1. i \in 1 .. Len(sorted) /\ i \in 1 .. Len(sorted) + 1 BY <2>1, <2>3
    <3>2. sorted'[i] = sorted[i] BY <3>1, <1>1, <1>3, <1>4
    <3>3. deps[sorted[i]] \subseteq Before(sorted, i) BY <3>1, <1>1 DEF SortInv, Ordered
    <3> QED BY <3>1, <3>2, <3>3, <1>6
  <2> QED BY <2>2, <2>3
<1>14. Acyclic(New)
  <2>1. \A n \in Old : deps[n] \subseteq Old
    BY <1>1, <1>3, OrderedClosed DEF SortInv
  <2> QED BY <2>1, <1>1, <1>5, AcyclicAdd DEF SortInv
<1>15. \A n \in plugins :
         n \in New \cup (ToSet(queue) \ {x}) \cup Z <=> deps[n] \subseteq New
  <2> SUFFICES ASSUME NEW n \in plugins
               PROVE  n \in New \cup (ToSet(queue) \ {x}) \cup Z <=> deps[n] \subseteq New
    OBVIOUS
  <2>1. n \in Old \cup ToSet(queue) <=> deps[n] \subseteq Old
    BY <1>1 DEF SortInv
  <2>2. n \in Z <=> x \in deps[n] /\ deps[n] \subseteq New BY <1>8
  <2> HIDE DEF Z
  <2> QED BY <2>1, <2>2, <1>4
<1>16. New \cap ((ToSet(queue) \ {x}) \cup Z) = {}
  BY <1>1, <1>10 DEF SortInv
<1>17. SortInv'
  <2> HIDE DEF Z, x
  <2>1. Acyclic(ToSet(sorted))' BY <1>1, <1>6, <1>14 DEF Acyclic
  <2> QED
    BY <1>1, <1>6, <1>7, <1>11, <1>13, <2>1, <1>15, <1>16 DEF SortInv
<1> QED BY <1>12, <1>17

\* The end of topologicalSort (manager.go:154): what is left over needs what is
\* left over, and nothing is left over when the lengths agree.
LEMMA SortEndInv ==
  ASSUME IInv, sortEnd
  PROVE  (phase' = "cyclic" /\ Cycle') \/ (phase' = "initializing" /\ Complete')
<1> DEFINE Rest == plugins \ ToSet(sorted)
<1>1. /\ TypeOK /\ SortInv /\ queue = <<>> /\ deps' = deps /\ plugins' = plugins
      /\ IF Len(sorted) # Cardinality(plugins)
         THEN phase' = "cyclic" ELSE phase' = "initializing" /\ order' = sorted
  BY DEF IInv, sortEnd
<1>2. sorted \in Seq(plugins) /\ ToSet(queue) = {}
  BY <1>1 DEF TypeOK, ToSet
<1>3. IsFiniteSet(ToSet(sorted)) /\ Cardinality(ToSet(sorted)) = Len(sorted)
  BY <1>1, <1>2, DistinctLength DEF SortInv, Ordered
<1>4. ToSet(sorted) \subseteq plugins
  BY <1>2 DEF ToSet
<1>5. CASE Len(sorted) # Cardinality(plugins)
  <2>0. ToSet(sorted) # plugins BY <1>3, <1>5
  <2>1. Rest # {} BY <2>0, <1>4
  <2>2. \A n \in Rest : deps[n] \cap Rest # {}
    BY <1>1, <1>2 DEF SortInv
  <2>3. Rest \in SUBSET plugins' BY <1>1
  <2>4. Cycle' BY <2>1, <2>2, <2>3, <1>1 DEF Cycle
  <2> QED BY <2>4, <1>1, <1>5
<1>6. CASE Len(sorted) = Cardinality(plugins)
  <2>1. ToSet(sorted) = plugins
    BY <1>1, <1>3, <1>4, <1>6, FinitePlugins, FS_Subset
  <2>2. Acyclic(plugins)' BY <2>1, <1>1 DEF SortInv, Acyclic
  <2>3. Ordered(order)' BY <1>1, <1>6 DEF SortInv, Ordered
  <2> QED BY <2>1, <2>2, <2>3, <1>1, <1>6 DEF Complete
<1> QED BY <1>5, <1>6

-----------------------------------------------------------------------------
(* The invariant is inductive. *)

\* A manager starts in the invariant (manager.go:24).
LEMMA InitInv == Init => IInv
<1> SUFFICES ASSUME Init PROVE IInv OBVIOUS
<1>1. TypeOK
  <2>1. {order, queue, sorted, inits, closes} \subseteq Seq(plugins)
    BY DEF Init
  <2>2. inDegree \in [DOMAIN inDegree -> Nat] BY DEF Init
  <2> QED BY <2>1, <2>2 DEF Init, TypeOK, Phases
<1> QED BY <1>1 DEF Init, IInv

\* An order stays complete while the plugins do not change.
LEMMA CompleteStays ==
  ASSUME Complete, deps' = deps, plugins' = plugins, order' = order
  PROVE  Complete'
BY DEF Complete, Ordered, Acyclic

\* Every step of Register, Initialize and Close keeps it.
LEMMA NextInv == IInv /\ [Next]_vars => IInv'
<1> SUFFICES ASSUME IInv, [Next]_vars PROVE IInv' OBVIOUS
<1> USE DEF sortVars
<1>0. TypeOK BY DEF IInv
<1>1. ASSUME NEW n \in Names, Register(n) PROVE IInv'
  <2>1. {order, queue, sorted, inits, closes}' \subseteq Seq(plugins')
    <3>1. /\ order = <<>> /\ queue = <<>> /\ sorted = <<>> /\ closes = <<>>
          /\ Len(inits) <= 0 /\ inits \in Seq(plugins)
      BY <1>1 DEF Register, IInv, TypeOK
    <3>2. inits = <<>> BY <3>1
    <3> QED BY <3>1, <3>2, <1>1 DEF Register
  <2>2. TypeOK' BY <2>1, <1>1 DEF Register, IInv, TypeOK
  <2> QED BY <2>2, <1>1 DEF Register, IInv
<1>2. CASE sortMissing
  <2>1. TypeOK' BY <1>0, <1>2 DEF sortMissing, TypeOK, Phases
  <2> QED BY <2>1, <1>2 DEF sortMissing, IInv
<1>3. CASE sortStart
  <2>1. TypeOK' /\ SortInv' BY <1>3, SortStartInv
  <2> QED BY <2>1, <1>3 DEF sortStart, IInv
<1>4. CASE sortNext
  <2>1. TypeOK' /\ SortInv' BY <1>4, SortNextInv
  <2> QED BY <2>1, <1>4 DEF sortNext, IInv
<1>5. CASE sortEnd
  <2>1. (phase' = "cyclic" /\ Cycle') \/ (phase' = "initializing" /\ Complete')
    BY <1>5, SortEndInv
  <2>2. /\ order = <<>> /\ inits \in Seq(plugins) /\ closes = <<>> /\ Len(inits) <= 0
    BY <1>5 DEF sortEnd, IInv, TypeOK
  <2>3. inits = <<>> BY <2>2
  <2>4. TypeOK' BY <1>0, <1>5 DEF sortEnd, TypeOK, Phases
  <2>5. order' \in Seq(plugins) BY <1>0, <1>5 DEF sortEnd, TypeOK
  <2>6. Len(order') \in Nat BY <2>5
  <2>7. phase' = "cyclic" => order' = <<>> BY <1>5, <2>2 DEF sortEnd
  <2> QED BY <2>1, <2>2, <2>3, <2>4, <2>6, <2>7, <1>5 DEF sortEnd, IInv
<1>6. CASE initializeNext
  <2>1. /\ phase = "initializing" /\ Complete /\ closes = <<>>
        /\ order \in Seq(plugins) /\ inits \in Seq(plugins)
        /\ Len(inits) \in Nat /\ Len(order) \in Nat /\ Len(inits) < Len(order)
        /\ order' = order /\ plugins' = plugins /\ deps' = deps /\ closes' = closes
    BY <1>6 DEF initializeNext, IInv, TypeOK
  <2>2. Complete' BY <2>1, CompleteStays
  <2>3. CASE inits' = Append(inits, order[Len(inits) + 1]) /\ phase' = phase
    <3>1. order[Len(inits) + 1] \in plugins BY <2>1
    <3>2. inits' \in Seq(plugins) /\ Len(inits') = Len(inits) + 1
          /\ \A i \in 1 .. Len(inits') : inits'[i] = order[i]
      BY <2>1, <2>3, <3>1 DEF IInv
    <3>3. TypeOK' BY <1>0, <1>6, <2>3, <3>2 DEF initializeNext, TypeOK
    <3> QED BY <2>1, <2>2, <2>3, <3>2, <3>3, <1>6 DEF initializeNext, IInv
  <2>4. CASE phase' = "failed" /\ inits' = inits
    <3>1. TypeOK' BY <1>0, <1>6, <2>4 DEF initializeNext, TypeOK, Phases
    <3> QED BY <2>1, <2>2, <2>4, <3>1, <1>6 DEF initializeNext, IInv
  <2> QED BY <2>3, <2>4, <1>6 DEF initializeNext
<1>7. CASE initializeEnd
  <2>1. TypeOK' BY <1>0, <1>7 DEF initializeEnd, TypeOK, Phases
  <2>2. Complete /\ Complete'
    BY <1>7, CompleteStays DEF initializeEnd, IInv
  <2> QED BY <2>1, <2>2, <1>7 DEF initializeEnd, IInv
<1>8. CASE Close
  <2>1. TypeOK' BY <1>0, <1>8 DEF Close, TypeOK, Phases
  <2>2. Complete => Complete'
    BY <1>8, CompleteStays DEF Close
  <2> QED BY <2>1, <2>2, <1>8 DEF Close, IInv
<1>9. CASE closeNext
  <2>1. /\ order \in Seq(plugins) /\ closes \in Seq(plugins)
        /\ Len(closes) \in Nat /\ Len(order) \in Nat /\ Len(closes) < Len(order)
        /\ closes' = Append(closes, Closing)
        /\ order' = order /\ plugins' = plugins /\ deps' = deps
        /\ inits' = inits /\ phase' = phase /\ phase = "closing"
    BY <1>9 DEF closeNext, IInv, TypeOK
  <2>2. Complete => Complete' BY <2>1, CompleteStays
  <2>3. Closing \in plugins BY <2>1 DEF Closing
  <2>4. /\ closes' \in Seq(plugins) /\ Len(closes') = Len(closes) + 1
        /\ ToSet(closes') = ToSet(closes) \cup {Closing}
    BY <2>1, <2>3, AppendElements
  <2>5. \A i \in 1 .. Len(closes') : closes'[i] = order[Len(order) + 1 - i]
    <3> SUFFICES ASSUME NEW i \in 1 .. Len(closes')
                 PROVE  closes'[i] = order[Len(order) + 1 - i]
      OBVIOUS
    <3>1. CASE i = Len(closes) + 1 BY <3>1, <2>1, <2>3 DEF Closing
    <3>2. CASE i # Len(closes) + 1
      <4>1. i \in 1 .. Len(closes) BY <3>2, <2>1, <2>4
      <4>2. closes'[i] = closes[i] BY <4>1, <2>1, <2>3
      <4> QED BY <4>1, <4>2 DEF IInv
    <3> QED BY <3>1, <3>2
  <2>6. firstErr' \subseteq ToSet(closes')
    BY <1>0, <1>9, <2>4 DEF closeNext, TypeOK
  <2>7. TypeOK' BY <1>0, <1>9, <2>4, <2>6 DEF closeNext, TypeOK
  <2> QED BY <2>1, <2>2, <2>4, <2>5, <2>7, <1>9 DEF closeNext, IInv
<1>10. CASE closeEnd
  <2>1. TypeOK' BY <1>0, <1>10 DEF closeEnd, TypeOK, Phases
  <2>2. Complete => Complete'
    BY <1>10, CompleteStays DEF closeEnd
  <2> QED BY <2>1, <2>2, <1>10 DEF closeEnd, IInv
<1>11. CASE UNCHANGED vars
  <2>1. TypeOK' BY <1>0, <1>11 DEF vars, TypeOK
  <2>2. Complete => Complete' BY <1>11, CompleteStays DEF vars
  <2>3. SortInv => SortInv' BY <1>11 DEF vars, SortInv, Ordered, Acyclic
  <2>4. Cycle => Cycle' BY <1>11 DEF vars, Cycle
  <2> QED BY <2>1, <2>2, <2>3, <2>4, <1>11 DEF vars, IInv
<1> QED
  BY <1>1, <1>2, <1>3, <1>4, <1>5, <1>6, <1>7, <1>8, <1>9, <1>10, <1>11
  DEF Next, finished

\* The invariant holds throughout the life of a manager (manager.go:24-91).
THEOREM Invariance == Spec => []IInv
BY InitInv, NextInv, PTL DEF Spec

-----------------------------------------------------------------------------
(* What follows from it. *)

\* The manager's fields and the locals of topologicalSort keep their types.
THEOREM TypeCorrect == Spec => []TypeOK
<1>1. IInv => TypeOK BY DEF IInv
<1> QED BY <1>1, Invariance, PTL

\* Dependencies are initialised first (manager.go:51), for any number of plugins
\* and any graph, wherever Initialize stops.
THEOREM InitializesInOrder == Spec => []DepsFirst
<1>1. ASSUME IInv PROVE DepsFirst
  <2> SUFFICES ASSUME NEW i \in 1 .. Len(inits)
               PROVE  deps[inits[i]] \subseteq Before(inits, i)
    BY DEF DepsFirst
  <2>1. /\ Len(inits) \in Nat /\ Len(order) \in Nat /\ Len(inits) <= Len(order)
        /\ \A j \in 1 .. Len(inits) : inits[j] = order[j]
    BY <1>1 DEF IInv, TypeOK
  <2>2. order # <<>> BY <2>1
  <2>3. deps[order[i]] \subseteq Before(order, i)
    BY <1>1, <2>1, <2>2 DEF IInv, Complete, Ordered
  <2>4. Before(order, i) = Before(inits, i) BY <2>1 DEF Before
  <2> QED BY <2>1, <2>3, <2>4
<1> QED BY <1>1, Invariance, PTL

\* Dependents are closed first (manager.go:76-91).
THEOREM ClosesInReverse == Spec => []DependentsFirst
<1>1. ASSUME IInv PROVE DependentsFirst
  <2> SUFFICES ASSUME NEW i \in 1 .. Len(closes), NEW n \in dependents(closes[i])
               PROVE  n \in Before(closes, i)
    BY DEF DependentsFirst
  <2>1. /\ Len(closes) \in Nat /\ Len(order) \in Nat /\ Len(closes) <= Len(order)
        /\ \A j \in 1 .. Len(closes) : closes[j] = order[Len(order) + 1 - j]
        /\ order \in Seq(plugins) /\ DOMAIN order = 1 .. Len(order)
    BY <1>1 DEF IInv, TypeOK
  <2>2. Complete
    <3>1. order # <<>> BY <2>1
    <3> QED BY <1>1, <3>1 DEF IInv
  <2> DEFINE p == Len(order) + 1 - i
  <2>3. p \in 1 .. Len(order) /\ closes[i] = order[p] BY <2>1
  <2>4. n \in plugins /\ order[p] \in deps[n] BY <2>3 DEF dependents
  <2>5. PICK k \in 1 .. Len(order) : n = order[k]
    BY <2>1, <2>2, <2>4 DEF Complete, ToSet
  <2>6. order[p] \in Before(order, k)
    BY <2>2, <2>4, <2>5 DEF Complete, Ordered
  <2>7. PICK j \in 1 .. k - 1 : order[p] = order[j] BY <2>6 DEF Before
  <2>8. p = j BY <2>2, <2>3, <2>5, <2>7 DEF Complete, Ordered, Distinct
  <2>9. /\ Len(order) + 1 - k \in 1 .. i - 1
        /\ Len(order) + 1 - k \in 1 .. Len(closes)
        /\ Len(order) + 1 - (Len(order) + 1 - k) = k
    BY <2>1, <2>5, <2>7, <2>8
  <2>10. closes[Len(order) + 1 - k] = n BY <2>1, <2>5, <2>9
  <2> QED BY <2>9, <2>10 DEF Before
<1> QED BY <1>1, Invariance, PTL

\* Kahn's algorithm reports a circle exactly when there is one and otherwise
\* orders every plugin once (manager.go:107-159).
THEOREM SortIsCorrect == Spec => []SortCorrect
<1>1. IInv => SortCorrect
  <2>1. Complete => ~Cycle BY DEF Complete, Acyclic, Cycle
  <2> QED BY <2>1 DEF IInv, SortCorrect, Complete
<1> QED BY <1>1, Invariance, PTL
=============================================================================
