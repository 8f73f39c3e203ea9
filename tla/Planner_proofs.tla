----------------------------- MODULE Planner_proofs -----------------------------
(***************************************************************************)
(* Manager.plan lays out every finite graph as Dependencies defines it.    *)
(*                                                                         *)
(* The invariant, Sound, reads the counters of Kahn's algorithm: indeg of  *)
(* a module is the number of positions of its list that name a module not  *)
(* processed yet, so it is zero exactly for what has been put in a layer   *)
(* or is collected for the next one.  Two facts about graphs finish the    *)
(* proof: a graph has one levelling at most, and modules that all wait for *)
(* another one of them have none.                                          *)
(***************************************************************************)
EXTENDS Planner, FiniteSetTheorems, WellFoundedInduction, TLAPS

-----------------------------------------------------------------------------
(* Levellings                                                              *)

\* A set of naturals has a least element.
LEMMA LeastNatural ==
  ASSUME NEW T, T \subseteq Nat, T # {}
  PROVE  \E x \in T : \A y \in T : x <= y
<1>1. IsWellFoundedOn(OpToRel(<, Nat), Nat)
  BY NatLessThanWellFounded
<1>2. PICK x \in T : \A y \in T : ~(<<y, x>> \in OpToRel(<, Nat))
  BY <1>1, WFMin
<1>3. \A y \in T : ~(y < x)
  BY <1>2 DEF OpToRel
<1> QED BY <1>3

\* Among modules of which each needs another one of them, nothing can be lowest.
LEMMA NothingLowest ==
  ASSUME NEW g, NEW level \in [DOMAIN g -> Nat], NEW S \in SUBSET DOMAIN g, S # {},
         \A n \in S : \E d \in Needs(g, n) : d \in S,
         \A n \in DOMAIN g : \A d \in Needs(g, n) : level[d] < level[n]
  PROVE  FALSE
<1> DEFINE T == {level[n] : n \in S}
<1>1. T \subseteq Nat /\ T # {}
  OBVIOUS
<1> HIDE DEF T
<1>2. PICK x \in T : \A y \in T : x <= y
  BY <1>1, LeastNatural
<1>3. PICK n \in S : level[n] = x
  BY <1>2 DEF T
<1>4. PICK d \in Needs(g, n) : d \in S
  BY <1>3
<1>5. level[d] \in T /\ level[d] < x /\ level[d] \in Nat /\ x \in Nat
  BY <1>3, <1>4 DEF T
<1> QED BY <1>2, <1>5

\* The level of every module is determined.
LEMMA LevellingIsUnique ==
  ASSUME NEW g, AllKnown(g), NEW a \in [DOMAIN g -> Nat], NEW b \in [DOMAIN g -> Nat],
         IsLevelling(g, a), IsLevelling(g, b)
  PROVE  a = b
<1> DEFINE S == {n \in DOMAIN g : a[n] # b[n]}
<1>1. SUFFICES ASSUME S # {} PROVE FALSE
  OBVIOUS
<1>2. ASSUME NEW n \in S PROVE \E d \in Needs(g, n) : d \in S
  <2>1. SUFFICES ASSUME \A d \in Needs(g, n) : a[d] = b[d] PROVE a[n] = b[n]
    BY <1>2 DEF AllKnown
  <2>2. n \in DOMAIN g /\ a[n] \in Nat /\ b[n] \in Nat
    OBVIOUS
  <2>3. /\ \A d \in Needs(g, n) : a[d] < a[n] /\ b[d] < b[n] /\ a[d] \in Nat /\ b[d] \in Nat
        /\ a[n] = 1 \/ \E d \in Needs(g, n) : a[n] = a[d] + 1
        /\ b[n] = 1 \/ \E d \in Needs(g, n) : b[n] = b[d] + 1
    BY <2>2 DEF IsLevelling, AllKnown
  <2>4. CASE Needs(g, n) = {}
    BY <2>3, <2>4
  <2>5. CASE \E d \in Needs(g, n) : a[n] = a[d] + 1
    <3>1. PICK d \in Needs(g, n) : a[n] = a[d] + 1
      BY <2>5
    <3>2. b[n] >= a[n]
      BY <2>1, <2>2, <2>3, <3>1
    <3>3. CASE b[n] = 1
      BY <2>2, <2>3, <3>1, <3>2, <3>3
    <3>4. CASE \E e \in Needs(g, n) : b[n] = b[e] + 1
      BY <2>1, <2>2, <2>3, <3>2, <3>4
    <3> QED BY <2>3, <3>3, <3>4
  <2>6. CASE a[n] = 1 /\ Needs(g, n) # {}
    <3>1. \E d \in Needs(g, n) : b[n] = b[d] + 1 \/ b[n] = 1
      BY <2>3, <2>6
    <3> QED BY <2>1, <2>2, <2>3, <2>6, <3>1
  <2> QED BY <2>3, <2>4, <2>5, <2>6
<1>3. \A n \in DOMAIN g : \A d \in Needs(g, n) : a[d] < a[n]
  BY DEF IsLevelling
<1> HIDE DEF S
<1>4. S \in SUBSET DOMAIN g
  BY DEF S
<1> QED BY <1>1, <1>2, <1>3, <1>4, NothingLowest

-----------------------------------------------------------------------------
(* The invariant                                                           *)

\* What is in a layer, and what of it has been processed.
Placed == {n \in DOMAIN deps : \E i \in DOMAIN layers : n \in layers[i]}
Done   == Placed \ current

\* The positions of the list of m that m still waits for.
Waiting(m) == {i \in DOMAIN deps[m] : deps[m][i] \notin Done}

Counts == \A m \in DOMAIN deps : /\ indeg[m] = Cardinality(Waiting(m))
                                 /\ indeg[m] = 0 <=> m \in Placed \cup next

Progress == /\ processed = Cardinality(Done)
            /\ current # {} => layers # <<>> /\ current \subseteq layers[Len(layers)]
            /\ layers # <<>> => AllKnown(deps)

\* The layers are disjoint and not empty, so they are no more than the modules.
Apart == /\ next \cap Placed = {}
         /\ \A i \in DOMAIN layers : layers[i] # {}
         /\ \A i, j \in DOMAIN layers : i # j => layers[i] \cap layers[j] = {}
         /\ Len(layers) <= Cardinality(Placed)

\* A module sits right above the highest of those it needs.
Stacked == /\ LayersAreIndependent
           /\ \A i \in DOMAIN layers : i > 1 => \A n \in layers[i] : \E d \in Needs(deps, n) : d \in layers[i - 1]
           /\ layers # <<>> => \A n \in next : \E d \in Needs(deps, n) : d \in layers[Len(layers)]

Outcomes == /\ result = "ErrUnknownDependency" => ~AllKnown(deps)
            /\ result \in {"layers", "ErrDependencyCycle"} =>
                 /\ AllKnown(deps) /\ current = {} /\ next = {}
                 /\ result = "layers" <=> processed = Cardinality(DOMAIN deps)

Sound == deps \in Graphs /\ TypeOK /\ Counts /\ Progress /\ Apart /\ Stacked /\ Outcomes

\* What is finite, and what a list is.
LEMMA Finite ==
  ASSUME deps \in Graphs
  PROVE  /\ IsFiniteSet(DOMAIN deps)
         /\ IsFiniteSet(Placed) /\ IsFiniteSet(Done)
         /\ \A m \in DOMAIN deps : /\ DOMAIN deps[m] = 1..Len(deps[m])
                                   /\ Len(deps[m]) \in Nat
                                   /\ Needs(deps, m) = {deps[m][i] : i \in DOMAIN deps[m]}
                                   /\ IsFiniteSet(DOMAIN deps[m])
                                   /\ Cardinality(DOMAIN deps[m]) = Len(deps[m])
<1>1. IsFiniteSet(DOMAIN deps)
  BY GraphAssumption
<1>2. IsFiniteSet(Placed) /\ IsFiniteSet(Done)
  BY <1>1, FS_Subset DEF Placed, Done
<1>3. ASSUME NEW m \in DOMAIN deps
      PROVE  /\ DOMAIN deps[m] = 1..Len(deps[m])
             /\ Len(deps[m]) \in Nat
             /\ Needs(deps, m) = {deps[m][i] : i \in DOMAIN deps[m]}
             /\ IsFiniteSet(DOMAIN deps[m])
             /\ Cardinality(DOMAIN deps[m]) = Len(deps[m])
  <2>1. deps[m] \in Seq(Range(deps[m]))
    BY GraphAssumption
  <2>2. DOMAIN deps[m] = 1..Len(deps[m]) /\ Len(deps[m]) \in Nat
    BY <2>1
  <2>3. IsFiniteSet(1..Len(deps[m])) /\ Cardinality(1..Len(deps[m])) = Len(deps[m])
    BY <2>2, FS_Interval
  <2> QED BY <2>2, <2>3 DEF Needs, Range
<1> QED BY <1>1, <1>2, <1>3

\* A module that waits for nothing needs only what has been processed.
LEMMA NothingAwaited ==
  ASSUME Sound, NEW m \in DOMAIN deps
  PROVE  indeg[m] = 0 <=> Needs(deps, m) \subseteq Done
<1>1. /\ IsFiniteSet(DOMAIN deps[m]) /\ Needs(deps, m) = {deps[m][i] : i \in DOMAIN deps[m]}
      /\ indeg[m] = Cardinality(Waiting(m))
  BY Finite DEF Sound, Counts
<1>2. IsFiniteSet(Waiting(m))
  BY <1>1, FS_Subset DEF Waiting
<1>3. indeg[m] = 0 <=> Waiting(m) = {}
  BY <1>1, <1>2, FS_EmptySet
<1> QED BY <1>1, <1>3 DEF Waiting

LEMMA InitSound == Init => Sound
<1> SUFFICES ASSUME Init PROVE Sound
  OBVIOUS
<1>1. deps \in Graphs /\ Placed = {} /\ Done = {}
  BY DEF Init, Placed, Done
<1>2. TypeOK
  BY <1>1, Finite DEF Init, TypeOK, InDegree, Sources
<1>3. Counts
  <2> SUFFICES ASSUME NEW m \in DOMAIN deps
               PROVE  indeg[m] = Cardinality(Waiting(m)) /\ (indeg[m] = 0 <=> m \in next)
    BY <1>1 DEF Counts
  <2>1. Waiting(m) = DOMAIN deps[m]
    BY <1>1 DEF Waiting
  <2> QED BY <1>1, <2>1, Finite DEF Init, InDegree, Sources
<1>4. Progress
  BY <1>1, FS_EmptySet DEF Init, Progress
<1>5. Apart
  BY <1>1, FS_EmptySet DEF Init, Apart
<1>6. Stacked /\ Outcomes
  BY DEF Init, Stacked, LayersAreIndependent, Outcomes
<1> QED BY <1>1, <1>2, <1>3, <1>4, <1>5, <1>6 DEF Sound

\* The head of the outer loop.
LEMMA OpenSound ==
  ASSUME Sound, OpenLayer
  PROVE  Sound'
<1>1. /\ deps \in Graphs /\ TypeOK /\ Counts /\ Progress /\ Apart /\ Stacked /\ Outcomes
      /\ AllKnown(deps) /\ current = {} /\ next # {} /\ next \subseteq DOMAIN deps
      /\ layers \in Seq(SUBSET DOMAIN deps) /\ Len(layers) \in Nat
      /\ layers' = Append(layers, next) /\ current' = next /\ next' = {}
      /\ UNCHANGED <<deps, indeg, processed, result>> /\ result = "none"
  BY DEF Sound, TypeOK, OpenLayer
<1>2. /\ DOMAIN layers = 1..Len(layers) /\ DOMAIN layers' = 1..(Len(layers) + 1)
      /\ Len(layers') = Len(layers) + 1 /\ layers' # <<>>
      /\ layers'[Len(layers) + 1] = next
      /\ \A i \in DOMAIN layers : layers'[i] = layers[i]
  BY <1>1
<1>3. Placed' = Placed \cup next
  BY <1>1, <1>2 DEF Placed
<1>4. Done' = Done /\ Done = Placed
  BY <1>1, <1>3 DEF Done, Apart
<1>5. \A n \in next : Needs(deps, n) \subseteq Placed
  BY <1>1, <1>4, NothingAwaited DEF Counts
<1>6. TypeOK'
  BY <1>1 DEF TypeOK
<1>7. Counts'
  BY <1>1, <1>3, <1>4 DEF Counts, Waiting
<1>8. Progress'
  BY <1>1, <1>2, <1>4 DEF Progress
<1>9. Apart'
  <2>1. IsFiniteSet(Placed) /\ IsFiniteSet(next) /\ Placed \cap next = {}
    BY <1>1, Finite, FS_Subset DEF Apart
  <2>2. Cardinality(next) \in Nat \ {0} /\ Cardinality(Placed) \in Nat
    BY <1>1, <2>1, FS_EmptySet, FS_CardinalityType
  <2>3. Cardinality(Placed') = Cardinality(Placed) + Cardinality(next)
    <3>1. Cardinality(Placed \cap next) = 0
      BY <2>1, FS_EmptySet
    <3>2. Cardinality(Placed \cup next) = Cardinality(Placed) + Cardinality(next) - Cardinality(Placed \cap next)
      BY <2>1, FS_Union
    <3> QED BY <1>3, <2>2, <3>1, <3>2
  <2>4. Len(layers') <= Cardinality(Placed')
    BY <1>1, <1>2, <2>2, <2>3 DEF Apart
  <2>5. \A i \in DOMAIN layers : layers[i] \cap next = {}
    BY <1>1 DEF Apart, Placed
  <2> QED BY <1>1, <1>2, <2>4, <2>5 DEF Apart
<1>10. Stacked'
  <2>1. LayersAreIndependent'
    <3> SUFFICES ASSUME NEW i \in DOMAIN layers', NEW n \in layers'[i], NEW d \in Needs(deps, n)
                 PROVE  \E j \in 1..(i - 1) : d \in layers'[j]
      BY <1>1 DEF LayersAreIndependent
    <3>1. CASE i \in DOMAIN layers
      BY <1>1, <1>2, <3>1 DEF Stacked, LayersAreIndependent
    <3>2. CASE i = Len(layers) + 1
      BY <1>1, <1>2, <1>5, <3>2 DEF Placed
    <3> QED BY <1>1, <1>2, <3>1, <3>2
  <2>2. ASSUME NEW i \in DOMAIN layers', i > 1, NEW n \in layers'[i]
        PROVE  \E d \in Needs(deps, n) : d \in layers'[i - 1]
    <3>1. CASE i \in DOMAIN layers
      BY <1>1, <1>2, <2>2, <3>1 DEF Stacked
    <3>2. CASE i = Len(layers) + 1
      <4>1. Len(layers) \in DOMAIN layers /\ layers # <<>> /\ i - 1 = Len(layers)
        BY <1>1, <1>2, <2>2, <3>2
      <4>2. n \in next
        BY <1>2, <2>2, <3>2
      <4> QED BY <1>1, <1>2, <4>1, <4>2 DEF Stacked
    <3>3. i \in DOMAIN layers \/ i = Len(layers) + 1
      BY <1>1, <1>2
    <3> QED BY <3>1, <3>2, <3>3
  <2> QED BY <1>1, <2>1, <2>2 DEF Stacked
<1>11. Outcomes'
  BY <1>1 DEF Outcomes
<1> QED BY <1>1, <1>6, <1>7, <1>8, <1>9, <1>10, <1>11 DEF Sound

\* One module of the current layer.
LEMMA ProcessSound ==
  ASSUME Sound, NEW n \in current, Process(n)
  PROVE  Sound'
<1>1. /\ deps \in Graphs /\ TypeOK /\ Counts /\ Progress /\ Apart /\ Stacked /\ Outcomes
      /\ current' = current \ {n} /\ processed' = processed + 1
      /\ indeg' = [m \in DOMAIN deps |-> indeg[m] - Count(m, n)]
      /\ next' = next \cup {m \in DOMAIN deps : indeg[m] # 0 /\ indeg'[m] = 0}
      /\ UNCHANGED <<deps, layers, result>>
  BY DEF Sound, Process
<1>2. /\ layers # <<>> /\ current \subseteq layers[Len(layers)] /\ Len(layers) \in DOMAIN layers
      /\ current \subseteq Placed /\ n \in Placed /\ n \notin Done /\ n \in DOMAIN deps
  <2>1. layers # <<>> /\ current \subseteq layers[Len(layers)] /\ current \subseteq DOMAIN deps
    BY <1>1 DEF Progress, TypeOK
  <2>2. Len(layers) \in DOMAIN layers
    BY <1>1, <2>1 DEF TypeOK
  <2> QED BY <2>1, <2>2 DEF Placed, Done
<1>3. Placed' = Placed /\ Done' = Done \cup {n}
  BY <1>1, <1>2 DEF Placed, Done
<1>4. ASSUME NEW m \in DOMAIN deps
      PROVE  /\ indeg'[m] = Cardinality(Waiting(m)') /\ indeg'[m] \in Nat
             /\ indeg[m] = 0 => indeg'[m] = 0
             /\ indeg[m] # 0 /\ indeg'[m] = 0 => n \in Needs(deps, m)
  <2>1. /\ IsFiniteSet(DOMAIN deps[m]) /\ Needs(deps, m) = {deps[m][i] : i \in DOMAIN deps[m]}
        /\ indeg[m] = Cardinality(Waiting(m))
    BY <1>1, Finite DEF Counts
  <2>2. Waiting(m) = Waiting(m)' \cup Occurrences(deps, m, n) /\ Waiting(m)' \cap Occurrences(deps, m, n) = {}
    BY <1>1, <1>2, <1>3 DEF Waiting, Occurrences
  <2>3. IsFiniteSet(Waiting(m)') /\ IsFiniteSet(Occurrences(deps, m, n))
    BY <1>1, <2>1, FS_Subset DEF Waiting, Occurrences
  <2>4. Cardinality(Waiting(m)') \in Nat /\ Cardinality(Occurrences(deps, m, n)) \in Nat
    BY <2>3, FS_CardinalityType
  <2>5. Cardinality(Waiting(m)) = Cardinality(Waiting(m)') + Cardinality(Occurrences(deps, m, n))
    BY <2>2, <2>3, <2>4, FS_Union, FS_EmptySet
  <2>6. indeg'[m] = indeg[m] - Cardinality(Occurrences(deps, m, n))
    BY <1>1 DEF Count
  <2>7. Occurrences(deps, m, n) # {} => n \in Needs(deps, m)
    BY <2>1 DEF Occurrences
  <2>8. Occurrences(deps, m, n) = {} => Cardinality(Occurrences(deps, m, n)) = 0
    BY FS_EmptySet
  <2> QED BY <2>1, <2>4, <2>5, <2>6, <2>7, <2>8
<1>5. TypeOK'
  <2>1. indeg' \in [DOMAIN deps -> Nat]
    BY <1>1, <1>4
  <2> QED BY <1>1, <2>1 DEF TypeOK
<1>6. Counts'
  BY <1>1, <1>3, <1>4 DEF Counts
<1>7. Progress'
  <2>1. Cardinality(Done') = Cardinality(Done) + 1
    BY <1>1, <1>2, <1>3, Finite, FS_AddElement
  <2> QED BY <1>1, <1>2, <2>1 DEF Progress
<1>8. Apart'
  BY <1>1, <1>3 DEF Apart, Counts
<1>9. Stacked'
  <2>1. \A m \in next' : \E d \in Needs(deps, m) : d \in layers[Len(layers)]
    BY <1>1, <1>2, <1>4 DEF Stacked
  <2> QED BY <1>1, <2>1 DEF Stacked, LayersAreIndependent
<1>10. Outcomes'
  BY <1>1, <1>2 DEF Outcomes, Progress
<1> QED BY <1>1, <1>5, <1>6, <1>7, <1>8, <1>9, <1>10 DEF Sound

LEMMA EndSound ==
  ASSUME Sound, RejectUnknown \/ Finish \/ UNCHANGED vars
  PROVE  Sound'
<1>1. UNCHANGED <<deps, indeg, layers, current, next, processed>>
  BY DEF RejectUnknown, Finish, vars
<1>2. Placed' = Placed /\ Done' = Done /\ \A m : Waiting(m)' = Waiting(m)
  BY <1>1 DEF Placed, Done, Waiting
<1>3. (deps \in Graphs /\ Counts /\ Progress /\ Apart /\ Stacked)'
  BY <1>1, <1>2 DEF Sound, Counts, Progress, Apart, Stacked, LayersAreIndependent
<1>4. TypeOK' /\ Outcomes'
  <2>1. CASE RejectUnknown
    BY <1>1, <2>1 DEF RejectUnknown, Sound, TypeOK, Outcomes
  <2>2. CASE Finish
    BY <1>1, <2>2 DEF Finish, NoLayerLeft, Sound, TypeOK, Outcomes
  <2>3. CASE UNCHANGED vars
    BY <2>3 DEF vars, Sound, TypeOK, Outcomes
  <2> QED BY <2>1, <2>2, <2>3
<1> QED BY <1>3, <1>4 DEF Sound

\* The counters of Kahn's algorithm say what they are meant to, for every finite graph:
\* repeated names, names nobody registered and cycles included.
THEOREM CountersAreSound == Spec => []Sound
<1>1. Sound /\ [Next]_vars => Sound'
  BY OpenSound, ProcessSound, EndSound DEF Next
<1> QED BY <1>1, InitSound, PTL DEF Spec

\* Every variable has its type: no counter falls below zero.
THEOREM TypeCorrect == Spec => []TypeOK
<1>1. Sound => TypeOK
  BY DEF Sound
<1> QED BY <1>1, CountersAreSound, PTL

\* Everything a module depends on is in an earlier layer, at every moment of the
\* planning: what Start launches together is independent.
THEOREM LayersCanRunTogether == Spec => []LayersAreIndependent
<1>1. Sound => LayersAreIndependent
  BY DEF Sound, Stacked
<1> QED BY <1>1, CountersAreSound, PTL

-----------------------------------------------------------------------------
(* What plan returns                                                       *)

\* The layer of a module that has been placed.
LEMMA PlacedInOne ==
  ASSUME Sound, NEW n \in Placed
  PROVE  /\ LayerOf(n) \in DOMAIN layers /\ n \in layers[LayerOf(n)]
         /\ \A i \in DOMAIN layers : n \in layers[i] => i = LayerOf(n)
<1>1. \E i \in DOMAIN layers : n \in layers[i]
  BY DEF Placed
<1> QED BY <1>1 DEF LayerOf, Sound, Apart

\* A graph that is laid out: the layers are the levels.
LEMMA LaidOut ==
  ASSUME Sound, result = "layers"
  PROVE  Plannable(deps) /\ [n \in DOMAIN deps |-> LayerOf(n)] = Levelling(deps)
<1> DEFINE level == [n \in DOMAIN deps |-> LayerOf(n)]
           N     == Cardinality(DOMAIN deps)
<1>1. /\ deps \in Graphs /\ AllKnown(deps) /\ current = {} /\ processed = N /\ processed = Cardinality(Done)
      /\ LayersAreIndependent /\ Stacked /\ Apart /\ layers \in Seq(SUBSET DOMAIN deps)
  BY DEF Sound, Outcomes, Progress, Stacked, TypeOK
<1>2. Placed = DOMAIN deps
  BY <1>1, Finite, FS_Subset DEF Done, Placed
<1>3. /\ N \in Nat /\ DOMAIN layers = 1..Len(layers) /\ Len(layers) \in Nat /\ Len(layers) <= N
  BY <1>1, <1>2, Finite, FS_CardinalityType DEF Apart
<1>4. \A n \in DOMAIN deps : /\ level[n] \in DOMAIN layers /\ n \in layers[level[n]]
                            /\ \A i \in DOMAIN layers : n \in layers[i] => i = level[n]
  BY <1>2, PlacedInOne
<1> HIDE DEF level
<1>5. level \in [DOMAIN deps -> 1..N]
  <2>1. \A n \in DOMAIN deps : level[n] \in 1..N
    BY <1>3, <1>4
  <2> QED BY <2>1 DEF level
<1>6. IsLevelling(deps, level)
  <2> SUFFICES ASSUME NEW n \in DOMAIN deps
               PROVE  /\ \A d \in Needs(deps, n) : level[d] < level[n]
                      /\ level[n] = 1 \/ \E d \in Needs(deps, n) : level[n] = level[d] + 1
    BY DEF IsLevelling
  <2>1. level[n] \in DOMAIN layers /\ n \in layers[level[n]] /\ level[n] \in Nat \ {0}
    BY <1>3, <1>4
  <2>2. ASSUME NEW d \in Needs(deps, n) PROVE level[d] < level[n]
    <3>1. PICK j \in 1..(level[n] - 1) : d \in layers[j]
      BY <1>1, <2>1 DEF LayersAreIndependent
    <3>2. j \in DOMAIN layers /\ j < level[n]
      BY <1>3, <2>1, <3>1
    <3>3. d \in DOMAIN deps
      BY <1>1 DEF AllKnown
    <3>4. level[d] = j
      BY <1>4, <3>1, <3>2, <3>3
    <3> QED BY <3>2, <3>4
  <2>3. ASSUME level[n] # 1 PROVE \E d \in Needs(deps, n) : level[n] = level[d] + 1
    <3>1. level[n] > 1 /\ level[n] - 1 \in DOMAIN layers
      BY <1>3, <2>1, <2>3
    <3>2. PICK d \in Needs(deps, n) : d \in layers[level[n] - 1]
      BY <1>1, <2>1, <3>1 DEF Stacked
    <3>3. d \in DOMAIN deps
      BY <1>1 DEF AllKnown
    <3>4. level[d] = level[n] - 1
      BY <1>4, <3>1, <3>2, <3>3
    <3> QED BY <2>1, <3>4
  <2> QED BY <2>2, <2>3
<1>7. level \in Levels(deps)
  BY <1>5 DEF Levels
<1>8. Levelling(deps) \in Levels(deps) /\ IsLevelling(deps, Levelling(deps))
  BY <1>6, <1>7 DEF Levelling
<1>9. \A f \in Levels(deps) : f \in [DOMAIN deps -> Nat]
  BY <1>3 DEF Levels
<1>10. level = Levelling(deps)
  BY <1>1, <1>6, <1>7, <1>8, <1>9, LevellingIsUnique
<1> QED BY <1>1, <1>6, <1>7, <1>10 DEF Plannable, level

\* A graph that is not laid out: what is left over has no lowest module.
LEMMA LeftOver ==
  ASSUME Sound, result = "ErrDependencyCycle"
  PROVE  ~Plannable(deps)
<1> DEFINE S == DOMAIN deps \ Done
           N == Cardinality(DOMAIN deps)
<1>1. /\ deps \in Graphs /\ AllKnown(deps) /\ current = {} /\ next = {} /\ processed # N
      /\ processed = Cardinality(Done) /\ Counts
  BY DEF Sound, Outcomes, Progress
<1>2. Done = Placed /\ Done \subseteq DOMAIN deps /\ N \in Nat
  BY <1>1, Finite, FS_CardinalityType DEF Done, Placed
<1>3. S # {} /\ S \in SUBSET DOMAIN deps
  BY <1>1, <1>2
<1>4. ASSUME NEW n \in S PROVE \E d \in Needs(deps, n) : d \in S
  <2>1. indeg[n] # 0
    BY <1>1, <1>2 DEF Counts
  <2>2. ~(Needs(deps, n) \subseteq Done)
    BY <2>1, NothingAwaited
  <2> QED BY <1>1, <2>2 DEF AllKnown
<1> HIDE DEF S
<1>5. SUFFICES ASSUME NEW level \in Levels(deps), IsLevelling(deps, level) PROVE FALSE
  BY DEF Plannable
<1>6. level \in [DOMAIN deps -> Nat] /\ \A n \in DOMAIN deps : \A d \in Needs(deps, n) : level[d] < level[n]
  BY <1>2, <1>5 DEF Levels, IsLevelling
<1> QED BY <1>3, <1>4, <1>6, NothingLowest

\* plan returns the levels of the graph as its layers, and reports an unknown
\* dependency, or a cycle, exactly when there are no levels for that reason.
THEOREM PlansCorrectly == Spec => []PlanIsCorrect
<1>1. Sound => PlanIsCorrect
  BY LaidOut, LeftOver DEF Sound, Apart, Outcomes, PlanIsCorrect
<1> QED BY <1>1, CountersAreSound, PTL

=============================================================================
