----------------------------- MODULE Manager_proofs -----------------------------
(***************************************************************************)
(* Proofs about Manager: what holds however many goroutines call Start and *)
(* Stop, and however they overlap.                                         *)
(*                                                                         *)
(* LayingOut, the inductive invariant, says what the point a driver is at  *)
(* means for its locals (Shape) and that no module is in the hands of two  *)
(* goroutines (Ownership): the state guards of Init and Destroy are all    *)
(* that stands between two calls that overlap.                             *)
(***************************************************************************)
EXTENDS Manager, TLAPS, SequenceTheorems, FiniteSetTheorems

FieldTypes == /\ DOMAIN deps \subseteq Modules
              /\ started \in Seq(DOMAIN deps)
              /\ mstate \in {"Created", "Starting", "Running", "Stopped"}
              /\ ended \in BOOLEAN
              /\ mod \in [Modules -> States]
              /\ injected \subseteq DOMAIN deps
              /\ kept \subseteq DOMAIN deps

LocalTypes == /\ pc \in [Drivers -> Points]
              /\ DOMAIN rank = Drivers
              /\ todo \in [Drivers -> SUBSET DOMAIN deps]
              /\ DOMAIN go = Drivers
              /\ failed \in [Drivers -> SUBSET Modules]
              /\ canceled \in [Drivers -> BOOLEAN]
              /\ aborting \in [Drivers -> BOOLEAN]
              /\ DOMAIN outcome = Drivers
              /\ \A t \in Drivers : /\ DOMAIN rank[t] \subseteq DOMAIN deps
                                    /\ DOMAIN go[t] \subseteq DOMAIN rank[t]
                                    /\ todo[t] \subseteq DOMAIN rank[t]
                                    /\ \A n \in DOMAIN rank[t] : rank[t][n] \in Int
                                    /\ \A n \in DOMAIN go[t] : go[t][n] \in Places

Types == FieldTypes /\ LocalTypes

Up   == {"start", "starting"}
Down == {"planStop", "teardown", "stopping"}

\* What the point a driver is at says about its locals.
Fits(t) ==
  /\ pc[t] \notin Up \cup Down \cup {"inject"} => todo[t] = {}
  /\ pc[t] \notin {"start", "starting", "teardown", "stopping"} => DOMAIN go[t] = {}
  /\ pc[t] \in {"start", "teardown"} => LayerDone(t)
  /\ pc[t] = "starting" => \A n \in DOMAIN go[t] : go[t][n] \in {"call", "init", "rollback", "append", "done"}
  /\ pc[t] = "stopping" => \A n \in DOMAIN go[t] : go[t][n] \in {"call", "destroy", "release", "forget", "done"}
  /\ aborting[t] => pc[t] \in Down \cup {"stop"}
  /\ pc[t] \notin {"starting", "teardown", "stopping"} => failed[t] = {}
  /\ pc[t] \in Up => DOMAIN rank[t] \subseteq injected
  /\ pc[t] \in Down \cup {"stop"} => ended
  /\ todo[t] \cap DOMAIN go[t] = {}

Shape == \A t \in Drivers : Fits(t)

\* t has called Init or Destroy of n, and the call is past the state guard.
Handling == {"init", "rollback", "destroy", "release"}
Handles(t, n) == n \in DOMAIN go[t] /\ go[t][n] \in Handling

\* A module is handled by one goroutine at most, by none unless its state says so,
\* and untouched before it is registered.
Ownership ==
  /\ \A t \in Drivers, n \in Modules :
       Handles(t, n) => mod[n] = IF go[t][n] = "init" THEN "Initializing" ELSE "Destroying"
  /\ \A t, u \in Drivers, n \in Modules : Handles(t, n) /\ Handles(u, n) => t = u
  /\ \A n \in Modules : mod[n] \in {"Initializing", "Destroying"} => \E t \in Drivers : Handles(t, n)
  /\ \A n \in Modules \ DOMAIN deps : mod[n] = "Created"

-----------------------------------------------------------------------------
(* What the helpers of Manager do                                          *)

LEMMA Nobody == DOMAIN NoOne = {}
  BY DEF NoOne

LEMMA AdvanceEffect ==
  ASSUME Types, NEW t \in Drivers, NEW n, NEW from, NEW to \in Places, Advance(t, n, from, to)
  PROVE  /\ n \in DOMAIN go[t] /\ go[t][n] = from
         /\ n \in DOMAIN deps /\ n \in Modules
         /\ DOMAIN go' = Drivers
         /\ \A u \in Drivers : DOMAIN go'[u] = DOMAIN go[u]
         /\ \A u \in Drivers : \A m \in DOMAIN go[u] :
              go'[u][m] = IF u = t /\ m = n THEN to ELSE go[u][m]
  BY DEF Types, FieldTypes, LocalTypes, Advance

LEMMA ReturnEffect ==
  ASSUME Types, NEW t \in Drivers, NEW r, Return(t, r)
  PROVE  /\ pc' = [pc EXCEPT ![t] = "idle"]
         /\ DOMAIN rank' = Drivers /\ DOMAIN go' = Drivers /\ DOMAIN outcome' = Drivers
         /\ DOMAIN rank'[t] = {} /\ DOMAIN go'[t] = {}
         /\ \A u \in Drivers \ {t} : rank'[u] = rank[u] /\ go'[u] = go[u]
         /\ todo' = [todo EXCEPT ![t] = {}]
         /\ failed' = [failed EXCEPT ![t] = {}]
         /\ canceled' = [canceled EXCEPT ![t] = FALSE]
         /\ aborting' = [aborting EXCEPT ![t] = FALSE]
  BY Nobody DEF Types, LocalTypes, Return, Goto, Set

LEMMA LaunchEffect ==
  ASSUME Types, NEW t \in Drivers, NEW layer \in SUBSET todo[t], NEW point, Launch(t, layer, point)
  PROVE  /\ pc' = [pc EXCEPT ![t] = point]
         /\ todo' = [todo EXCEPT ![t] = todo[t] \ layer]
         /\ DOMAIN go' = Drivers
         /\ DOMAIN go'[t] = layer
         /\ \A n \in layer : go'[t][n] = "call"
         /\ \A u \in Drivers \ {t} : go'[u] = go[u]
  BY DEF Types, LocalTypes, Launch, Goto, Set

LEMMA ForgetEffect ==
  ASSUME Types, NEW t \in Drivers, NEW n, Forget(t, n)
  PROVE  /\ started' \in Seq(DOMAIN deps)
         /\ Range(started') = Range(started) \ {n}
         /\ \E at \in [DOMAIN started' -> DOMAIN started] :
              /\ \A i, j \in DOMAIN started' : i < j => at[i] < at[j]
              /\ \A i \in DOMAIN started' : started'[i] = started[at[i]]
<1> DEFINE left == {i \in DOMAIN started : started[i] # n}
<1> DEFINE k == Cardinality(left)
<1>1. PICK at \in [1..k -> left] : /\ \A i, j \in DOMAIN at : i < j => at[i] < at[j]
                                  /\ started' = [i \in DOMAIN at |-> started[at[i]]]
  BY DEF Forget
<1>2. started \in Seq(DOMAIN deps) /\ DOMAIN started = 1..Len(started) /\ Len(started) \in Nat
  BY DEF Types, FieldTypes
<1>3. IsFiniteSet(left) /\ k \in Nat
  <2>1. IsFiniteSet(1..Len(started))
    BY <1>2, FS_Interval
  <2>2. IsFiniteSet(left)
    BY <1>2, <2>1, FS_Subset
  <2> QED BY <2>2, FS_CardinalityType
<1>4. \A i \in left : started[i] \in DOMAIN deps /\ i \in Int
  BY <1>2
<1>5. left \subseteq DOMAIN started
  OBVIOUS
<1>6. Range(started) \ {n} = {started[i] : i \in left}
  BY DEF Range
<1> HIDE DEF left, k
<1>7. started' \in [1..k -> DOMAIN deps]
  BY <1>1, <1>4
<1>8. started' \in Seq(DOMAIN deps)
  BY <1>7, <1>3, IsASeq
<1>9. \A x \in left : \E i \in 1..k : at[i] = x
  <2>1. at \in Injection(1..k, left)
    BY <1>1, <1>4 DEF Injection, IsInjective
  <2>2. IsFiniteSet(1..k) /\ Cardinality(1..k) = k
    BY <1>3, FS_Interval
  <2>3. at \in Surjection(1..k, left)
    BY <2>1, <2>2, <1>3, FS_Injection DEF k
  <2> QED BY <2>3 DEF Surjection
<1>10. Range(started') = {started[at[i]] : i \in 1..k}
  BY <1>1 DEF Range
<1>11. {started[at[i]] : i \in 1..k} = {started[i] : i \in left}
  BY <1>1, <1>9
<1>12. at \in [DOMAIN started' -> DOMAIN started]
  BY <1>1, <1>5
<1>13. \A i, j \in DOMAIN started' : i < j => at[i] < at[j]
  BY <1>1
<1>14. \A i \in DOMAIN started' : started'[i] = started[at[i]]
  BY <1>1
<1> QED BY <1>6, <1>8, <1>10, <1>11, <1>12, <1>13, <1>14

-----------------------------------------------------------------------------
(* Types                                                                   *)

LEMMA LayersFit ==
  ASSUME NEW t \in Drivers
  PROVE  LowestLayer(t) \subseteq todo[t] /\ HighestLayer(t) \subseteq todo[t]
  BY DEF LowestLayer, HighestLayer

LEMMA LevellingType ==
  ASSUME Plannable(deps)
  PROVE  /\ DOMAIN Levelling(deps) = DOMAIN deps
         /\ \A n \in DOMAIN deps : Levelling(deps)[n] \in Int
         /\ \A n \in DOMAIN deps : \A d \in Needs(deps, n) :
              d \in DOMAIN deps /\ Levelling(deps)[d] < Levelling(deps)[n]
<1>1. PICK level \in Levels(deps) : IsLevelling(deps, level)
  BY DEF Plannable
<1>2. Levelling(deps) \in Levels(deps) /\ IsLevelling(deps, Levelling(deps))
  BY <1>1 DEF Levelling
<1>3. AllKnown(deps)
  BY DEF Plannable
<1> QED BY <1>2, <1>3 DEF Levels, IsLevelling, AllKnown

LEMMA StopRankType ==
  ASSUME Types, NEW position, DOMAIN position \subseteq DOMAIN deps,
         \A n \in DOMAIN position : position[n] \in Int
  PROVE  /\ DOMAIN StopRank(deps, position) = DOMAIN position
         /\ \A n \in DOMAIN position : StopRank(deps, position)[n] \in Int
<1>1. CASE Plannable(deps)
  <2>1. StopRank(deps, position) = [n \in DOMAIN position |-> Levelling(deps)[n]]
    BY <1>1 DEF StopRank
  <2> QED BY <1>1, <2>1, LevellingType
<1>2. CASE ~Plannable(deps)
  BY <1>2 DEF StopRank
<1> QED BY <1>1, <1>2

LEMMA SnapshotType ==
  ASSUME Types
  PROVE  /\ Range(started) \subseteq DOMAIN deps
         /\ \A n \in Range(started) : LET i == CHOOSE j \in DOMAIN started : started[j] = n
                                       IN  i \in Int /\ i \in DOMAIN started /\ started[i] = n
  BY DEF Types, FieldTypes, Range

LEMMA ReturnTypes ==
  ASSUME Types, NEW t \in Drivers, NEW r, Return(t, r), deps' = deps
  PROVE  LocalTypes'
<1>1. DOMAIN rank' = Drivers /\ DOMAIN go' = Drivers /\ DOMAIN outcome' = Drivers
  BY ReturnEffect
<1>2. /\ pc' \in [Drivers -> Points] /\ todo' \in [Drivers -> SUBSET DOMAIN deps]
      /\ failed' \in [Drivers -> SUBSET Modules]
      /\ canceled' \in [Drivers -> BOOLEAN] /\ aborting' \in [Drivers -> BOOLEAN]
  <2>1. /\ pc' = [pc EXCEPT ![t] = "idle"] /\ todo' = [todo EXCEPT ![t] = {}]
        /\ failed' = [failed EXCEPT ![t] = {}]
        /\ canceled' = [canceled EXCEPT ![t] = FALSE] /\ aborting' = [aborting EXCEPT ![t] = FALSE]
    BY ReturnEffect
  <2> QED BY <2>1 DEF Types, LocalTypes, Points
<1>3. ASSUME NEW u \in Drivers
      PROVE  /\ DOMAIN rank'[u] \subseteq DOMAIN deps
             /\ DOMAIN go'[u] \subseteq DOMAIN rank'[u]
             /\ todo'[u] \subseteq DOMAIN rank'[u]
             /\ \A n \in DOMAIN rank'[u] : rank'[u][n] \in Int
             /\ \A n \in DOMAIN go'[u] : go'[u][n] \in Places
  BY ReturnEffect DEF Types, LocalTypes
<1> QED BY <1>1, <1>2, <1>3 DEF LocalTypes

LEMMA LaunchTypes ==
  ASSUME Types, NEW t \in Drivers, NEW layer \in SUBSET todo[t], NEW point \in Points,
         Launch(t, layer, point), UNCHANGED <<deps, rank, failed, canceled, aborting, outcome>>
  PROVE  LocalTypes'
<1>1. pc' \in [Drivers -> Points] /\ todo' \in [Drivers -> SUBSET DOMAIN deps] /\ DOMAIN go' = Drivers
  <2>1. /\ pc' = [pc EXCEPT ![t] = point] /\ todo' = [todo EXCEPT ![t] = todo[t] \ layer]
        /\ DOMAIN go' = Drivers
    BY LaunchEffect
  <2> QED BY <2>1 DEF Types, LocalTypes
<1>2. ASSUME NEW u \in Drivers
      PROVE  /\ DOMAIN go'[u] \subseteq DOMAIN rank[u]
             /\ todo'[u] \subseteq DOMAIN rank[u]
             /\ \A n \in DOMAIN go'[u] : go'[u][n] \in Places
  BY LaunchEffect DEF Types, LocalTypes, Places
<1> QED BY <1>1, <1>2 DEF Types, LocalTypes

LEMMA AdvanceTypes ==
  ASSUME Types, NEW t \in Drivers, NEW n, NEW from, NEW to \in Places, Advance(t, n, from, to),
         failed' = failed \/ failed' = [failed EXCEPT ![t] = failed[t] \cup {n}],
         UNCHANGED <<deps, pc, rank, todo, canceled, aborting, outcome>>
  PROVE  LocalTypes'
<1>1. failed' \in [Drivers -> SUBSET Modules]
  BY AdvanceEffect DEF Types, LocalTypes
<1> QED BY <1>1, AdvanceEffect DEF Types, LocalTypes

LEMMA TypesStep == Types /\ Shape /\ [Next]_vars => Types'
<1> SUFFICES ASSUME Types, Shape, [Next]_vars PROVE Types'
  OBVIOUS
<1> USE DEF fields, locals, Set, Goto
<1>1. ASSUME NEW t \in Drivers, StartRefused(t) PROVE Types'
  BY <1>1 DEF Types, FieldTypes, LocalTypes, StartRefused, Points
<1>2. ASSUME NEW t \in Drivers, BeginStart(t) PROVE Types'
  BY <1>2 DEF Types, FieldTypes, LocalTypes, BeginStart, Points
<1>3. ASSUME NEW t \in Drivers, BeginStop(t) PROVE Types'
  BY <1>3 DEF Types, FieldTypes, LocalTypes, BeginStop, Points, Announcement
<1>4. ASSUME NEW t \in Drivers, PlanStart(t) PROVE Types'
  BY <1>4, LevellingType DEF Types, FieldTypes, LocalTypes, PlanStart, Points
<1>5. ASSUME NEW t \in Drivers, PlanFails(t) PROVE Types'
  BY <1>5 DEF Types, FieldTypes, LocalTypes, PlanFails, Points
<1>6. ASSUME NEW t \in Drivers, StartUnplannable(t) PROVE Types'
  <2>1. LocalTypes'
    BY <1>6, ReturnTypes DEF StartUnplannable
  <2> QED BY <1>6, <2>1 DEF Types, FieldTypes, StartUnplannable
<1>7. ASSUME NEW t \in Drivers, InjectContext(t) PROVE Types'
  BY <1>7 DEF Types, FieldTypes, LocalTypes, InjectContext, Points
<1>8. ASSUME NEW t \in Drivers, StartLayer(t) PROVE Types'
  <2>1. LocalTypes'
    BY <1>8, LaunchTypes, LayersFit DEF StartLayer, Points
  <2> QED BY <1>8, <2>1 DEF Types, FieldTypes, StartLayer
<1>9. ASSUME NEW t \in Drivers, LayerStarted(t) PROVE Types'
  BY <1>9 DEF Types, FieldTypes, LocalTypes, LayerStarted, Points
<1>10. ASSUME NEW t \in Drivers, StartFinished(t) PROVE Types'
  <2>1. LocalTypes'
    BY <1>10, ReturnTypes DEF StartFinished
  <2> QED BY <1>10, <2>1 DEF Types, FieldTypes, StartFinished
<1>11. ASSUME NEW t \in Drivers, Abort(t) PROVE Types'
  BY <1>11, Nobody DEF Types, FieldTypes, LocalTypes, Abort, Points, Announcement
<1>12. ASSUME NEW t \in Drivers, ClaimStop(t) PROVE Types'
  <2> DEFINE place == [n \in Range(started) |-> CHOOSE i \in DOMAIN started : started[i] = n]
  <2>1. Range(started) \subseteq DOMAIN deps /\ \A n \in Range(started) : place[n] \in Int
    BY SnapshotType
  <2>2. rank' = [rank EXCEPT ![t] = place] /\ todo' = [todo EXCEPT ![t] = Range(started)] /\ go' = go
    BY <1>12 DEF ClaimStop
  <2>3. DOMAIN go[t] = {}
    BY <1>12 DEF ClaimStop, Shape, Fits
  <2> HIDE DEF place
  <2>4. LocalTypes'
    BY <1>12, <2>1, <2>2, <2>3 DEF Types, LocalTypes, ClaimStop, Points, place
  <2> QED BY <1>12, <2>4 DEF Types, FieldTypes, ClaimStop, Unclaimed
<1>13. ASSUME NEW t \in Drivers, NothingToStop(t) PROVE Types'
  <2>1. LocalTypes'
    BY <1>13, ReturnTypes DEF NothingToStop
  <2> QED BY <1>13, <2>1 DEF Types, FieldTypes, NothingToStop
<1>14. ASSUME NEW t \in Drivers, PlanStop(t) PROVE Types'
  BY <1>14, StopRankType DEF Types, FieldTypes, LocalTypes, PlanStop, Points, Targets
<1>15. ASSUME NEW t \in Drivers, StopLayer(t) PROVE Types'
  <2>1. LocalTypes'
    BY <1>15, LaunchTypes, LayersFit DEF StopLayer, Points
  <2> QED BY <1>15, <2>1 DEF Types, FieldTypes, StopLayer
<1>16. ASSUME NEW t \in Drivers, LayerStopped(t) PROVE Types'
  BY <1>16 DEF Types, FieldTypes, LocalTypes, LayerStopped, Points
<1>17. ASSUME NEW t \in Drivers, StopAborted(t) PROVE Types'
  <2>1. LocalTypes'
    BY <1>17, ReturnTypes DEF StopAborted
  <2> QED BY <1>17, <2>1 DEF Types, FieldTypes, StopAborted
<1>18. ASSUME NEW t \in Drivers, StopFinished(t) PROVE Types'
  <2>1. LocalTypes'
    BY <1>18, ReturnTypes DEF StopFinished
  <2> QED BY <1>18, <2>1 DEF Types, FieldTypes, StopFinished
<1>19. ASSUME NEW t \in Drivers, Cancel(t) PROVE Types'
  BY <1>19 DEF Types, FieldTypes, LocalTypes, Cancel, Points
<1>20. ASSUME NEW t \in Drivers, NEW n \in DOMAIN go[t], InitModule(t, n) PROVE Types'
  <2>1. n \in Modules /\ n \in DOMAIN deps
    BY <1>20 DEF Types, FieldTypes, LocalTypes
  <2>2. LocalTypes'
    BY <1>20, AdvanceTypes DEF InitModule, Places
  <2> QED BY <1>20, <2>1, <2>2 DEF Types, FieldTypes, InitModule, States, Startable
<1>21. ASSUME NEW t \in Drivers, NEW n \in DOMAIN go[t], InitRefused(t, n) PROVE Types'
  <2>1. n \in Modules /\ n \in DOMAIN deps
    BY <1>21 DEF Types, FieldTypes, LocalTypes
  <2>2. LocalTypes'
    BY <1>21, AdvanceTypes DEF InitRefused, Places
  <2> QED BY <1>21, <2>1, <2>2 DEF Types, FieldTypes, InitRefused
<1>22. ASSUME NEW t \in Drivers, NEW n \in DOMAIN go[t], InitSucceeds(t, n) PROVE Types'
  <2>1. n \in Modules /\ n \in DOMAIN deps
    BY <1>22 DEF Types, FieldTypes, LocalTypes
  <2>2. LocalTypes'
    BY <1>22, AdvanceTypes DEF InitSucceeds, Places
  <2> QED BY <1>22, <2>1, <2>2 DEF Types, FieldTypes, InitSucceeds, States, Startable
<1>23. ASSUME NEW t \in Drivers, NEW n \in DOMAIN go[t], InitFails(t, n) PROVE Types'
  <2>1. n \in Modules /\ n \in DOMAIN deps
    BY <1>23 DEF Types, FieldTypes, LocalTypes
  <2>2. LocalTypes'
    BY <1>23, AdvanceTypes DEF InitFails, Places
  <2> QED BY <1>23, <2>1, <2>2 DEF Types, FieldTypes, InitFails, States, Startable
<1>24. ASSUME NEW t \in Drivers, NEW n \in DOMAIN go[t], RolledBack(t, n) PROVE Types'
  <2>1. n \in Modules /\ n \in DOMAIN deps
    BY <1>24 DEF Types, FieldTypes, LocalTypes
  <2>2. LocalTypes'
    BY <1>24, AdvanceTypes DEF RolledBack, Places, AfterError
  <2> QED BY <1>24, <2>1, <2>2 DEF Types, FieldTypes, RolledBack, States, Startable
<1>25. ASSUME NEW t \in Drivers, NEW n \in DOMAIN go[t], RecordStarted(t, n) PROVE Types'
  <2>1. n \in Modules /\ n \in DOMAIN deps
    BY <1>25 DEF Types, FieldTypes, LocalTypes
  <2>2. LocalTypes'
    BY <1>25, AdvanceTypes DEF RecordStarted, Places
  <2> QED BY <1>25, <2>1, <2>2, AppendProperties DEF Types, FieldTypes, RecordStarted
<1>26. ASSUME NEW t \in Drivers, NEW n \in DOMAIN go[t], DestroyModule(t, n) PROVE Types'
  <2>1. n \in Modules /\ n \in DOMAIN deps
    BY <1>26 DEF Types, FieldTypes, LocalTypes
  <2>2. LocalTypes'
    BY <1>26, AdvanceTypes DEF DestroyModule, Places
  <2> QED BY <1>26, <2>1, <2>2 DEF Types, FieldTypes, DestroyModule, States, Startable
<1>27. ASSUME NEW t \in Drivers, NEW n \in DOMAIN go[t], DestroyRefused(t, n) PROVE Types'
  <2>1. n \in Modules /\ n \in DOMAIN deps
    BY <1>27 DEF Types, FieldTypes, LocalTypes
  <2>2. LocalTypes'
    BY <1>27, AdvanceTypes DEF DestroyRefused, Places
  <2> QED BY <1>27, <2>1, <2>2 DEF Types, FieldTypes, DestroyRefused
<1>28. ASSUME NEW t \in Drivers, NEW n \in DOMAIN go[t], DestroyAbandoned(t, n) PROVE Types'
  <2>1. n \in Modules /\ n \in DOMAIN deps
    BY <1>28 DEF Types, FieldTypes, LocalTypes
  <2>2. LocalTypes'
    BY <1>28, AdvanceTypes DEF DestroyAbandoned, Places
  <2> QED BY <1>28, <2>1, <2>2 DEF Types, FieldTypes, DestroyAbandoned, States, Startable
<1>29. ASSUME NEW t \in Drivers, NEW n \in DOMAIN go[t], DestroyCommits(t, n) PROVE Types'
  <2>1. n \in Modules /\ n \in DOMAIN deps
    BY <1>29 DEF Types, FieldTypes, LocalTypes
  <2>2. LocalTypes'
    BY <1>29, AdvanceTypes DEF DestroyCommits, Places
  <2> QED BY <1>29, <2>1, <2>2 DEF Types, FieldTypes, DestroyCommits
<1>30. ASSUME NEW t \in Drivers, NEW n \in DOMAIN go[t], Destroyed(t, n) PROVE Types'
  <2>1. n \in Modules /\ n \in DOMAIN deps
    BY <1>30 DEF Types, FieldTypes, LocalTypes
  <2>2. LocalTypes'
    BY <1>30, AdvanceTypes DEF Destroyed, Places
  <2> QED BY <1>30, <2>1, <2>2 DEF Types, FieldTypes, Destroyed, States, Startable
<1>31. ASSUME NEW t \in Drivers, NEW n \in DOMAIN go[t], Forget(t, n) PROVE Types'
  <2>1. n \in Modules /\ n \in DOMAIN deps
    BY <1>31 DEF Types, FieldTypes, LocalTypes
  <2>2. LocalTypes'
    BY <1>31, AdvanceTypes DEF Forget, Places
  <2> QED BY <1>31, <2>1, <2>2, ForgetEffect DEF Types, FieldTypes, Forget
<1>32. ASSUME NEW n \in Modules, NEW list \in Declared[n], Register(n, list) PROVE Types'
  BY <1>32 DEF Types, FieldTypes, LocalTypes, Register
<1>33. CASE UNCHANGED vars
  BY <1>33 DEF Types, FieldTypes, LocalTypes, vars
<1> QED
  BY <1>1, <1>2, <1>3, <1>4, <1>5, <1>6, <1>7, <1>8, <1>9, <1>10, <1>11, <1>12, <1>13, <1>14, <1>15, <1>16,
     <1>17, <1>18, <1>19, <1>20, <1>21, <1>22, <1>23, <1>24, <1>25, <1>26, <1>27, <1>28, <1>29, <1>30, <1>31,
     <1>32, <1>33 DEF Next, DriverStep, Call, ModuleStep

-----------------------------------------------------------------------------
(* Shape                                                                   *)

\* A step of t.
StepOf(t) == DriverStep(t) \/ Call(t) \/ Cancel(t) \/ \E n \in DOMAIN go[t] : ModuleStep(t, n)

\* A step leaves the locals of u alone.
Spares(u) == UNCHANGED <<pc[u], rank[u], todo[u], go[u], failed[u], canceled[u], aborting[u], outcome[u]>>

LEMMA StepsAreOfOne ==
  Next <=> \/ \E t \in Drivers : StepOf(t)
           \/ \E n \in Modules : \E list \in Declared[n] : Register(n, list)
  BY DEF Next, StepOf

LEMMA AdvanceSpares ==
  ASSUME Types, NEW t \in Drivers, NEW n, NEW from, NEW to, Advance(t, n, from, to), NEW u \in Drivers \ {t}
  PROVE  go'[u] = go[u]
  BY DEF Types, LocalTypes, Advance

LEMMA OthersSpared ==
  ASSUME Types, NEW t \in Drivers, StepOf(t), NEW u \in Drivers \ {t}
  PROVE  Spares(u)
<1> USE DEF fields, locals, Set, Goto, Return, Launch
<1>1. CASE DriverStep(t)
  BY <1>1 DEF Types, LocalTypes, Spares, DriverStep, PlanStart, PlanFails, StartUnplannable, InjectContext, StartLayer,
     LayerStarted, StartFinished, Abort, ClaimStop, NothingToStop, PlanStop, StopLayer, LayerStopped, StopAborted, StopFinished
<1>2. CASE Call(t) \/ Cancel(t)
  BY <1>2 DEF Types, LocalTypes, Spares, Call, Cancel, StartRefused, BeginStart, BeginStop
<1>3. ASSUME NEW n \in DOMAIN go[t], ModuleStep(t, n) PROVE Spares(u)
  <2>1. go'[u] = go[u]
    BY <1>3, AdvanceSpares DEF ModuleStep, InitModule, InitRefused, InitSucceeds, InitFails, RolledBack, RecordStarted,
       DestroyModule, DestroyRefused, DestroyAbandoned, DestroyCommits, Destroyed, Forget
  <2>2. /\ UNCHANGED <<pc, rank, todo, canceled, aborting, outcome>>
        /\ failed' = failed \/ failed' = [failed EXCEPT ![t] = failed[t] \cup {n}]
    BY <1>3 DEF ModuleStep, InitModule, InitRefused, InitSucceeds, InitFails, RolledBack, RecordStarted,
       DestroyModule, DestroyRefused, DestroyAbandoned, DestroyCommits, Destroyed, Forget
  <2> QED BY <2>1, <2>2 DEF Types, LocalTypes, Spares
<1> QED BY <1>1, <1>2, <1>3 DEF StepOf

LEMMA StepsOnlyAdd ==
  ASSUME Types, NEW t \in Drivers, StepOf(t)
  PROVE  injected \subseteq injected' /\ (ended => ended') /\ deps' = deps
<1> USE DEF fields, locals
<1>1. CASE DriverStep(t)
  <2>1. deps' = deps /\ injected \subseteq injected'
    BY <1>1 DEF DriverStep, PlanStart, PlanFails, StartUnplannable, InjectContext, StartLayer, LayerStarted, StartFinished,
       Abort, ClaimStop, NothingToStop, PlanStop, StopLayer, LayerStopped, StopAborted, StopFinished
  <2>2. ended' = ended \/ ended' = TRUE
    BY <1>1 DEF DriverStep, PlanStart, PlanFails, StartUnplannable, InjectContext, StartLayer, LayerStarted, StartFinished,
       Abort, ClaimStop, NothingToStop, PlanStop, StopLayer, LayerStopped, StopAborted, StopFinished, Announcement
  <2> QED BY <2>1, <2>2
<1>2. CASE Call(t) \/ Cancel(t)
  <2>1. deps' = deps /\ injected' = injected
    BY <1>2 DEF Call, Cancel, StartRefused, BeginStart, BeginStop
  <2>2. ended' = ended \/ ended' = TRUE
    BY <1>2 DEF Call, Cancel, StartRefused, BeginStart, BeginStop, Announcement
  <2> QED BY <2>1, <2>2
<1>3. ASSUME NEW n \in DOMAIN go[t], ModuleStep(t, n) PROVE injected' = injected /\ ended' = ended /\ deps' = deps
  BY <1>3 DEF ModuleStep, InitModule, InitRefused, InitSucceeds, InitFails, RolledBack, RecordStarted,
     DestroyModule, DestroyRefused, DestroyAbandoned, DestroyCommits, Destroyed, Forget
<1> QED BY <1>1, <1>2, <1>3 DEF StepOf

LEMMA LaunchedApart ==
  ASSUME Types, NEW t \in Drivers, NEW point,
         Launch(t, LowestLayer(t), point) \/ Launch(t, HighestLayer(t), point)
  PROVE  DOMAIN go'[t] \cap todo'[t] = {} /\ \A n \in DOMAIN go'[t] : go'[t][n] = "call"
<1>1. PICK layer \in SUBSET todo[t] : Launch(t, layer, point)
  BY LayersFit
<1>2. DOMAIN go'[t] = layer /\ todo' = [todo EXCEPT ![t] = todo[t] \ layer] /\ \A n \in layer : go'[t][n] = "call"
  BY <1>1, LaunchEffect
<1> QED BY <1>2 DEF Types, LocalTypes

LEMMA ReturnFits ==
  ASSUME Types, NEW t \in Drivers, NEW r, Return(t, r)
  PROVE  Fits(t)'
<1>1. /\ pc'[t] = "idle" /\ todo'[t] = {} /\ failed'[t] = {} /\ aborting'[t] = FALSE
      /\ DOMAIN go'[t] = {}
  BY Nobody DEF Types, LocalTypes, Return, Goto, Set
<1> QED BY <1>1 DEF Fits, Up, Down

LEMMA ShapeStep == Types /\ Shape /\ [Next]_vars => Shape'
<1> SUFFICES ASSUME Types, Shape, [Next]_vars PROVE Shape'
  OBVIOUS
<1> USE DEF fields, locals, Set, Goto
<1>1. ASSUME NEW t \in Drivers, NEW u \in Drivers \ {t}, StepOf(t) PROVE Fits(u)'
  <2>1. Fits(u)
    BY DEF Shape
  <2>2. Spares(u)
    BY <1>1, OthersSpared
  <2> QED BY <1>1, <2>1, <2>2, StepsOnlyAdd DEF Fits, Spares, LayerDone
<1>2. ASSUME NEW t \in Drivers, StartRefused(t) PROVE Fits(t)'
  BY <1>2 DEF Types, LocalTypes, Shape, Fits, Up, Down, LayerDone, StartRefused
<1>3. ASSUME NEW t \in Drivers, BeginStart(t) PROVE Fits(t)'
  BY <1>3 DEF Types, LocalTypes, Shape, Fits, Up, Down, LayerDone, BeginStart
<1>4. ASSUME NEW t \in Drivers, BeginStop(t) PROVE Fits(t)'
  BY <1>4 DEF Types, LocalTypes, Shape, Fits, Up, Down, LayerDone, BeginStop, Announcement
<1>5. ASSUME NEW t \in Drivers, PlanStart(t) PROVE Fits(t)'
  BY <1>5 DEF Types, LocalTypes, Shape, Fits, Up, Down, LayerDone, PlanStart
<1>6. ASSUME NEW t \in Drivers, PlanFails(t) PROVE Fits(t)'
  BY <1>6 DEF Types, LocalTypes, Shape, Fits, Up, Down, LayerDone, PlanFails
<1>7. ASSUME NEW t \in Drivers, StartUnplannable(t) PROVE Fits(t)'
  BY <1>7, ReturnFits DEF StartUnplannable
<1>8. ASSUME NEW t \in Drivers, InjectContext(t) PROVE Fits(t)'
  BY <1>8 DEF Types, LocalTypes, Shape, Fits, Up, Down, LayerDone, InjectContext
<1>9. ASSUME NEW t \in Drivers, StartLayer(t) PROVE Fits(t)'
  <2>1. DOMAIN go'[t] \cap todo'[t] = {} /\ \A n \in DOMAIN go'[t] : go'[t][n] = "call"
    BY <1>9, LaunchedApart DEF StartLayer
  <2> QED BY <1>9, <2>1 DEF Types, LocalTypes, Shape, Fits, Up, Down, LayerDone, StartLayer, Launch
<1>10. ASSUME NEW t \in Drivers, LayerStarted(t) PROVE Fits(t)'
  BY <1>10 DEF Types, LocalTypes, Shape, Fits, Up, Down, LayerDone, LayerStarted, NoErrors
<1>11. ASSUME NEW t \in Drivers, StartFinished(t) PROVE Fits(t)'
  BY <1>11, ReturnFits DEF StartFinished
<1>12. ASSUME NEW t \in Drivers, Abort(t) PROVE Fits(t)'
  BY <1>12, Nobody DEF Types, LocalTypes, Shape, Fits, Up, Down, LayerDone, Abort, Announcement
<1>13. ASSUME NEW t \in Drivers, ClaimStop(t) PROVE Fits(t)'
  BY <1>13 DEF Types, LocalTypes, Shape, Fits, Up, Down, LayerDone, ClaimStop
<1>14. ASSUME NEW t \in Drivers, NothingToStop(t) PROVE Fits(t)'
  BY <1>14, ReturnFits DEF NothingToStop
<1>15. ASSUME NEW t \in Drivers, PlanStop(t) PROVE Fits(t)'
  BY <1>15 DEF Types, LocalTypes, Shape, Fits, Up, Down, LayerDone, PlanStop, Targets
<1>16. ASSUME NEW t \in Drivers, StopLayer(t) PROVE Fits(t)'
  <2>1. DOMAIN go'[t] \cap todo'[t] = {} /\ \A n \in DOMAIN go'[t] : go'[t][n] = "call"
    BY <1>16, LaunchedApart DEF StopLayer
  <2> QED BY <1>16, <2>1 DEF Types, LocalTypes, Shape, Fits, Up, Down, LayerDone, StopLayer, Launch
<1>17. ASSUME NEW t \in Drivers, LayerStopped(t) PROVE Fits(t)'
  BY <1>17 DEF Types, LocalTypes, Shape, Fits, Up, Down, LayerDone, LayerStopped
<1>18. ASSUME NEW t \in Drivers, StopAborted(t) PROVE Fits(t)'
  BY <1>18, ReturnFits DEF StopAborted
<1>19. ASSUME NEW t \in Drivers, StopFinished(t) PROVE Fits(t)'
  BY <1>19, ReturnFits DEF StopFinished
<1>20. ASSUME NEW t \in Drivers, Cancel(t) PROVE Fits(t)'
  BY <1>20 DEF Types, LocalTypes, Shape, Fits, Up, Down, LayerDone, Cancel
<1>21. ASSUME NEW t \in Drivers, NEW n \in DOMAIN go[t], InitModule(t, n) PROVE Fits(t)'
  BY <1>21, AdvanceEffect DEF Types, LocalTypes, Shape, Fits, Up, Down, LayerDone, InitModule, Places
<1>22. ASSUME NEW t \in Drivers, NEW n \in DOMAIN go[t], InitRefused(t, n) PROVE Fits(t)'
  BY <1>22, AdvanceEffect DEF Types, LocalTypes, Shape, Fits, Up, Down, LayerDone, InitRefused, Places
<1>23. ASSUME NEW t \in Drivers, NEW n \in DOMAIN go[t], InitSucceeds(t, n) PROVE Fits(t)'
  BY <1>23, AdvanceEffect DEF Types, LocalTypes, Shape, Fits, Up, Down, LayerDone, InitSucceeds, Places
<1>24. ASSUME NEW t \in Drivers, NEW n \in DOMAIN go[t], InitFails(t, n) PROVE Fits(t)'
  BY <1>24, AdvanceEffect DEF Types, LocalTypes, Shape, Fits, Up, Down, LayerDone, InitFails, Places
<1>25. ASSUME NEW t \in Drivers, NEW n \in DOMAIN go[t], RolledBack(t, n) PROVE Fits(t)'
  BY <1>25, AdvanceEffect DEF Types, LocalTypes, Shape, Fits, Up, Down, LayerDone, RolledBack, AfterError, Places
<1>26. ASSUME NEW t \in Drivers, NEW n \in DOMAIN go[t], RecordStarted(t, n) PROVE Fits(t)'
  BY <1>26, AdvanceEffect DEF Types, LocalTypes, Shape, Fits, Up, Down, LayerDone, RecordStarted, Places
<1>27. ASSUME NEW t \in Drivers, NEW n \in DOMAIN go[t], DestroyModule(t, n) PROVE Fits(t)'
  BY <1>27, AdvanceEffect DEF Types, LocalTypes, Shape, Fits, Up, Down, LayerDone, DestroyModule, Places
<1>28. ASSUME NEW t \in Drivers, NEW n \in DOMAIN go[t], DestroyRefused(t, n) PROVE Fits(t)'
  BY <1>28, AdvanceEffect DEF Types, LocalTypes, Shape, Fits, Up, Down, LayerDone, DestroyRefused, Places
<1>29. ASSUME NEW t \in Drivers, NEW n \in DOMAIN go[t], DestroyAbandoned(t, n) PROVE Fits(t)'
  BY <1>29, AdvanceEffect DEF Types, LocalTypes, Shape, Fits, Up, Down, LayerDone, DestroyAbandoned, Places
<1>30. ASSUME NEW t \in Drivers, NEW n \in DOMAIN go[t], DestroyCommits(t, n) PROVE Fits(t)'
  BY <1>30, AdvanceEffect DEF Types, LocalTypes, Shape, Fits, Up, Down, LayerDone, DestroyCommits, Places
<1>31. ASSUME NEW t \in Drivers, NEW n \in DOMAIN go[t], Destroyed(t, n) PROVE Fits(t)'
  BY <1>31, AdvanceEffect DEF Types, LocalTypes, Shape, Fits, Up, Down, LayerDone, Destroyed, Places
<1>32. ASSUME NEW t \in Drivers, NEW n \in DOMAIN go[t], Forget(t, n) PROVE Fits(t)'
  BY <1>32, AdvanceEffect DEF Types, LocalTypes, Shape, Fits, Up, Down, LayerDone, Forget, Places
<1>33. ASSUME NEW n \in Modules, NEW list \in Declared[n], Register(n, list) PROVE Shape'
  BY <1>33 DEF Shape, Fits, LayerDone, Register
<1>34. CASE UNCHANGED vars
  BY <1>34 DEF Shape, Fits, LayerDone, vars
<1>35. ASSUME NEW t \in Drivers, StepOf(t) PROVE Fits(t)'
  BY <1>35,
     <1>2, <1>3, <1>4, <1>5, <1>6, <1>7, <1>8, <1>9, <1>10, <1>11, <1>12, <1>13, <1>14, <1>15, <1>16, <1>17,
     <1>18, <1>19, <1>20, <1>21, <1>22, <1>23, <1>24, <1>25, <1>26, <1>27, <1>28, <1>29, <1>30, <1>31, <1>32
     DEF StepOf, DriverStep, Call, ModuleStep
<1> QED BY <1>1, <1>33, <1>34, <1>35, StepsAreOfOne DEF Shape

-----------------------------------------------------------------------------
(* Ownership                                                               *)

LEMMA HandsOff ==
  ASSUME Types, Shape, NEW t \in Drivers, DriverStep(t) \/ Call(t) \/ Cancel(t)
  PROVE  /\ mod' = mod /\ deps' = deps /\ started' = started /\ kept' = kept
         /\ \A u \in Drivers, n \in Modules, p \in Places \ {"call", "done"} :
              (n \in DOMAIN go'[u] /\ go'[u][n] = p) <=> (n \in DOMAIN go[u] /\ go[u][n] = p)
<1> USE DEF fields, locals
<1>1. mod' = mod /\ deps' = deps /\ started' = started /\ kept' = kept
  BY DEF DriverStep, Call, Cancel, StartRefused, BeginStart, BeginStop, PlanStart, PlanFails, StartUnplannable,
     InjectContext, StartLayer, LayerStarted, StartFinished, Abort, ClaimStop, NothingToStop, PlanStop, StopLayer,
     LayerStopped, StopAborted, StopFinished, Unclaimed
<1>2. ASSUME NEW u \in Drivers \ {t}
      PROVE  go'[u] = go[u]
  BY OthersSpared DEF StepOf, Spares
<1>3. CASE go' = go
  BY <1>1, <1>3
<1>4. CASE go' # go
  <2>1. \A n \in DOMAIN go[t] : go[t][n] = "done"
    <3>1. pc[t] \notin {"starting", "stopping"} \/ LayerDone(t)
      BY <1>4 DEF DriverStep, Call, Cancel, StartRefused, BeginStart, BeginStop, PlanStart, PlanFails, StartUnplannable,
         InjectContext, StartLayer, LayerStarted, StartFinished, Abort, ClaimStop, NothingToStop, PlanStop, StopLayer,
         LayerStopped, StopAborted, StopFinished
    <3>2. LayerDone(t) \/ DOMAIN go[t] = {}
      BY <3>1 DEF Shape, Fits
    <3> QED BY <3>2 DEF LayerDone
  <2>2. \A n \in DOMAIN go'[t] : go'[t][n] = "call"
    <3>1. CASE go' = Set(go, t, NoOne)
      BY <3>1, Nobody DEF Types, LocalTypes, Set
    <3>2. CASE \E layer : go' = Set(go, t, [n \in layer |-> "call"])
      BY <3>2 DEF Types, LocalTypes, Set
    <3> QED
      BY <1>4, <3>1, <3>2 DEF DriverStep, Call, Cancel, StartRefused, BeginStart, BeginStop, PlanStart, PlanFails,
         StartUnplannable, InjectContext, StartLayer, LayerStarted, StartFinished, Abort, ClaimStop, NothingToStop,
         PlanStop, StopLayer, LayerStopped, StopAborted, StopFinished, Launch, Return
  <2> QED BY <1>1, <1>2, <2>1, <2>2
<1> QED BY <1>3, <1>4

LEMMA HandlesKept ==
  ASSUME Types, Shape, NEW t \in Drivers, DriverStep(t) \/ Call(t) \/ Cancel(t), NEW u \in Drivers, NEW n \in Modules
  PROVE  /\ Handles(u, n)' <=> Handles(u, n)
         /\ Handles(u, n) => go'[u][n] = go[u][n]
<1>1. \A p \in Places \ {"call", "done"} :
        (n \in DOMAIN go'[u] /\ go'[u][n] = p) <=> (n \in DOMAIN go[u] /\ go[u][n] = p)
  BY HandsOff
<1> QED BY <1>1 DEF Handles, Handling, Places

\* A goroutine that lets a module go leaves it in a state nobody handles.
LEMMA LetsGo ==
  ASSUME Types, Ownership, NEW t \in Drivers, NEW n, NEW from \in Handling, NEW to \in Places \ Handling,
         Advance(t, n, from, to), deps' = deps,
         NEW s \in States \ {"Initializing", "Destroying"}, mod' = Set(mod, n, s)
  PROVE  Ownership'
<1>1. /\ n \in DOMAIN go[t] /\ go[t][n] = from
      /\ n \in DOMAIN deps /\ n \in Modules
      /\ \A u \in Drivers : DOMAIN go'[u] = DOMAIN go[u]
      /\ \A u \in Drivers : \A m \in DOMAIN go[u] :
           go'[u][m] = IF u = t /\ m = n THEN to ELSE go[u][m]
  BY AdvanceEffect
<1>2. \A m \in Modules : mod'[m] = IF m = n THEN s ELSE mod[m]
  BY <1>1 DEF Types, FieldTypes, Set
<1>3. Handles(t, n)
  BY <1>1 DEF Handles
<1>4. \A u \in Drivers : ~Handles(u, n)'
  <2>1. \A u \in Drivers \ {t} : ~Handles(u, n)
    BY <1>1, <1>3 DEF Ownership
  <2> QED BY <1>1, <2>1 DEF Handles
<1>5. \A u \in Drivers, m \in Modules \ {n} : Handles(u, m)' <=> Handles(u, m)
  BY <1>1 DEF Handles
<1>6. \A u \in Drivers, m \in Modules \ {n} : Handles(u, m) => go'[u][m] = go[u][m]
  BY <1>1 DEF Handles
<1>7. \A u \in Drivers, m \in Modules :
        Handles(u, m)' => mod'[m] = IF go'[u][m] = "init" THEN "Initializing" ELSE "Destroying"
  BY <1>2, <1>4, <1>5, <1>6 DEF Ownership
<1>8. \A u, v \in Drivers, m \in Modules : Handles(u, m)' /\ Handles(v, m)' => u = v
  BY <1>4, <1>5 DEF Ownership
<1>9. \A m \in Modules : mod'[m] \in {"Initializing", "Destroying"} => \E u \in Drivers : Handles(u, m)'
  BY <1>2, <1>5 DEF Ownership
<1>10. \A m \in Modules \ DOMAIN deps' : mod'[m] = "Created"
  BY <1>1, <1>2 DEF Ownership
<1> QED BY <1>7, <1>8, <1>9, <1>10 DEF Ownership

LEMMA OwnershipStep == Types /\ Shape /\ Ownership /\ [Next]_vars => Ownership'
<1> SUFFICES ASSUME Types, Shape, Ownership, [Next]_vars PROVE Ownership'
  OBVIOUS
<1> USE DEF fields, locals, Set
<1>1. ASSUME NEW t \in Drivers, DriverStep(t) \/ Call(t) \/ Cancel(t) PROVE Ownership'
  <2>1. mod' = mod /\ deps' = deps
    BY <1>1, HandsOff
  <2>2. \A u \in Drivers, n \in Modules : Handles(u, n)' <=> Handles(u, n)
    BY <1>1, HandlesKept
  <2>3. \A u \in Drivers, n \in Modules : Handles(u, n) => go'[u][n] = go[u][n]
    BY <1>1, HandlesKept
  <2>4. \A u \in Drivers, n \in Modules :
          Handles(u, n)' => mod'[n] = IF go'[u][n] = "init" THEN "Initializing" ELSE "Destroying"
    BY <2>1, <2>2, <2>3 DEF Ownership
  <2>5. \A u, v \in Drivers, n \in Modules : Handles(u, n)' /\ Handles(v, n)' => u = v
    BY <2>2 DEF Ownership
  <2>6. \A n \in Modules : mod'[n] \in {"Initializing", "Destroying"} => \E u \in Drivers : Handles(u, n)'
    BY <2>1, <2>2 DEF Ownership
  <2>7. \A n \in Modules \ DOMAIN deps' : mod'[n] = "Created"
    BY <2>1 DEF Ownership
  <2> QED BY <2>4, <2>5, <2>6, <2>7 DEF Ownership
<1>2. ASSUME NEW t \in Drivers, NEW n \in DOMAIN go[t], InitModule(t, n) PROVE Ownership'
  BY <1>2, AdvanceEffect DEF Types, FieldTypes, Ownership, Handles, Handling, InitModule, MayInit, Startable, Places
<1>3. ASSUME NEW t \in Drivers, NEW n \in DOMAIN go[t], InitRefused(t, n) PROVE Ownership'
  BY <1>3, AdvanceEffect DEF Types, FieldTypes, Ownership, Handles, Handling, InitRefused, MayInit, Places
<1>4. ASSUME NEW t \in Drivers, NEW n \in DOMAIN go[t], InitSucceeds(t, n) PROVE Ownership'
  BY <1>4, AdvanceEffect DEF Types, FieldTypes, Ownership, Handles, Handling, InitSucceeds, Places
<1>5. ASSUME NEW t \in Drivers, NEW n \in DOMAIN go[t], InitFails(t, n) PROVE Ownership'
  BY <1>5, AdvanceEffect DEF Types, FieldTypes, Ownership, Handles, Handling, InitFails, Places
<1>6. ASSUME NEW t \in Drivers, NEW n \in DOMAIN go[t], RolledBack(t, n) PROVE Ownership'
  <2>1. Advance(t, n, "rollback", "done") /\ deps' = deps /\ mod' = Set(mod, n, "Failed")
    BY <1>6 DEF RolledBack, AfterError
  <2>2. /\ "rollback" \in Handling /\ "done" \in Places \ Handling
        /\ "Failed" \in States \ {"Initializing", "Destroying"}
    BY DEF Handling, Places, States, Startable
  <2> HIDE DEF Set
  <2> QED BY <2>1, <2>2, LetsGo
<1>7. ASSUME NEW t \in Drivers, NEW n \in DOMAIN go[t], RecordStarted(t, n) PROVE Ownership'
  BY <1>7, AdvanceEffect DEF Types, FieldTypes, Ownership, Handles, Handling, RecordStarted, Places
<1>8. ASSUME NEW t \in Drivers, NEW n \in DOMAIN go[t], DestroyModule(t, n) PROVE Ownership'
  BY <1>8, AdvanceEffect DEF Types, FieldTypes, Ownership, Handles, Handling, DestroyModule, Places
<1>9. ASSUME NEW t \in Drivers, NEW n \in DOMAIN go[t], DestroyRefused(t, n) PROVE Ownership'
  BY <1>9, AdvanceEffect DEF Types, FieldTypes, Ownership, Handles, Handling, DestroyRefused, Places
<1>10. ASSUME NEW t \in Drivers, NEW n \in DOMAIN go[t], DestroyAbandoned(t, n) PROVE Ownership'
  BY <1>10, AdvanceEffect DEF Types, FieldTypes, Ownership, Handles, Handling, DestroyAbandoned, Places
<1>11. ASSUME NEW t \in Drivers, NEW n \in DOMAIN go[t], DestroyCommits(t, n) PROVE Ownership'
  BY <1>11, AdvanceEffect DEF Types, FieldTypes, Ownership, Handles, Handling, DestroyCommits, Places
<1>12. ASSUME NEW t \in Drivers, NEW n \in DOMAIN go[t], Destroyed(t, n) PROVE Ownership'
  <2>1. Advance(t, n, "release", "forget") /\ deps' = deps /\ mod' = Set(mod, n, "Destroyed")
    BY <1>12 DEF Destroyed
  <2>2. /\ "release" \in Handling /\ "forget" \in Places \ Handling
        /\ "Destroyed" \in States \ {"Initializing", "Destroying"}
    BY DEF Handling, Places, States, Startable
  <2> HIDE DEF Set
  <2> QED BY <2>1, <2>2, LetsGo
<1>13. ASSUME NEW t \in Drivers, NEW n \in DOMAIN go[t], Forget(t, n) PROVE Ownership'
  BY <1>13, AdvanceEffect DEF Types, FieldTypes, Ownership, Handles, Handling, Forget, Places
<1>14. ASSUME NEW n \in Modules, NEW list \in Declared[n], Register(n, list) PROVE Ownership'
  BY <1>14 DEF Ownership, Handles, Register
<1>15. CASE UNCHANGED vars
  BY <1>15 DEF Ownership, Handles, vars
<1> QED
  BY <1>1, <1>2, <1>3, <1>4, <1>5, <1>6, <1>7, <1>8, <1>9, <1>10, <1>11, <1>12, <1>13, <1>14, <1>15 DEF Next, ModuleStep

-----------------------------------------------------------------------------
(* What holds however many drivers there are, and however their calls overlap *)

LayingOut == Types /\ Shape /\ Ownership

LEMMA InitLaysOut == Init => LayingOut
<1> SUFFICES ASSUME Init PROVE LayingOut
  OBVIOUS
<1>1. Types
  <2>1. FieldTypes
    <3>1. DOMAIN deps \subseteq Modules
      BY ModuleAssumption DEF Init
    <3>2. started \in Seq(DOMAIN deps)
      BY DEF Init
    <3>3. mod \in [Modules -> States]
      BY DEF Init, States, Startable
    <3>4. ended \in BOOLEAN /\ mstate \in {"Created", "Starting", "Running", "Stopped"} /\ injected = {} /\ kept = {}
      BY DEF Init
    <3> QED BY <3>1, <3>2, <3>3, <3>4 DEF FieldTypes
  <2>2. LocalTypes
    BY Nobody DEF Init, LocalTypes, Points
  <2> QED BY <2>1, <2>2 DEF Types
<1>2. Shape
  BY Nobody DEF Init, Shape, Fits, Up, Down
<1>3. Ownership
  BY Nobody DEF Init, Ownership, Handles
<1> QED BY <1>1, <1>2, <1>3 DEF LayingOut

LEMMA LayingOutStep == LayingOut /\ [Next]_vars => LayingOut'
  BY TypesStep, ShapeStep, OwnershipStep DEF LayingOut

LEMMA LayingOutTypes == LayingOut => TypeOK
  BY DEF LayingOut, Types, FieldTypes, LocalTypes, TypeOK, Range

\* The locals of Start and Stop fit the point they are at, and a module whose Init
\* or Destroy is past its state guard is in the hands of one goroutine.
THEOREM Invariance == Spec => []LayingOut
  BY InitLaysOut, LayingOutStep, PTL DEF Spec

\* Every variable has its type.
THEOREM TypeCorrect == Spec => []TypeOK
  BY LayingOutTypes, Invariance, PTL

LEMMA InjectsBeforeInit == LayingOut => InjectedBeforeInit
<1> SUFFICES ASSUME LayingOut, NEW n \in DOMAIN deps, NEW t \in At("init", n) PROVE n \in injected
  BY DEF InjectedBeforeInit
<1>1. t \in Drivers /\ n \in DOMAIN go[t] /\ go[t][n] = "init"
  BY DEF At
<1>2. pc[t] \in Up
  BY <1>1 DEF LayingOut, Shape, Fits, LayerDone, Up
<1>3. n \in DOMAIN rank[t]
  BY <1>1 DEF LayingOut, Types, LocalTypes
<1> QED BY <1>1, <1>2, <1>3 DEF LayingOut, Shape, Fits

LEMMA AnnouncesFirst == LayingOut => AnnouncedFirst
<1> SUFFICES ASSUME LayingOut, NEW n \in DOMAIN deps, NEW t \in At("destroy", n) PROVE ended
  BY DEF AnnouncedFirst
<1>1. t \in Drivers /\ n \in DOMAIN go[t] /\ go[t][n] = "destroy"
  BY DEF At
<1>2. pc[t] \in Down
  BY <1>1 DEF LayingOut, Shape, Fits, LayerDone, Down
<1> QED BY <1>1, <1>2 DEF LayingOut, Shape, Fits

\* injectContext comes before the first layer: a module that initializes has its
\* AppContext, also when it was registered while this Start was planning.
THEOREM InjectedInTime == Spec => []InjectedBeforeInit
  BY InjectsBeforeInit, Invariance, PTL

\* Stop, also the one of a Start that rolls back, fires the broadcast before it
\* tears the first module down.
THEOREM AnnouncedInTime == Spec => []AnnouncedFirst
  BY AnnouncesFirst, Invariance, PTL

\* Owner and Stage name the goroutine that handles n and how far it is.
StageAt(place) == CASE place = "init" -> "start" [] place = "destroy" -> "stop" [] OTHER -> place

OwnerTells(n) ==
  /\ \A t \in Drivers : Handles(t, n) => Owner(n) = t /\ Stage(n) = StageAt(go[t][n])
  /\ (\A t \in Drivers : ~Handles(t, n)) => Owner(n) = NoDriver /\ Stage(n) = "none"

LEMMA OwnerIsHandler == Ownership => \A n \in Modules : OwnerTells(n)
<1> SUFFICES ASSUME Ownership, NEW n \in Modules PROVE OwnerTells(n)
  OBVIOUS
<1> DEFINE Points4 == {"init", "rollback", "destroy", "release"}
<1>1. \A t : Handles(t, n) /\ t \in Drivers <=> \E p \in Points4 : t \in At(p, n)
  BY DEF Handles, Handling, At
<1>2. ASSUME NEW t \in Drivers, Handles(t, n)
      PROVE  Owner(n) = t
  <2>1. \A u \in Drivers : (\E p \in Points4 : u \in At(p, n)) => u = t
    BY <1>1, <1>2 DEF Ownership
  <2>2. \E p \in Points4 : t \in At(p, n)
    BY <1>1, <1>2
  <2>3. \E p \in Points4 : At(p, n) # {}
    BY <2>2
  <2> HIDE DEF Points4
  <2>4. (CHOOSE u \in Drivers : \E p \in Points4 : u \in At(p, n)) = t
    BY <2>1, <2>2
  <2> QED BY <2>3, <2>4 DEF Owner, Points4
<1>3. ASSUME \A t \in Drivers : ~Handles(t, n)
      PROVE  Owner(n) = NoDriver
  <2>1. \A p \in Points4 : At(p, n) = {}
    BY <1>1, <1>3 DEF At
  <2> QED BY <2>1 DEF Owner
<1> QED BY <1>2, <1>3, DriverAssumption DEF OwnerTells, Stage, StageAt

\* Nothing happens to n that its contract speaks about.
Untouched(n) == /\ mod'[n] = mod[n]
                /\ \A u \in Drivers : /\ Handles(u, n)' <=> Handles(u, n)
                                      /\ Handles(u, n) => go'[u][n] = go[u][n]

LEMMA UntouchedStutters ==
  ASSUME NEW n \in Modules, OwnerTells(n), OwnerTells(n)', Untouched(n)
  PROVE  UNCHANGED Module(n)!vars
<1>1. Owner(n)' = Owner(n) /\ Stage(n)' = Stage(n)
  <2>1. ASSUME NEW t \in Drivers, Handles(t, n) PROVE Owner(n)' = Owner(n) /\ Stage(n)' = Stage(n)
    BY <2>1 DEF OwnerTells, Untouched
  <2>2. ASSUME \A t \in Drivers : ~Handles(t, n) PROVE Owner(n)' = Owner(n) /\ Stage(n)' = Stage(n)
    BY <2>2 DEF OwnerTells, Untouched
  <2> QED BY <2>1, <2>2
<1> QED BY <1>1 DEF Untouched, Module!vars

LEMMA OtherModulesUntouched ==
  ASSUME Types, NEW t \in Drivers, NEW m \in DOMAIN go[t], ModuleStep(t, m), NEW n \in Modules \ {m}
  PROVE  Untouched(n)
<1>1. mod'[n] = mod[n]
  BY DEF fields, Set, Types, FieldTypes, ModuleStep, InitModule, InitRefused, InitSucceeds, InitFails, RolledBack,
     RecordStarted, DestroyModule, DestroyRefused, DestroyAbandoned, DestroyCommits, Destroyed, Forget
<1>2. PICK from, to : Advance(t, m, from, to)
  BY DEF ModuleStep, InitModule, InitRefused, InitSucceeds, InitFails, RolledBack,
     RecordStarted, DestroyModule, DestroyRefused, DestroyAbandoned, DestroyCommits, Destroyed, Forget
<1>3. \A u \in Drivers : /\ DOMAIN go'[u] = DOMAIN go[u]
                         /\ n \in DOMAIN go[u] => go'[u][n] = go[u][n]
  BY <1>2 DEF Advance, Types, LocalTypes
<1> QED BY <1>1, <1>3 DEF Untouched, Handles

LEMMA ContractStep ==
  ASSUME LayingOut, NEW t \in Drivers, NEW n \in DOMAIN go[t], ModuleStep(t, n),
         OwnerTells(n), OwnerTells(n)', Ownership'
  PROVE  Module(n)!Next \/ Untouched(n)
<1>1. n \in Modules /\ Types /\ Ownership
  BY DEF LayingOut, Types, FieldTypes, LocalTypes
<1> USE DEF Set
<1>2. CASE InitModule(t, n)
  <2>1. Handles(t, n)' /\ go'[t][n] = "init" /\ mod'[n] = "Initializing" /\ mod[n] \in Startable
    BY <1>1, <1>2, AdvanceEffect DEF InitModule, MayInit, Handles, Handling, Places, Types, FieldTypes
  <2>2. \A u \in Drivers : ~Handles(u, n)
    BY <1>1, <2>1 DEF Ownership, Startable
  <2>3. Module(n)!BeginInit(t)
    BY <2>1, <2>2 DEF OwnerTells, StageAt, Module!BeginInit, Module!Startable, Startable
  <2> QED BY <2>3 DEF Module!Next
<1>3. CASE InitSucceeds(t, n)
  <2>1. Handles(t, n) /\ go[t][n] = "init" /\ go'[t][n] = "append" /\ mod'[n] = "Running"
    BY <1>1, <1>3, AdvanceEffect DEF InitSucceeds, Handles, Handling, Places, Types, FieldTypes
  <2>2. \A u \in Drivers : ~Handles(u, n)'
    BY <1>1, <2>1 DEF Ownership
  <2>3. Module(n)!FinishInit(t)
    BY <2>1, <2>2 DEF OwnerTells, StageAt, Module!FinishInit, Module!Move
  <2> QED BY <2>3 DEF Module!Next
<1>4. CASE InitFails(t, n)
  <2>1. Handles(t, n) /\ go[t][n] = "init" /\ Handles(t, n)' /\ go'[t][n] = "rollback" /\ mod'[n] = "Destroying"
    BY <1>1, <1>4, AdvanceEffect DEF InitFails, Handles, Handling, Places, Types, FieldTypes
  <2>2. Module(n)!BeginRollback(t)
    BY <2>1 DEF OwnerTells, StageAt, Module!BeginRollback, Module!Move
  <2> QED BY <2>2 DEF Module!Next
<1>5. CASE RolledBack(t, n)
  <2>1. Handles(t, n) /\ go[t][n] = "rollback" /\ mod'[n] = "Failed"
    BY <1>1, <1>5, AdvanceEffect DEF RolledBack, AfterError, Handles, Handling, Places, Types, FieldTypes
  <2>2. \A u \in Drivers : ~Handles(u, n)'
    BY <1>1, <2>1 DEF Ownership
  <2>3. Module(n)!FinishRollback(t)
    BY <2>1, <2>2 DEF OwnerTells, StageAt, Module!FinishRollback, Module!Move
  <2> QED BY <2>3 DEF Module!Next
<1>6. CASE DestroyModule(t, n)
  <2>1. Handles(t, n)' /\ go'[t][n] = "destroy" /\ mod'[n] = "Destroying" /\ mod[n] = "Running"
    BY <1>1, <1>6, AdvanceEffect DEF DestroyModule, Handles, Handling, Places, Types, FieldTypes
  <2>2. \A u \in Drivers : ~Handles(u, n)
    BY <1>1, <2>1 DEF Ownership
  <2>3. Module(n)!BeginDestroy(t)
    BY <2>1, <2>2 DEF OwnerTells, StageAt, Module!BeginDestroy
  <2> QED BY <2>3 DEF Module!Next
<1>7. CASE DestroyAbandoned(t, n)
  <2>1. Handles(t, n) /\ go[t][n] = "destroy" /\ mod'[n] = "Running"
    BY <1>1, <1>7, AdvanceEffect DEF DestroyAbandoned, Handles, Handling, Places, Types, FieldTypes
  <2>2. \A u \in Drivers : ~Handles(u, n)'
    BY <1>1, <2>1 DEF Ownership
  <2>3. Module(n)!AbandonDestroy(t)
    BY <2>1, <2>2 DEF OwnerTells, StageAt, Module!AbandonDestroy, Module!Move
  <2> QED BY <2>3 DEF Module!Next
<1>8. CASE DestroyCommits(t, n)
  <2>1. /\ Handles(t, n) /\ go[t][n] = "destroy" /\ mod'[n] = mod[n]
        /\ Handles(t, n)' /\ go'[t][n] = "release"
    BY <1>1, <1>8, AdvanceEffect DEF DestroyCommits, Handles, Handling, Places
  <2>2. mod'[n] = "Destroying"
    BY <1>1, <2>1 DEF Ownership
  <2>3. Module(n)!CommitDestroy(t)
    BY <2>1, <2>2 DEF OwnerTells, StageAt, Module!CommitDestroy, Module!Move
  <2> QED BY <2>3 DEF Module!Next
<1>9. CASE Destroyed(t, n)
  <2>1. Handles(t, n) /\ go[t][n] = "release" /\ mod'[n] = "Destroyed"
    BY <1>1, <1>9, AdvanceEffect DEF Destroyed, Handles, Handling, Places, Types, FieldTypes
  <2>2. \A u \in Drivers : ~Handles(u, n)'
    BY <1>1, <2>1 DEF Ownership
  <2>3. Module(n)!FinishDestroy(t)
    BY <2>1, <2>2 DEF OwnerTells, StageAt, Module!FinishDestroy, Module!Move
  <2> QED BY <2>3 DEF Module!Next
<1>10. CASE InitRefused(t, n) \/ RecordStarted(t, n) \/ DestroyRefused(t, n) \/ Forget(t, n)
  BY <1>1, <1>10, AdvanceEffect DEF InitRefused, RecordStarted, DestroyRefused, Forget, Handles, Handling, Places, Untouched
<1> QED BY <1>2, <1>3, <1>4, <1>5, <1>6, <1>7, <1>8, <1>9, <1>10 DEF ModuleStep

LEMMA InitKeepsContracts == Init => \A n \in Modules : Module(n)!Init
<1> SUFFICES ASSUME Init, NEW n \in Modules PROVE Module(n)!Init
  OBVIOUS
<1>1. Owner(n) = NoDriver /\ Stage(n) = "none"
  BY Nobody DEF Init, Owner, Stage, At
<1> QED BY <1>1 DEF Init, Module!Init

\* In the state that a step leads to, Owner and Stage tell as well.
LEMMA OwnerIsHandlerNext == Ownership' => (\A n \in Modules : OwnerTells(n))'
  BY OwnerIsHandler, PTL

LEMMA StepKeepsContracts ==
  ASSUME LayingOut, LayingOut', [Next]_vars, NEW n \in Modules
  PROVE  Module(n)!Next \/ UNCHANGED Module(n)!vars
<1>1. OwnerTells(n) /\ OwnerTells(n)'
  BY OwnerIsHandler, OwnerIsHandlerNext DEF LayingOut
<1>2. Types /\ Shape
  BY DEF LayingOut
<1>3. ASSUME NEW t \in Drivers, DriverStep(t) \/ Call(t) \/ Cancel(t) PROVE Untouched(n)
  BY <1>2, <1>3, HandsOff, HandlesKept DEF Untouched
<1>4. ASSUME NEW t \in Drivers, NEW m \in DOMAIN go[t], ModuleStep(t, m)
      PROVE  Module(n)!Next \/ Untouched(n)
  BY <1>1, <1>2, <1>4, ContractStep, OtherModulesUntouched DEF LayingOut
<1>5. ASSUME NEW m \in Modules, NEW list \in Declared[m], Register(m, list) PROVE Untouched(n)
  BY <1>5 DEF Register, locals, Untouched, Handles
<1>6. ASSUME UNCHANGED vars PROVE Untouched(n)
  BY <1>6 DEF vars, locals, Untouched, Handles
<1>7. Module(n)!Next \/ Untouched(n)
  BY <1>3, <1>4, <1>5, <1>6 DEF Next
<1>8. Untouched(n) => UNCHANGED Module(n)!vars
  BY <1>1, UntouchedStutters
<1> QED BY <1>7, <1>8

\* Every module is driven as the contract of Lifecycle allows, whoever calls what.
THEOREM ContractsKept == Spec => KeepsContracts
<1>1. LayingOut /\ LayingOut' /\ [Next]_vars => \A n \in Modules : Module(n)!Next \/ UNCHANGED Module(n)!vars
  BY StepKeepsContracts
<1> QED BY <1>1, InitKeepsContracts, Invariance, PTL DEF Spec, KeepsContracts
=============================================================================
