--------------------------- MODULE BaseModule_proofs ---------------------------
(* Proofs about BaseModule.                                                *)
EXTENDS BaseModule, TLAPS, SequenceTheorems, FiniteSetTheorems

LEMMA KeptHooksType ==
  ASSUME TypeOK, NEW p \in Phases, NEW n \in Names, RemoveHook(p, n)
  PROVE  hooks' \in [Phases -> Seq(Hooks)]
<1> DEFINE kept == {i \in DOMAIN hooks[p] : NameOf[hooks[p][i]] # n}
<1>1. hooks[p] \in Seq(Hooks) /\ hooks \in [Phases -> Seq(Hooks)]
  BY DEF TypeOK
<1>2. Cardinality(kept) \in Nat
  <2>1. DOMAIN hooks[p] = 1..Len(hooks[p]) /\ Len(hooks[p]) \in Nat
    BY <1>1
  <2>2. IsFiniteSet(1..Len(hooks[p]))
    BY <2>1, FS_Interval
  <2>3. IsFiniteSet(kept)
    BY <2>1, <2>2, FS_Subset
  <2> QED BY <2>3, FS_CardinalityType
<1>3. PICK at \in [1..Cardinality(kept) -> kept] :
        hooks' = [hooks EXCEPT ![p] = [i \in DOMAIN at |-> @[at[i]]]]
  BY DEF RemoveHook
<1> DEFINE left == [i \in 1..Cardinality(kept) |-> hooks[p][at[i]]]
<1>4. hooks' = [hooks EXCEPT ![p] = left]
  BY <1>3
<1>5. \A i \in kept : hooks[p][i] \in Hooks
  BY <1>1
<1>6. left \in Seq(Hooks)
  <2> HIDE DEF kept
  <2>1. left \in [1..Cardinality(kept) -> Hooks]
    BY <1>3, <1>5
  <2> QED BY <2>1, <1>2, IsASeq
<1> QED BY <1>1, <1>4, <1>6

LEMMA FrontType ==
  ASSUME NEW S, NEW s \in Seq(S), s # <<>>
  PROVE  Front(s) \in Seq(S) /\ Last(s) \in S
  BY DEF Front, Last

LEMMA RangeType ==
  ASSUME NEW S, NEW s \in Seq(S)
  PROVE  Range(s) \subseteq S
  BY DEF Range

LEMMA RegisterType ==
  ASSUME TypeOK, Register
  PROVE  /\ cleanups' \in Seq(CleanupIds)
         /\ registered' \in 0..MaxCleanups
         /\ registered' \in CleanupIds
<1>1. registered' \in 0..MaxCleanups /\ registered' \in CleanupIds
  BY HookAssumption DEF TypeOK, Register, CleanupIds
<1>2. cleanups' \in Seq(CleanupIds)
  BY <1>1, AppendProperties DEF TypeOK, Register
<1> QED BY <1>1, <1>2

LEMMA AddCauseType ==
  ASSUME TypeOK, NEW c \in Callers, NEW e \in Causes, AddCause(c, e)
  PROVE  err' \in [Callers -> SUBSET Causes]
  BY DEF TypeOK, AddCause

LEMMA AddCauseEffect ==
  ASSUME TypeOK, NEW c \in Callers, NEW e, AddCause(c, e)
  PROVE  err'[c] # {} /\ \A d \in Callers \ {c} : err'[d] = err[d]
  BY DEF TypeOK, AddCause

LEMMA RunCleanupType ==
  ASSUME TypeOK, NEW c \in Callers, RunCleanup(c)
  PROVE  /\ taken' \in [Callers -> Seq(CleanupIds)]
         /\ runs' \in [CleanupIds -> Nat]
         /\ err' \in [Callers -> SUBSET Causes]
<1>1. taken[c] \in Seq(CleanupIds) /\ taken[c] # <<>>
  BY DEF TypeOK, RunCleanup
<1>2. Front(taken[c]) \in Seq(CleanupIds) /\ Last(taken[c]) \in CleanupIds
  BY <1>1, FrontType
<1>3. taken' \in [Callers -> Seq(CleanupIds)]
  BY <1>2 DEF TypeOK, RunCleanup
<1>4. runs' \in [CleanupIds -> Nat]
  BY <1>2 DEF TypeOK, RunCleanup
<1>5. err' \in [Callers -> SUBSET Causes]
  <2>1. CASE UNCHANGED err
    BY <2>1 DEF TypeOK
  <2>2. CASE AddCause(c, "cleanup")
    BY <2>2, AddCauseType DEF Causes
  <2> QED BY <2>1, <2>2 DEF RunCleanup
<1> QED BY <1>3, <1>4, <1>5

LEMMA AbortPhaseType ==
  ASSUME TypeOK, NEW c \in Callers, NEW e \in Causes, AddCause(c, e), AbortPhase(c)
  PROVE  /\ pc' \in [Callers -> Points]
         /\ phase' \in [Callers -> Phases \cup {"none"}]
         /\ snap' \in [Callers -> Seq(Hooks)]
         /\ done' \in [Callers -> SUBSET Nat]
         /\ \A d \in Callers : done'[d] \subseteq DOMAIN snap'[d]
         /\ canceled' \in [Callers -> BOOLEAN]
         /\ err' \in [Callers -> SUBSET Causes]
<1>1. err' \in [Callers -> SUBSET Causes]
  BY AddCauseType
<1>2. CASE UNCHANGED <<phase, snap, done, canceled>>
  BY <1>1, <1>2 DEF TypeOK, AbortPhase, Goto, Leave, Points
<1>3. CASE Leave(c)
  BY <1>1, <1>3 DEF TypeOK, Leave, Points
<1> QED BY <1>2, <1>3 DEF AbortPhase

LEMMA TypeStep == TypeOK /\ [Next]_vars => TypeOK'
<1> SUFFICES ASSUME TypeOK, [Next]_vars PROVE TypeOK'
  OBVIOUS
<1> USE DEF States, Points, Causes, StartPhases, DestroyPhases, Phases, CleanupIds, locals, history, Pending
<1>1. ASSUME NEW c \in Callers, SkipNilHook(c) PROVE TypeOK'
  BY <1>1 DEF TypeOK, SkipNilHook
<1>2. ASSUME NEW c \in Callers, StartHook(c) PROVE TypeOK'
  BY <1>2 DEF TypeOK, StartHook, Goto
<1>3. ASSUME NEW c \in Callers, HookSucceeds(c) PROVE TypeOK'
  <2>1. PICK i \in DOMAIN snap[c] : done' = [done EXCEPT ![c] = @ \cup {i}]
    BY <1>3 DEF HookSucceeds
  <2>2. DOMAIN snap[c] \subseteq Nat
    BY DEF TypeOK
  <2>3. done' \in [Callers -> SUBSET Nat] /\ \A d \in Callers : done'[d] \subseteq DOMAIN snap[d]
    BY <2>1, <2>2 DEF TypeOK
  <2>4. pc' \in [Callers -> Points]
    BY <1>3 DEF TypeOK, HookSucceeds, Goto
  <2> QED BY <1>3, <2>3, <2>4 DEF TypeOK, HookSucceeds
<1>4. ASSUME NEW c \in Callers, HookFails(c) PROVE TypeOK'
  BY <1>4, AbortPhaseType DEF TypeOK, HookFails
<1>5. ASSUME NEW c \in Callers, PhaseCanceled(c) PROVE TypeOK'
  BY <1>5, AbortPhaseType DEF TypeOK, PhaseCanceled
<1>6. ASSUME NEW c \in Callers, SnapshotAfterStart(c) PROVE TypeOK'
  BY <1>6 DEF TypeOK, SnapshotAfterStart, EnterPhase
<1>7. ASSUME NEW c \in Callers, PublishRunning(c) PROVE TypeOK'
  BY <1>7 DEF TypeOK, PublishRunning, Leave
<1>8. ASSUME NEW c \in Callers, FailInit(c) PROVE TypeOK'
  BY <1>8 DEF TypeOK, FailInit, Goto
<1>9. ASSUME NEW c \in Callers, MarkFailed(c) PROVE TypeOK'
  BY <1>9 DEF TypeOK, MarkFailed, Leave
<1>10. ASSUME NEW c \in Callers, TakeCleanups(c) PROVE TypeOK'
  BY <1>10 DEF TypeOK, TakeCleanups, Goto
<1>11. ASSUME NEW c \in Callers, RunCleanup(c) PROVE TypeOK'
  <2>1. taken' \in [Callers -> Seq(CleanupIds)] /\ runs' \in [CleanupIds -> Nat]
          /\ err' \in [Callers -> SUBSET Causes]
    BY <1>11, RunCleanupType DEF RunCleanup
  <2> QED BY <1>11, <2>1 DEF TypeOK, RunCleanup
<1>12. ASSUME NEW c \in Callers, RevertToRunning(c) PROVE TypeOK'
  BY <1>12 DEF TypeOK, RevertToRunning, Leave
<1>13. ASSUME NEW c \in Callers, MarkDestroyed(c) PROVE TypeOK'
  BY <1>13 DEF TypeOK, MarkDestroyed, EnterPhase
<1>14. ASSUME NEW c \in Callers, DestroyReturns(c) PROVE TypeOK'
  BY <1>14 DEF TypeOK, DestroyReturns, Leave
<1>15. ASSUME NEW c \in Callers, InitEnter(c) PROVE TypeOK'
  BY <1>15 DEF TypeOK, InitEnter, EnterPhase
<1>16. ASSUME NEW c \in Callers, InitRefused(c) PROVE TypeOK'
  BY <1>16 DEF TypeOK, InitRefused
<1>17. ASSUME NEW c \in Callers, DestroyEnter(c) PROVE TypeOK'
  <2>1. Range(cleanups) \in SUBSET CleanupIds
    BY RangeType DEF TypeOK
  <2> QED BY <1>17, <2>1 DEF TypeOK, DestroyEnter, EnterPhase
<1>18. ASSUME NEW c \in Callers, DestroyRefused(c) PROVE TypeOK'
  BY <1>18 DEF TypeOK, DestroyRefused
<1>19. ASSUME NEW c \in Callers, AddCleanupInStartHook(c) PROVE TypeOK'
  <2>1. cleanups' \in Seq(CleanupIds) /\ registered' \in 0..MaxCleanups /\ registered' \in CleanupIds
    BY <1>19, RegisterType DEF AddCleanupInStartHook
  <2> QED BY <1>19, <2>1 DEF TypeOK, AddCleanupInStartHook
<1>20. ASSUME NEW c \in Callers, CancelContext(c) PROVE TypeOK'
  BY <1>20 DEF TypeOK, CancelContext
<1>21. ASSUME NEW p \in Phases, NEW h \in Hooks, AddHook(p, h) PROVE TypeOK'
  <2>1. hooks' \in [Phases -> Seq(Hooks)]
    BY <1>21, AppendProperties DEF TypeOK, AddHook
  <2> QED BY <1>21, <2>1 DEF TypeOK, AddHook
<1>22. ASSUME NEW p \in Phases, NEW n \in Names, RemoveHook(p, n) PROVE TypeOK'
  <2>1. hooks' \in [Phases -> Seq(Hooks)]
    BY <1>22, KeptHooksType DEF RemoveHook
  <2> QED BY <1>22, <2>1 DEF TypeOK, RemoveHook
<1>23. CASE AddCleanup
  <2>1. cleanups' \in Seq(CleanupIds) /\ registered' \in 0..MaxCleanups
    BY <1>23, RegisterType DEF AddCleanup
  <2> QED BY <1>23, <2>1 DEF TypeOK, AddCleanup
<1>24. CASE UNCHANGED vars
  BY <1>24 DEF TypeOK, vars
<1> QED
  BY <1>1, <1>2, <1>3, <1>4, <1>5, <1>6, <1>7, <1>8, <1>9, <1>10, <1>11, <1>12, <1>13, <1>14, <1>15, <1>16, <1>17, <1>18, <1>19, <1>20, <1>21, <1>22, <1>23, <1>24 DEF Next, Step, Call, Environment

\* Every variable keeps its type: TypeOK is an invariant of every instance.
THEOREM TypeCorrect == Spec => []TypeOK
<1>1. Init => TypeOK
  BY HookAssumption DEF Init, TypeOK, States, Points, Phases, StartPhases, DestroyPhases, CleanupIds
<1>2. TypeOK /\ [Next]_vars => TypeOK'
  BY TypeStep
<1> QED BY <1>1, <1>2, PTL DEF Spec

-----------------------------------------------------------------------------
(* The inductive invariant                                                 *)

\* Which program points go with which phase.
Coherent == \A c \in Callers :
  /\ phase[c] = "none" <=> pc[c] = "idle"
  /\ pc[c] \in {"failInit", "take"} => phase[c] \in StartPhases
  /\ pc[c] = "revert" => phase[c] = "BeforeDestroy"
  /\ pc[c] = "unwind" => phase[c] # "AfterDestroy"
  /\ taken[c] # <<>> => pc[c] = "unwind"

\* The state the module must be in while c holds it.
StateHeldBy(c) == IF phase[c] \in StartPhases /\ pc[c] \in {"check", "hook", "failInit"}
                  THEN "Initializing" ELSE "Destroying"

\* Whoever is between the guard and the final assignment of Init or Destroy
\* keeps everybody else out, because state says so; and state says so only then.
Ownership ==
  /\ \A c \in Callers : Holds(c) => state = StateHeldBy(c)
  /\ \A c, d \in Callers : Holds(c) /\ Holds(d) => c = d
  /\ state \in {"Initializing", "Destroying"} => \E c \in Callers : Holds(c)

\* An error is recorded exactly when Init is past the point of failure, and a
\* Destroy that gives up has one.
Errors == \A c \in Callers :
  /\ phase[c] \in StartPhases /\ pc[c] \in {"check", "hook"} => err[c] = {}
  /\ phase[c] \in StartPhases /\ pc[c] \notin {"check", "hook"} => err[c] # {}
  /\ pc[c] = "revert" => err[c] # {}

Ascending(s) == \A i, j \in DOMAIN s : i < j => s[i] < s[j]

\* Cleanups wait, and are taken, in the order of their registration; each one
\* is in one place.
CleanupOrder ==
  /\ Ascending(cleanups)
  /\ \A c \in Callers : Ascending(taken[c])
  /\ \A i \in Range(cleanups) : i <= registered
  /\ \A c \in Callers : \A i \in Range(taken[c]) : i <= registered
  /\ \A i \in CleanupIds : i > registered => runs[i] = 0

\* A start hook's cleanup that has not run waits in a module that is not down
\* and not being unwound, or is in the hands of the one that unwinds it.
OwedPlaced ==
  /\ \A i \in owed : i <= registered
  /\ \A i \in owed :
       \/ runs[i] = 1
       \/ /\ i \in Range(cleanups)
          /\ state \notin Startable
          /\ \A c \in Callers : pc[c] # "unwind"
       \/ \E c \in Callers : i \in Range(taken[c])

IInv == /\ TypeOK /\ Coherent /\ Ownership /\ Errors
        /\ CleanupOrder /\ CleanupConservation /\ OwedPlaced

\* What HookFails and PhaseCanceled have in common.
Aborts(c) == /\ pc[c] \in {"check", "hook"}
             /\ \E e \in Causes : AddCause(c, e)
             /\ AbortPhase(c)
             /\ UNCHANGED <<state, hooks, cleanups, taken, history>>

LEMMA AbortsWhen ==
  ASSUME NEW c \in Callers, HookFails(c) \/ PhaseCanceled(c)
  PROVE  Aborts(c)
  BY DEF HookFails, PhaseCanceled, Aborts, Causes


LEMMA CoherentStep == TypeOK /\ Coherent /\ [Next]_vars => Coherent'
<1> SUFFICES ASSUME TypeOK, Coherent, [Next]_vars PROVE Coherent'
  OBVIOUS
<1>0. /\ pc \in [Callers -> Points] /\ phase \in [Callers -> Phases \cup {"none"}]
      /\ taken \in [Callers -> Seq(CleanupIds)]
  BY DEF TypeOK
<1> USE <1>0 DEF Coherent, Points, StartPhases, DestroyPhases, Phases, locals, history
<1>1. ASSUME NEW c \in Callers, Aborts(c) PROVE Coherent'
  <2> USE DEF Aborts, AddCause
  <2>1. CASE phase[c] \in StartPhases /\ Goto(c, "failInit") /\ UNCHANGED <<phase, snap, done, canceled>>
    BY <1>1, <2>1 DEF Goto
  <2>2. CASE phase[c] = "BeforeDestroy" /\ Goto(c, "revert") /\ UNCHANGED <<phase, snap, done, canceled>>
    BY <1>1, <2>2 DEF Goto
  <2>3. CASE phase[c] = "AfterDestroy" /\ Leave(c)
    BY <1>1, <2>3 DEF Leave
  <2> QED BY <1>1, <2>1, <2>2, <2>3 DEF AbortPhase
<1>2. ASSUME NEW c \in Callers, SkipNilHook(c) PROVE Coherent'
  BY <1>2 DEF SkipNilHook
<1>3. ASSUME NEW c \in Callers, StartHook(c) PROVE Coherent'
  BY <1>3 DEF StartHook, Goto
<1>4. ASSUME NEW c \in Callers, HookSucceeds(c) PROVE Coherent'
  BY <1>4 DEF HookSucceeds, Goto
<1>5. ASSUME NEW c \in Callers, SnapshotAfterStart(c) PROVE Coherent'
  BY <1>5 DEF SnapshotAfterStart, EnterPhase, PhaseComplete
<1>6. ASSUME NEW c \in Callers, PublishRunning(c) PROVE Coherent'
  BY <1>6 DEF PublishRunning, Leave, PhaseComplete
<1>7. ASSUME NEW c \in Callers, FailInit(c) PROVE Coherent'
  BY <1>7 DEF FailInit, Goto
<1>8. ASSUME NEW c \in Callers, MarkFailed(c) PROVE Coherent'
  BY <1>8 DEF MarkFailed, Leave
<1>9. ASSUME NEW c \in Callers, TakeCleanups(c) PROVE Coherent'
  BY <1>9 DEF TakeCleanups, Goto, PhaseComplete
<1>10. ASSUME NEW c \in Callers, RunCleanup(c) PROVE Coherent'
  BY <1>10 DEF RunCleanup, AddCause
<1>11. ASSUME NEW c \in Callers, RevertToRunning(c) PROVE Coherent'
  BY <1>11 DEF RevertToRunning, Leave
<1>12. ASSUME NEW c \in Callers, MarkDestroyed(c) PROVE Coherent'
  BY <1>12 DEF MarkDestroyed, EnterPhase
<1>13. ASSUME NEW c \in Callers, DestroyReturns(c) PROVE Coherent'
  BY <1>13 DEF DestroyReturns, Leave, PhaseComplete
<1>14. ASSUME NEW c \in Callers, InitEnter(c) PROVE Coherent'
  BY <1>14 DEF InitEnter, EnterPhase
<1>15. ASSUME NEW c \in Callers, InitRefused(c) PROVE Coherent'
  BY <1>15 DEF InitRefused
<1>16. ASSUME NEW c \in Callers, DestroyEnter(c) PROVE Coherent'
  BY <1>16 DEF DestroyEnter, EnterPhase
<1>17. ASSUME NEW c \in Callers, DestroyRefused(c) PROVE Coherent'
  BY <1>17 DEF DestroyRefused
<1>18. ASSUME NEW c \in Callers, AddCleanupInStartHook(c) PROVE Coherent'
  BY <1>18 DEF AddCleanupInStartHook, Register
<1>19. ASSUME NEW c \in Callers, CancelContext(c) PROVE Coherent'
  BY <1>19 DEF CancelContext
<1>20. ASSUME NEW p \in Phases, NEW h \in Hooks, AddHook(p, h) PROVE Coherent'
  BY <1>20 DEF AddHook
<1>21. ASSUME NEW p \in Phases, NEW n \in Names, RemoveHook(p, n) PROVE Coherent'
  BY <1>21 DEF RemoveHook
<1>22. CASE AddCleanup
  BY <1>22 DEF AddCleanup, Register
<1>23. CASE UNCHANGED vars
  BY <1>23 DEF vars
<1> QED
  BY <1>1, <1>2, <1>3, <1>4, <1>5, <1>6, <1>7, <1>8, <1>9, <1>10, <1>11, <1>12,
     <1>13, <1>14, <1>15, <1>16, <1>17, <1>18, <1>19, <1>20, <1>21, <1>22, <1>23,
     AbortsWhen
  DEF Next, Step, Call, Environment

LEMMA OwnershipStep == TypeOK /\ Coherent /\ Ownership /\ [Next]_vars => Ownership'
<1> SUFFICES ASSUME TypeOK, Coherent, Ownership, [Next]_vars PROVE Ownership'
  OBVIOUS
<1>0. state \in States /\ pc \in [Callers -> Points] /\ phase \in [Callers -> Phases \cup {"none"}]
  BY DEF TypeOK
<1> USE <1>0 DEF Coherent, Ownership, Holds, StateHeldBy, Startable, States, Points, StartPhases, DestroyPhases, Phases, locals, history
<1>1. ASSUME NEW c \in Callers, Aborts(c) PROVE Ownership'
  <2> USE DEF Aborts, AddCause
  <2>1. CASE phase[c] \in StartPhases /\ Goto(c, "failInit") /\ UNCHANGED <<phase, snap, done, canceled>>
    BY <1>1, <2>1 DEF Goto
  <2>2. CASE phase[c] = "BeforeDestroy" /\ Goto(c, "revert") /\ UNCHANGED <<phase, snap, done, canceled>>
    BY <1>1, <2>2 DEF Goto
  <2>3. CASE phase[c] = "AfterDestroy" /\ Leave(c)
    BY <1>1, <2>3 DEF Leave
  <2> QED BY <1>1, <2>1, <2>2, <2>3 DEF AbortPhase
<1>2. ASSUME NEW c \in Callers, SkipNilHook(c) PROVE Ownership'
  BY <1>2 DEF SkipNilHook
<1>3. ASSUME NEW c \in Callers, StartHook(c) PROVE Ownership'
  BY <1>3 DEF StartHook, Goto
<1>4. ASSUME NEW c \in Callers, HookSucceeds(c) PROVE Ownership'
  BY <1>4 DEF HookSucceeds, Goto
<1>5. ASSUME NEW c \in Callers, SnapshotAfterStart(c) PROVE Ownership'
  BY <1>5 DEF SnapshotAfterStart, EnterPhase, PhaseComplete
<1>6. ASSUME NEW c \in Callers, PublishRunning(c) PROVE Ownership'
  BY <1>6 DEF PublishRunning, Leave, PhaseComplete
<1>7. ASSUME NEW c \in Callers, FailInit(c) PROVE Ownership'
  BY <1>7 DEF FailInit, Goto
<1>8. ASSUME NEW c \in Callers, MarkFailed(c) PROVE Ownership'
  BY <1>8 DEF MarkFailed, Leave
<1>9. ASSUME NEW c \in Callers, TakeCleanups(c) PROVE Ownership'
  BY <1>9 DEF TakeCleanups, Goto, PhaseComplete
<1>10. ASSUME NEW c \in Callers, RunCleanup(c) PROVE Ownership'
  BY <1>10 DEF RunCleanup, AddCause
<1>11. ASSUME NEW c \in Callers, RevertToRunning(c) PROVE Ownership'
  BY <1>11 DEF RevertToRunning, Leave
<1>12. ASSUME NEW c \in Callers, MarkDestroyed(c) PROVE Ownership'
  BY <1>12 DEF MarkDestroyed, EnterPhase
<1>13. ASSUME NEW c \in Callers, DestroyReturns(c) PROVE Ownership'
  BY <1>13 DEF DestroyReturns, Leave, PhaseComplete
<1>14. ASSUME NEW c \in Callers, InitEnter(c) PROVE Ownership'
  BY <1>14 DEF InitEnter, EnterPhase
<1>15. ASSUME NEW c \in Callers, InitRefused(c) PROVE Ownership'
  BY <1>15 DEF InitRefused
<1>16. ASSUME NEW c \in Callers, DestroyEnter(c) PROVE Ownership'
  BY <1>16 DEF DestroyEnter, EnterPhase
<1>17. ASSUME NEW c \in Callers, DestroyRefused(c) PROVE Ownership'
  BY <1>17 DEF DestroyRefused
<1>18. ASSUME NEW c \in Callers, AddCleanupInStartHook(c) PROVE Ownership'
  BY <1>18 DEF AddCleanupInStartHook, Register
<1>19. ASSUME NEW c \in Callers, CancelContext(c) PROVE Ownership'
  BY <1>19 DEF CancelContext
<1>20. ASSUME NEW p \in Phases, NEW h \in Hooks, AddHook(p, h) PROVE Ownership'
  BY <1>20 DEF AddHook
<1>21. ASSUME NEW p \in Phases, NEW n \in Names, RemoveHook(p, n) PROVE Ownership'
  BY <1>21 DEF RemoveHook
<1>22. CASE AddCleanup
  BY <1>22 DEF AddCleanup, Register
<1>23. CASE UNCHANGED vars
  BY <1>23 DEF vars
<1> QED
  BY <1>1, <1>2, <1>3, <1>4, <1>5, <1>6, <1>7, <1>8, <1>9, <1>10, <1>11, <1>12,
     <1>13, <1>14, <1>15, <1>16, <1>17, <1>18, <1>19, <1>20, <1>21, <1>22, <1>23,
     AbortsWhen
  DEF Next, Step, Call, Environment

LEMMA ErrorsStep == TypeOK /\ Coherent /\ Errors /\ [Next]_vars => Errors'
<1> SUFFICES ASSUME TypeOK, Coherent, Errors, [Next]_vars PROVE Errors'
  OBVIOUS
<1> USE DEF Coherent, Errors, Points, StartPhases, DestroyPhases, Phases, locals, history
<1>1. ASSUME NEW c \in Callers, Aborts(c) PROVE Errors'
  <2>0. err'[c] # {} /\ \A d \in Callers \ {c} : err'[d] = err[d]
    BY <1>1, AddCauseEffect DEF Aborts
  <2> USE DEF TypeOK, Aborts
  <2>1. CASE phase[c] \in StartPhases /\ Goto(c, "failInit") /\ UNCHANGED <<phase, snap, done, canceled>>
    BY <1>1, <2>0, <2>1 DEF Goto
  <2>2. CASE phase[c] = "BeforeDestroy" /\ Goto(c, "revert") /\ UNCHANGED <<phase, snap, done, canceled>>
    BY <1>1, <2>0, <2>2 DEF Goto
  <2>3. CASE phase[c] = "AfterDestroy" /\ Leave(c)
    BY <1>1, <2>0, <2>3 DEF Leave
  <2> QED BY <1>1, <2>0, <2>1, <2>2, <2>3 DEF AbortPhase
<1>2. ASSUME NEW c \in Callers, SkipNilHook(c) PROVE Errors'
  BY <1>2 DEF TypeOK, SkipNilHook
<1>3. ASSUME NEW c \in Callers, StartHook(c) PROVE Errors'
  BY <1>3 DEF TypeOK, StartHook, Goto
<1>4. ASSUME NEW c \in Callers, HookSucceeds(c) PROVE Errors'
  BY <1>4 DEF TypeOK, HookSucceeds, Goto
<1>5. ASSUME NEW c \in Callers, SnapshotAfterStart(c) PROVE Errors'
  BY <1>5 DEF TypeOK, SnapshotAfterStart, EnterPhase, PhaseComplete
<1>6. ASSUME NEW c \in Callers, PublishRunning(c) PROVE Errors'
  BY <1>6 DEF TypeOK, PublishRunning, Leave, PhaseComplete
<1>7. ASSUME NEW c \in Callers, FailInit(c) PROVE Errors'
  BY <1>7 DEF TypeOK, FailInit, Goto
<1>8. ASSUME NEW c \in Callers, MarkFailed(c) PROVE Errors'
  BY <1>8 DEF TypeOK, MarkFailed, Leave
<1>9. ASSUME NEW c \in Callers, TakeCleanups(c) PROVE Errors'
  BY <1>9 DEF TypeOK, TakeCleanups, Goto, PhaseComplete
<1>10. ASSUME NEW c \in Callers, RunCleanup(c) PROVE Errors'
  <2>1. UNCHANGED err \/ (err'[c] # {} /\ \A d \in Callers \ {c} : err'[d] = err[d])
    BY <1>10, AddCauseEffect DEF RunCleanup
  <2>2. pc' = pc /\ phase' = phase /\ pc[c] = "unwind"
    BY <1>10 DEF RunCleanup
  <2> QED BY <2>1, <2>2
<1>11. ASSUME NEW c \in Callers, RevertToRunning(c) PROVE Errors'
  BY <1>11 DEF TypeOK, RevertToRunning, Leave
<1>12. ASSUME NEW c \in Callers, MarkDestroyed(c) PROVE Errors'
  BY <1>12 DEF TypeOK, MarkDestroyed, EnterPhase
<1>13. ASSUME NEW c \in Callers, DestroyReturns(c) PROVE Errors'
  BY <1>13 DEF TypeOK, DestroyReturns, Leave, PhaseComplete
<1>14. ASSUME NEW c \in Callers, InitEnter(c) PROVE Errors'
  BY <1>14 DEF TypeOK, InitEnter, EnterPhase
<1>15. ASSUME NEW c \in Callers, InitRefused(c) PROVE Errors'
  BY <1>15 DEF TypeOK, InitRefused
<1>16. ASSUME NEW c \in Callers, DestroyEnter(c) PROVE Errors'
  BY <1>16 DEF TypeOK, DestroyEnter, EnterPhase
<1>17. ASSUME NEW c \in Callers, DestroyRefused(c) PROVE Errors'
  BY <1>17 DEF TypeOK, DestroyRefused
<1>18. ASSUME NEW c \in Callers, AddCleanupInStartHook(c) PROVE Errors'
  BY <1>18 DEF TypeOK, AddCleanupInStartHook, Register
<1>19. ASSUME NEW c \in Callers, CancelContext(c) PROVE Errors'
  BY <1>19 DEF TypeOK, CancelContext
<1>20. ASSUME NEW p \in Phases, NEW h \in Hooks, AddHook(p, h) PROVE Errors'
  BY <1>20 DEF TypeOK, AddHook
<1>21. ASSUME NEW p \in Phases, NEW n \in Names, RemoveHook(p, n) PROVE Errors'
  BY <1>21 DEF TypeOK, RemoveHook
<1>22. CASE AddCleanup
  BY <1>22 DEF TypeOK, AddCleanup, Register
<1>23. CASE UNCHANGED vars
  BY <1>23 DEF TypeOK, vars
<1> QED
  BY <1>1, <1>2, <1>3, <1>4, <1>5, <1>6, <1>7, <1>8, <1>9, <1>10, <1>11, <1>12,
     <1>13, <1>14, <1>15, <1>16, <1>17, <1>18, <1>19, <1>20, <1>21, <1>22, <1>23,
     AbortsWhen
  DEF Next, Step, Call, Environment

-----------------------------------------------------------------------------
(* The way of a cleanup                                                    *)

LEMMA AppendAscending ==
  ASSUME NEW s \in Seq(Int), NEW e \in Int, Ascending(s), \A i \in Range(s) : i < e
  PROVE  /\ Ascending(Append(s, e))
         /\ Range(Append(s, e)) = Range(s) \cup {e}
<1>1. /\ DOMAIN Append(s, e) = 1..(Len(s) + 1)
      /\ \A i \in DOMAIN s : Append(s, e)[i] = s[i]
      /\ Append(s, e)[Len(s) + 1] = e
      /\ DOMAIN s = 1..Len(s) /\ Len(s) \in Nat
  BY AppendProperties
<1>2. \A i \in DOMAIN s : s[i] < e
  BY DEF Range
<1>3. Ascending(Append(s, e))
  BY <1>1, <1>2 DEF Ascending
<1>4. Range(Append(s, e)) = Range(s) \cup {e}
  BY <1>1 DEF Range
<1> QED BY <1>3, <1>4

LEMMA FrontAscending ==
  ASSUME NEW s \in Seq(Int), s # <<>>, Ascending(s)
  PROVE  /\ Ascending(Front(s))
         /\ Range(Front(s)) = Range(s) \ {Last(s)}
         /\ Last(s) \in Range(s)
         /\ \A i \in Range(s) : i <= Last(s)
<1>1. /\ Len(s) \in Nat \ {0} /\ DOMAIN s = 1..Len(s)
      /\ DOMAIN Front(s) = 1..(Len(s) - 1)
      /\ \A i \in 1..(Len(s) - 1) : Front(s)[i] = s[i]
  BY DEF Front
<1>2. \A i \in 1..(Len(s) - 1) : s[i] < s[Len(s)] /\ s[i] \in Int /\ s[Len(s)] \in Int
  BY <1>1 DEF Ascending
<1>3. Ascending(Front(s))
  BY <1>1 DEF Ascending
<1>4. Range(Front(s)) = Range(s) \ {Last(s)}
  <2>1. Range(Front(s)) = {s[i] : i \in 1..(Len(s) - 1)}
    BY <1>1 DEF Range
  <2>2. Range(s) = {s[i] : i \in 1..(Len(s) - 1)} \cup {s[Len(s)]}
    <3>1. DOMAIN s = 1..(Len(s) - 1) \cup {Len(s)}
      BY <1>1
    <3> QED BY <3>1 DEF Range
  <2>3. s[Len(s)] \notin {s[i] : i \in 1..(Len(s) - 1)}
    BY <1>2
  <2> QED BY <2>1, <2>2, <2>3 DEF Last
<1>5. Last(s) \in Range(s)
  BY <1>1 DEF Range, Last
<1>6. \A i \in Range(s) : i <= Last(s)
  BY <1>1, <1>2 DEF Range, Last
<1> QED BY <1>3, <1>4, <1>5, <1>6

\* Only three kinds of step touch the cleanups.
LEMMA CleanupFrame ==
  ASSUME [Next]_vars
  PROVE  \/ UNCHANGED <<cleanups, taken, registered, runs>>
         \/ \E c \in Callers : TakeCleanups(c) \/ RunCleanup(c)
         \/ Register /\ UNCHANGED <<taken, runs>>
<1> USE DEF locals, history
<1>1. CASE UNCHANGED vars
  BY <1>1 DEF vars
<1>2. ASSUME NEW c \in Callers, Step(c)
      PROVE  TakeCleanups(c) \/ RunCleanup(c) \/ UNCHANGED <<cleanups, taken, registered, runs>>
  BY <1>2 DEF Step, SkipNilHook, StartHook, HookSucceeds, HookFails, PhaseCanceled, SnapshotAfterStart,
              PublishRunning, FailInit, MarkFailed, RevertToRunning, MarkDestroyed, DestroyReturns
<1>3. ASSUME NEW c \in Callers, Call(c)
      PROVE  UNCHANGED <<cleanups, taken, registered, runs>>
  BY <1>3 DEF Call, InitEnter, InitRefused, DestroyEnter, DestroyRefused
<1>4. CASE Environment
  BY <1>4 DEF Environment, AddHook, RemoveHook, AddCleanupInStartHook, AddCleanup, CancelContext
<1> QED BY <1>1, <1>2, <1>3, <1>4 DEF Next

LEMMA CleanupsType ==
  ASSUME TypeOK
  PROVE  /\ cleanups \in Seq(Int)
         /\ \A c \in Callers : taken[c] \in Seq(Int)
         /\ registered \in Nat
         /\ Range(cleanups) \subseteq Int
         /\ \A c \in Callers : Range(taken[c]) \subseteq Int
<1>1. CleanupIds \subseteq Int
  BY DEF CleanupIds
<1>2. cleanups \in Seq(Int) /\ \A c \in Callers : taken[c] \in Seq(Int)
  BY <1>1, SeqMonotonic DEF TypeOK
<1>3. registered \in Nat
  BY DEF TypeOK
<1> QED BY <1>2, <1>3 DEF Range

LEMMA CleanupOrderStep == TypeOK /\ Coherent /\ CleanupOrder /\ [Next]_vars => CleanupOrder'
<1> SUFFICES ASSUME TypeOK, Coherent, CleanupOrder, [Next]_vars PROVE CleanupOrder'
  OBVIOUS
<1>1. CASE UNCHANGED <<cleanups, taken, registered, runs>>
  BY <1>1 DEF CleanupOrder
<1>2. ASSUME NEW c \in Callers, TakeCleanups(c) PROVE CleanupOrder'
  <2>1. cleanups' = <<>> /\ taken' = [taken EXCEPT ![c] = cleanups] /\ registered' = registered
    BY <1>2 DEF TakeCleanups, history
  <2>2. runs' = runs
    BY <1>2 DEF TakeCleanups, history
  <2> QED BY <2>1, <2>2 DEF CleanupOrder, TypeOK, Range, Ascending
<1>3. ASSUME NEW c \in Callers, RunCleanup(c) PROVE CleanupOrder'
  <2>1. /\ taken[c] # <<>> /\ taken' = [taken EXCEPT ![c] = Front(taken[c])]
        /\ cleanups' = cleanups /\ registered' = registered
    BY <1>3 DEF RunCleanup
  <2>2. taken[c] \in Seq(Int) /\ Ascending(taken[c])
    BY CleanupsType DEF CleanupOrder
  <2>3. Ascending(Front(taken[c])) /\ Range(Front(taken[c])) \subseteq Range(taken[c])
    BY <2>1, <2>2, FrontAscending
  <2>4. Last(taken[c]) \in Range(taken[c])
    BY <2>1, <2>2, FrontAscending
  <2>5. \A i \in CleanupIds : i > registered => runs'[i] = 0
    <3>1. runs' = [runs EXCEPT ![Last(taken[c])] = @ + 1]
      BY <1>3 DEF RunCleanup
    <3>2. Last(taken[c]) <= registered /\ Last(taken[c]) \in Int /\ registered \in Nat
      BY <2>4, CleanupsType DEF CleanupOrder
    <3> QED BY <3>1, <3>2 DEF CleanupOrder, TypeOK, CleanupIds
  <2> QED BY <2>1, <2>3, <2>5 DEF CleanupOrder, TypeOK
<1>4. CASE Register /\ UNCHANGED <<taken, runs>>
  <2>1. cleanups' = Append(cleanups, registered + 1) /\ registered' = registered + 1 /\ taken' = taken
    BY <1>4 DEF Register
  <2>2. cleanups \in Seq(Int) /\ registered \in Nat /\ Ascending(cleanups)
    BY CleanupsType DEF CleanupOrder
  <2>3. \A i \in Range(cleanups) : i < registered + 1
    BY <2>2, CleanupsType DEF CleanupOrder
  <2>4. Ascending(cleanups') /\ Range(cleanups') = Range(cleanups) \cup {registered + 1}
    BY <2>1, <2>2, <2>3, AppendAscending
  <2>5. \A i \in Range(cleanups') : i <= registered'
    BY <2>1, <2>2, <2>3, <2>4, CleanupsType
  <2>6. ASSUME NEW c \in Callers, NEW i \in Range(taken[c]) PROVE i <= registered + 1
    <3>1. i <= registered /\ i \in Int
      BY CleanupsType DEF CleanupOrder
    <3> QED BY <2>2, <3>1
  <2>7. \A i \in CleanupIds : i > registered' => runs'[i] = 0
    BY <1>4, <2>1, <2>2 DEF CleanupOrder, CleanupIds
  <2> QED BY <2>1, <2>4, <2>5, <2>6, <2>7 DEF CleanupOrder
<1> QED BY <1>1, <1>2, <1>3, <1>4, CleanupFrame

LEMMA ConservationStep ==
  TypeOK /\ Coherent /\ CleanupOrder /\ CleanupConservation /\ [Next]_vars => CleanupConservation'
<1> SUFFICES ASSUME TypeOK, Coherent, CleanupOrder, CleanupConservation, [Next]_vars
             PROVE  CleanupConservation'
  OBVIOUS
<1> DEFINE held(i) == {c \in Callers : i \in Range(taken[c])}
<1>1. CASE UNCHANGED <<cleanups, taken, registered, runs>>
  BY <1>1 DEF CleanupConservation
<1>2. ASSUME NEW c \in Callers, TakeCleanups(c) PROVE CleanupConservation'
  <2>1. /\ cleanups' = <<>> /\ taken' = [taken EXCEPT ![c] = cleanups]
        /\ registered' = registered /\ runs' = runs
    BY <1>2 DEF TakeCleanups, history
  <2>2. taken[c] = <<>>
    BY <1>2 DEF TakeCleanups, PhaseComplete, Coherent
  <2>3. Range(cleanups') = {} /\ Range(taken[c]) = {}
    BY <2>1, <2>2 DEF Range
  <2>4. Range(taken'[c]) = Range(cleanups) /\ \A d \in Callers \ {c} : taken'[d] = taken[d]
    BY <2>1 DEF TypeOK
  <2> QED BY <2>1, <2>3, <2>4 DEF CleanupConservation
<1>3. ASSUME NEW c \in Callers, RunCleanup(c) PROVE CleanupConservation'
  <2>1. /\ taken[c] # <<>> /\ taken' = [taken EXCEPT ![c] = Front(taken[c])]
        /\ cleanups' = cleanups /\ registered' = registered
        /\ runs' = [runs EXCEPT ![Last(taken[c])] = @ + 1]
    BY <1>3 DEF RunCleanup
  <2>2. taken[c] \in Seq(Int) /\ Ascending(taken[c])
    BY CleanupsType DEF CleanupOrder
  <2>3. Range(Front(taken[c])) = Range(taken[c]) \ {Last(taken[c])} /\ Last(taken[c]) \in Range(taken[c])
    BY <2>1, <2>2, FrontAscending
  <2>4. Range(taken'[c]) = Range(taken[c]) \ {Last(taken[c])}
        /\ \A d \in Callers \ {c} : taken'[d] = taken[d]
    BY <2>1, <2>3 DEF TypeOK
  <2>5. Last(taken[c]) \in CleanupIds
    BY <2>1, FrontType DEF TypeOK
  <2>6. ASSUME NEW i \in 1..registered, i # Last(taken[c])
        PROVE  runs'[i] = runs[i] /\ \A d \in Callers : i \in Range(taken'[d]) <=> i \in Range(taken[d])
    BY <2>1, <2>4, <2>6 DEF TypeOK, CleanupIds
  <2>7. ASSUME NEW i \in 1..registered, i = Last(taken[c])
        PROVE  runs[i] = 0 /\ runs'[i] = 1 /\ i \notin Range(cleanups)
               /\ \A d \in Callers : i \notin Range(taken'[d])
    <3>1. runs[i] = 0 /\ i \notin Range(cleanups) /\ held(i) = {c}
      BY <2>3, <2>7 DEF CleanupConservation
    <3>2. runs'[i] = 1
      BY <2>1, <2>5, <2>7, <3>1 DEF TypeOK
    <3> QED BY <2>4, <2>7, <3>1, <3>2
  <2>8. SUFFICES ASSUME NEW i \in 1..registered
                 PROVE  \/ runs'[i] = 0 /\ i \in Range(cleanups') /\ held(i)' = {}
                        \/ runs'[i] = 0 /\ i \notin Range(cleanups') /\ \E d \in Callers : held(i)' = {d}
                        \/ runs'[i] = 1 /\ i \notin Range(cleanups') /\ held(i)' = {}
    BY <2>1 DEF CleanupConservation
  <2>9. CASE i = Last(taken[c])
    BY <2>1, <2>7, <2>9
  <2>10. CASE i # Last(taken[c])
    <3>1. held(i)' = held(i)
      BY <2>6, <2>10
    <3> QED BY <2>1, <2>6, <2>10, <3>1 DEF CleanupConservation
  <2> QED BY <2>9, <2>10
<1>4. CASE Register /\ UNCHANGED <<taken, runs>>
  <2>1. /\ cleanups' = Append(cleanups, registered + 1) /\ registered' = registered + 1
        /\ taken' = taken /\ runs' = runs
    BY <1>4 DEF Register
  <2>2. registered \in Nat /\ registered' \in CleanupIds
    BY <1>4, CleanupsType, RegisterType
  <2>3. Range(cleanups') = Range(cleanups) \cup {registered + 1}
    <3>1. cleanups \in Seq(Int) /\ Ascending(cleanups) /\ \A i \in Range(cleanups) : i < registered + 1
      BY <2>2, CleanupsType DEF CleanupOrder
    <3> QED BY <2>1, <2>2, <3>1, AppendAscending
  <2>4. runs[registered + 1] = 0
    BY <2>1, <2>2 DEF CleanupOrder
  <2>7. ASSUME NEW c \in Callers PROVE registered + 1 \notin Range(taken[c])
    <3>1. \A i \in Range(taken[c]) : i <= registered
      BY DEF CleanupOrder
    <3> QED BY <2>2, <3>1
  <2>5. 1..registered' = 1..registered \cup {registered + 1}
    BY <2>1, <2>2
  <2>6. \A i \in 1..registered : i # registered + 1
    BY <2>2
  <2> QED BY <2>1, <2>3, <2>4, <2>5, <2>6, <2>7 DEF CleanupConservation
<1> QED BY <1>1, <1>2, <1>3, <1>4, CleanupFrame

\* A step that moves no cleanup, takes nothing down and starts no unwinding.
Quiet == /\ UNCHANGED <<cleanups, taken, registered, runs, owed>>
         /\ state' \notin Startable \/ state' = state
         /\ \A c \in Callers : pc'[c] = "unwind" => pc[c] = "unwind"

LEMMA OwedFrame ==
  ASSUME TypeOK, [Next]_vars
  PROVE  \/ Quiet
         \/ \E c \in Callers : \/ TakeCleanups(c) \/ RunCleanup(c) \/ MarkFailed(c)
                               \/ MarkDestroyed(c) \/ AddCleanupInStartHook(c)
         \/ AddCleanup
<1> USE DEF locals, history, TypeOK
<1>1. CASE UNCHANGED vars
  BY <1>1 DEF vars, Quiet
<1>2. ASSUME NEW c \in Callers, SkipNilHook(c) PROVE Quiet
  BY <1>2 DEF Quiet, Startable, SkipNilHook
<1>3. ASSUME NEW c \in Callers, StartHook(c) PROVE Quiet
  BY <1>3 DEF Quiet, Startable, StartHook, Goto
<1>4. ASSUME NEW c \in Callers, HookSucceeds(c) PROVE Quiet
  BY <1>4 DEF Quiet, Startable, HookSucceeds, Goto
<1>5. ASSUME NEW c \in Callers, HookFails(c) PROVE Quiet
  BY <1>5 DEF Quiet, Startable, HookFails, AbortPhase, Goto, Leave
<1>6. ASSUME NEW c \in Callers, PhaseCanceled(c) PROVE Quiet
  BY <1>6 DEF Quiet, Startable, PhaseCanceled, AbortPhase, Goto, Leave
<1>7. ASSUME NEW c \in Callers, SnapshotAfterStart(c) PROVE Quiet
  BY <1>7 DEF Quiet, Startable, SnapshotAfterStart, EnterPhase
<1>8. ASSUME NEW c \in Callers, PublishRunning(c) PROVE Quiet
  BY <1>8 DEF Quiet, Startable, PublishRunning, Leave
<1>9. ASSUME NEW c \in Callers, FailInit(c) PROVE Quiet
  BY <1>9 DEF Quiet, Startable, FailInit, Goto
<1>10. ASSUME NEW c \in Callers, RevertToRunning(c) PROVE Quiet
  BY <1>10 DEF Quiet, Startable, RevertToRunning, Leave
<1>11. ASSUME NEW c \in Callers, DestroyReturns(c) PROVE Quiet
  BY <1>11 DEF Quiet, Startable, DestroyReturns, Leave
<1>12. ASSUME NEW c \in Callers, InitEnter(c) PROVE Quiet
  BY <1>12 DEF Quiet, Startable, InitEnter, EnterPhase
<1>13. ASSUME NEW c \in Callers, InitRefused(c) PROVE Quiet
  BY <1>13 DEF Quiet, Startable, InitRefused
<1>14. ASSUME NEW c \in Callers, DestroyEnter(c) PROVE Quiet
  BY <1>14 DEF Quiet, Startable, DestroyEnter, EnterPhase
<1>15. ASSUME NEW c \in Callers, DestroyRefused(c) PROVE Quiet
  BY <1>15 DEF Quiet, Startable, DestroyRefused
<1>16. ASSUME NEW c \in Callers, CancelContext(c) PROVE Quiet
  BY <1>16 DEF Quiet, Startable, CancelContext
<1>17. ASSUME NEW p \in Phases, NEW h \in Hooks, AddHook(p, h) PROVE Quiet
  BY <1>17 DEF Quiet, AddHook
<1>18. ASSUME NEW p \in Phases, NEW n \in Names, RemoveHook(p, n) PROVE Quiet
  BY <1>18 DEF Quiet, RemoveHook
<1> QED
  BY <1>1, <1>2, <1>3, <1>4, <1>5, <1>6, <1>7, <1>8, <1>9, <1>10,
     <1>11, <1>12, <1>13, <1>14, <1>15, <1>16, <1>17, <1>18
  DEF Next, Step, Call, Environment

LEMMA OwedStep ==
  TypeOK /\ Coherent /\ Ownership /\ CleanupOrder /\ CleanupConservation /\ OwedPlaced /\ [Next]_vars
    => OwedPlaced'
<1> SUFFICES ASSUME TypeOK, Coherent, Ownership, CleanupOrder, CleanupConservation, OwedPlaced, [Next]_vars
             PROVE  OwedPlaced'
  OBVIOUS
<1>1. CASE Quiet
  BY <1>1 DEF OwedPlaced, Quiet
<1>2. ASSUME NEW c \in Callers, TakeCleanups(c) PROVE OwedPlaced'
  <2>1. /\ cleanups' = <<>> /\ taken' = [taken EXCEPT ![c] = cleanups]
        /\ registered' = registered /\ runs' = runs /\ owed' = owed
    BY <1>2 DEF TakeCleanups, history
  <2>2. taken[c] = <<>> /\ Range(taken[c]) = {}
    BY <1>2 DEF TakeCleanups, PhaseComplete, Coherent, Range
  <2>3. taken'[c] = cleanups /\ \A d \in Callers \ {c} : taken'[d] = taken[d]
    BY <2>1 DEF TypeOK
  <2> QED BY <2>1, <2>2, <2>3 DEF OwedPlaced
<1>3. ASSUME NEW c \in Callers, RunCleanup(c) PROVE OwedPlaced'
  <2>1. /\ taken[c] # <<>> /\ taken' = [taken EXCEPT ![c] = Front(taken[c])]
        /\ runs' = [runs EXCEPT ![Last(taken[c])] = @ + 1]
        /\ UNCHANGED <<state, cleanups, pc, registered, owed>>
    BY <1>3 DEF RunCleanup
  <2>2. taken[c] \in Seq(Int) /\ Ascending(taken[c])
    BY CleanupsType DEF CleanupOrder
  <2>3. Range(Front(taken[c])) = Range(taken[c]) \ {Last(taken[c])} /\ Last(taken[c]) \in Range(taken[c])
    BY <2>1, <2>2, FrontAscending
  <2>4. Range(taken'[c]) = Range(taken[c]) \ {Last(taken[c])}
        /\ \A d \in Callers \ {c} : taken'[d] = taken[d]
    BY <2>1, <2>3 DEF TypeOK
  <2>5. pc[c] = "unwind" /\ Last(taken[c]) \in CleanupIds
    BY <1>3, <2>1, FrontType DEF RunCleanup, TypeOK
  <2>6. ASSUME NEW i \in owed, i # Last(taken[c])
        PROVE  runs'[i] = runs[i] /\ \A d \in Callers : i \in Range(taken[d]) => i \in Range(taken'[d])
    BY <2>1, <2>4, <2>6 DEF TypeOK
  <2>7. Last(taken[c]) \in owed => runs'[Last(taken[c])] = 1
    <3>1. HAVE Last(taken[c]) \in owed
    <3>2. Last(taken[c]) \in 1..registered
      BY <2>3, <2>5, CleanupsType DEF CleanupOrder, CleanupIds
    <3>3. runs[Last(taken[c])] = 0
      BY <2>3, <3>2 DEF CleanupConservation
    <3> QED BY <2>1, <2>5, <3>3 DEF TypeOK
  <2> QED BY <2>1, <2>5, <2>6, <2>7 DEF OwedPlaced
<1>4. ASSUME NEW c \in Callers, MarkFailed(c) \/ MarkDestroyed(c) PROVE OwedPlaced'
  <2>1. pc[c] = "unwind" /\ UNCHANGED <<cleanups, taken, registered, runs, owed>>
    BY <1>4 DEF MarkFailed, MarkDestroyed, history
  <2> QED BY <2>1 DEF OwedPlaced
<1>5. ASSUME NEW c \in Callers, AddCleanupInStartHook(c) PROVE OwedPlaced'
  <2>1. /\ cleanups' = Append(cleanups, registered + 1) /\ registered' = registered + 1
        /\ owed' = owed \cup {registered + 1} /\ UNCHANGED <<state, pc, taken, runs>>
    BY <1>5 DEF AddCleanupInStartHook, Register, locals
  <2>2. Range(cleanups') = Range(cleanups) \cup {registered + 1}
    <3>1. cleanups \in Seq(Int) /\ Ascending(cleanups) /\ registered \in Nat
          /\ \A i \in Range(cleanups) : i < registered + 1
      BY CleanupsType DEF CleanupOrder
    <3> QED BY <2>1, <3>1, AppendAscending
  <2>3. Holds(c) /\ state = "Initializing"
    BY <1>5 DEF AddCleanupInStartHook, Ownership, Holds, StateHeldBy, StartPhases
  <2>4. \A d \in Callers : pc[d] # "unwind"
    BY <1>5, <2>3 DEF AddCleanupInStartHook, Ownership, Holds, Coherent
  <2>5. \A i \in owed' : i <= registered'
    BY <2>1 DEF OwedPlaced, TypeOK, CleanupIds
  <2> QED BY <2>1, <2>2, <2>3, <2>4, <2>5 DEF OwedPlaced, Startable
<1>6. CASE AddCleanup
  <2>1. /\ cleanups' = Append(cleanups, registered + 1) /\ registered' = registered + 1
        /\ UNCHANGED <<state, pc, taken, runs, owed>>
    BY <1>6 DEF AddCleanup, Register, locals
  <2>2. Range(cleanups') = Range(cleanups) \cup {registered + 1}
    <3>1. cleanups \in Seq(Int) /\ Ascending(cleanups) /\ registered \in Nat
          /\ \A i \in Range(cleanups) : i < registered + 1
      BY CleanupsType DEF CleanupOrder
    <3> QED BY <2>1, <3>1, AppendAscending
  <2>3. \A i \in owed' : i <= registered'
    BY <2>1 DEF OwedPlaced, TypeOK, CleanupIds
  <2> QED BY <2>1, <2>2, <2>3 DEF OwedPlaced
<1> QED BY <1>1, <1>2, <1>3, <1>4, <1>5, <1>6, OwedFrame

LEMMA InvInit == Init => IInv
<1> SUFFICES ASSUME Init PROVE IInv
  OBVIOUS
<1>1. TypeOK
  BY HookAssumption DEF Init, TypeOK, States, Points, Phases, StartPhases, DestroyPhases, CleanupIds
<1>2. Coherent /\ Ownership /\ Errors
  BY DEF Init, Coherent, Ownership, Errors, Holds, StartPhases
<1>3. CleanupOrder /\ CleanupConservation /\ OwedPlaced
  BY DEF Init, CleanupOrder, CleanupConservation, OwedPlaced, Ascending, Range
<1> QED BY <1>1, <1>2, <1>3 DEF IInv

LEMMA InvStep == IInv /\ [Next]_vars => IInv'
  BY TypeStep, CoherentStep, OwnershipStep, ErrorsStep, CleanupOrderStep, ConservationStep, OwedStep
  DEF IInv

\* The invariant the other theorems rest on.
THEOREM Invariance == Spec => []IInv
  BY InvInit, InvStep, PTL DEF Spec

\* User code of two calls never overlaps, for any number of callers, hooks and
\* cleanups.
THEOREM UserCodeIsExclusive == Spec => []ExclusiveUserCode
<1>1. IInv => ExclusiveUserCode
  BY DEF IInv, Coherent, Ownership, ExclusiveUserCode, InUserCode, Holds, TypeOK
<1> QED BY <1>1, Invariance, PTL

\* No cleanup is lost, duplicated or run twice.
THEOREM CleanupsAreConserved == Spec => []CleanupConservation
<1>1. IInv => CleanupConservation
  BY DEF IInv
<1> QED BY <1>1, Invariance, PTL

\* A module that is down owes nothing.
THEOREM DownMeansReleased == Spec => []NothingOwedWhenDown
<1>1. ASSUME IInv, state \in Startable, NEW i \in owed PROVE runs[i] = 1
  <2>1. ASSUME NEW c \in Callers PROVE i \notin Range(taken[c])
    <3>1. ~Holds(c)
      BY <1>1 DEF IInv, Ownership, Startable, StateHeldBy
    <3>2. taken[c] = <<>>
      BY <1>1, <3>1 DEF IInv, Coherent, Holds
    <3> QED BY <3>2 DEF Range
  <2> QED BY <1>1, <2>1 DEF IInv, OwedPlaced
<1>2. IInv => NothingOwedWhenDown
  BY <1>1 DEF NothingOwedWhenDown
<1> QED BY <1>2, Invariance, PTL

-----------------------------------------------------------------------------
(* The order of the hooks of a phase                                       *)

\* Only c's clone and position change; a hook passed is the next in the order.
Advances(c) == /\ \A d \in Callers \ {c} : snap'[d] = snap[d] /\ done'[d] = done[d]
               /\ \/ done'[c] = {}
                  \/ /\ snap'[c] = snap[c]
                     /\ \E i \in Pending(c) : IsNext(c, i) /\ done'[c] = done[c] \cup {i}

LEMMA OrderFrame ==
  ASSUME TypeOK, [Next]_vars
  PROVE  UNCHANGED <<snap, done>> \/ \E c \in Callers : Advances(c)
<1> DEFINE Goal == UNCHANGED <<snap, done>> \/ \E c \in Callers : Advances(c)
<1> USE DEF locals, TypeOK, Advances
<1>1. CASE UNCHANGED vars
  BY <1>1 DEF vars
<1>2. ASSUME NEW c \in Callers, SkipNilHook(c) PROVE Advances(c)
  BY <1>2 DEF SkipNilHook
<1>3. ASSUME NEW c \in Callers, HookSucceeds(c) PROVE Advances(c)
  BY <1>3 DEF HookSucceeds, Goto
<1>4. ASSUME NEW c \in Callers, SnapshotAfterStart(c) PROVE Advances(c)
  BY <1>4 DEF SnapshotAfterStart, EnterPhase
<1>5. ASSUME NEW c \in Callers, PublishRunning(c) PROVE Advances(c)
  BY <1>5 DEF PublishRunning, Leave
<1>6. ASSUME NEW c \in Callers, MarkFailed(c) PROVE Advances(c)
  BY <1>6 DEF MarkFailed, Leave
<1>7. ASSUME NEW c \in Callers, RevertToRunning(c) PROVE Advances(c)
  BY <1>7 DEF RevertToRunning, Leave
<1>8. ASSUME NEW c \in Callers, MarkDestroyed(c) PROVE Advances(c)
  BY <1>8 DEF MarkDestroyed, EnterPhase
<1>9. ASSUME NEW c \in Callers, DestroyReturns(c) PROVE Advances(c)
  BY <1>9 DEF DestroyReturns, Leave
<1>10. ASSUME NEW c \in Callers, InitEnter(c) PROVE Advances(c)
  BY <1>10 DEF InitEnter, EnterPhase
<1>11. ASSUME NEW c \in Callers, DestroyEnter(c) PROVE Advances(c)
  BY <1>11 DEF DestroyEnter, EnterPhase
<1>12. ASSUME NEW c \in Callers, Leave(c) PROVE Advances(c)
  BY <1>12 DEF Leave
<1>13. ASSUME NEW c \in Callers, HookFails(c) \/ PhaseCanceled(c) PROVE Goal
  <2>1. UNCHANGED <<snap, done>> \/ Leave(c)
    BY <1>13 DEF HookFails, PhaseCanceled, AbortPhase
  <2> QED BY <1>12, <2>1
<1>14. ASSUME NEW c \in Callers,
              \/ StartHook(c) \/ FailInit(c) \/ TakeCleanups(c) \/ RunCleanup(c) \/ InitRefused(c)
              \/ DestroyRefused(c) \/ CancelContext(c) \/ AddCleanupInStartHook(c)
      PROVE UNCHANGED <<snap, done>>
  BY <1>14 DEF StartHook, FailInit, TakeCleanups, RunCleanup, InitRefused, DestroyRefused, CancelContext, AddCleanupInStartHook
<1>15. CASE AddCleanup \/ (\E p \in Phases, h \in Hooks : AddHook(p, h)) \/ (\E p \in Phases, n \in Names : RemoveHook(p, n))
  BY <1>15 DEF AddCleanup, AddHook, RemoveHook
<1> HIDE DEF TypeOK, Advances
<1> QED
  BY <1>1, <1>2, <1>3, <1>4, <1>5, <1>6, <1>7, <1>8, <1>9, <1>10, <1>11, <1>12, <1>13, <1>14, <1>15
  DEF Next, Step, Call, Environment

LEMMA OrderStep == TypeOK /\ PriorityOrder /\ [Next]_vars => PriorityOrder'
<1> SUFFICES ASSUME TypeOK, PriorityOrder, [Next]_vars PROVE PriorityOrder'
  OBVIOUS
<1>1. CASE UNCHANGED <<snap, done>>
  BY <1>1 DEF PriorityOrder, Pending
<1>2. ASSUME NEW c \in Callers, Advances(c) PROVE PriorityOrder'
  <2>1. SUFFICES ASSUME NEW i \in done'[c], NEW j \in Pending(c)'
                 PROVE  \/ Priority[snap'[c][i]] < Priority[snap'[c][j]]
                        \/ Priority[snap'[c][i]] = Priority[snap'[c][j]] /\ i < j
    BY <1>2 DEF PriorityOrder, Pending, Advances
  <2>2. PICK n \in Pending(c) : IsNext(c, n) /\ done'[c] = done[c] \cup {n}
    BY <1>2, <2>1 DEF Advances
  <2>3. snap'[c] = snap[c] /\ j \in Pending(c) \ {n}
    BY <1>2, <2>1, <2>2 DEF Advances, Pending
  <2>4. CASE i \in done[c]
    BY <2>3, <2>4 DEF PriorityOrder
  <2>5. CASE i = n
    <3>1. Precedes(snap[c], n, j)
      BY <2>2, <2>3 DEF IsNext
    <3>2. Priority[snap[c][n]] \in Int /\ Priority[snap[c][j]] \in Int
      BY <2>2, <2>3, HookAssumption DEF TypeOK, Pending
    <3> QED BY <2>3, <2>5, <3>1, <3>2 DEF Precedes, Less
  <2> QED BY <2>1, <2>2, <2>4, <2>5
<1> QED BY <1>1, <1>2, OrderFrame

\* Hooks run in ascending priority and, among equals, in order of registration,
\* whatever the priorities are and whatever is registered or removed meanwhile.
THEOREM HooksRunInOrder == Spec => []PriorityOrder
<1>1. Init => TypeOK /\ PriorityOrder
  BY InvInit DEF IInv, Init, PriorityOrder
<1>2. TypeOK /\ PriorityOrder /\ [Next]_vars => TypeOK' /\ PriorityOrder'
  BY TypeStep, OrderStep
<1> QED BY <1>1, <1>2, PTL DEF Spec

-----------------------------------------------------------------------------
(* How Init and Destroy return                                             *)

LEMMA ReturnFrame ==
  ASSUME TypeOK, Coherent, [Next]_vars, NEW c \in Callers, pc[c] # "idle", pc'[c] = "idle"
  PROVE  \/ PublishRunning(c) \/ MarkFailed(c) \/ RevertToRunning(c)
         \/ phase[c] = "AfterDestroy" /\ UNCHANGED state
<1> DEFINE Goal == \/ PublishRunning(c) \/ MarkFailed(c) \/ RevertToRunning(c)
                   \/ phase[c] = "AfterDestroy" /\ UNCHANGED state
<1> USE DEF locals, TypeOK
<1>1. CASE UNCHANGED vars
  BY <1>1 DEF vars
<1>2. ASSUME NEW d \in Callers, SkipNilHook(d) PROVE Goal
  BY <1>2 DEF SkipNilHook
<1>3. ASSUME NEW d \in Callers, StartHook(d) PROVE Goal
  BY <1>3 DEF StartHook, Goto
<1>4. ASSUME NEW d \in Callers, HookSucceeds(d) PROVE Goal
  BY <1>4 DEF HookSucceeds, Goto
<1>5. ASSUME NEW d \in Callers, HookFails(d) PROVE Goal
  BY <1>5 DEF HookFails, AbortPhase, Goto, Leave
<1>6. ASSUME NEW d \in Callers, PhaseCanceled(d) PROVE Goal
  BY <1>6 DEF PhaseCanceled, AbortPhase, Goto, Leave
<1>7. ASSUME NEW d \in Callers, SnapshotAfterStart(d) PROVE Goal
  BY <1>7 DEF SnapshotAfterStart, EnterPhase
<1>8. ASSUME NEW d \in Callers, PublishRunning(d) PROVE Goal
  BY <1>8 DEF PublishRunning, Leave
<1>9. ASSUME NEW d \in Callers, FailInit(d) PROVE Goal
  BY <1>9 DEF FailInit, Goto
<1>10. ASSUME NEW d \in Callers, MarkFailed(d) PROVE Goal
  BY <1>10 DEF MarkFailed, Leave
<1>11. ASSUME NEW d \in Callers, TakeCleanups(d) PROVE Goal
  BY <1>11 DEF TakeCleanups, Goto
<1>12. ASSUME NEW d \in Callers, RunCleanup(d) PROVE Goal
  BY <1>12 DEF RunCleanup
<1>13. ASSUME NEW d \in Callers, RevertToRunning(d) PROVE Goal
  BY <1>13 DEF RevertToRunning, Leave
<1>14. ASSUME NEW d \in Callers, MarkDestroyed(d) PROVE Goal
  BY <1>14 DEF MarkDestroyed, EnterPhase
<1>15. ASSUME NEW d \in Callers, DestroyReturns(d) PROVE Goal
  BY <1>15 DEF DestroyReturns, PhaseComplete, Leave
<1>16. ASSUME NEW d \in Callers, InitEnter(d) PROVE Goal
  BY <1>16 DEF InitEnter, EnterPhase
<1>17. ASSUME NEW d \in Callers, InitRefused(d) PROVE Goal
  BY <1>17 DEF InitRefused
<1>18. ASSUME NEW d \in Callers, DestroyEnter(d) PROVE Goal
  BY <1>18 DEF DestroyEnter, EnterPhase
<1>19. ASSUME NEW d \in Callers, DestroyRefused(d) PROVE Goal
  BY <1>19 DEF DestroyRefused
<1>20. ASSUME NEW d \in Callers, CancelContext(d) PROVE Goal
  BY <1>20 DEF CancelContext
<1>21. ASSUME NEW d \in Callers, AddCleanupInStartHook(d) PROVE Goal
  BY <1>21 DEF AddCleanupInStartHook, Register
<1>22. CASE AddCleanup \/ (\E p \in Phases, h \in Hooks : AddHook(p, h)) \/ (\E p \in Phases, n \in Names : RemoveHook(p, n))
  BY <1>22 DEF AddCleanup, AddHook, RemoveHook
<1> QED
  BY <1>1, <1>2, <1>3, <1>4, <1>5, <1>6, <1>7, <1>8, <1>9, <1>10, <1>11,
     <1>12, <1>13, <1>14, <1>15, <1>16, <1>17, <1>18, <1>19, <1>20, <1>21, <1>22
  DEF Next, Step, Call, Environment

\* Init is atomic: nil leaves the module Running, an error leaves it Failed.
THEOREM InitIsAtomic == Spec => InitAtomic
<1>1. ASSUME IInv, [Next]_vars, NEW c \in Callers, phase[c] \in StartPhases, pc'[c] = "idle"
      PROVE  \/ state' = "Running" /\ err'[c] = {}
             \/ state' = "Failed" /\ err'[c] # {}
  <2>1. pc[c] # "idle" /\ phase[c] # "AfterDestroy" /\ phase[c] # "BeforeDestroy"
    BY <1>1 DEF IInv, Coherent, StartPhases
  <2>2. \/ PublishRunning(c) \/ MarkFailed(c) \/ RevertToRunning(c)
    BY <1>1, <2>1, ReturnFrame DEF IInv
  <2>3. ~RevertToRunning(c)
    BY <1>1, <2>1 DEF IInv, Coherent, RevertToRunning
  <2>4. CASE PublishRunning(c)
    <3>1. pc[c] = "check" /\ state' = "Running" /\ err' = err
      BY <2>4 DEF PublishRunning, PhaseComplete
    <3> QED BY <1>1, <3>1 DEF IInv, Errors
  <2>5. CASE MarkFailed(c)
    <3>1. pc[c] = "unwind" /\ state' = "Failed" /\ err' = err
      BY <2>5 DEF MarkFailed
    <3> QED BY <1>1, <3>1 DEF IInv, Errors
  <2> QED BY <2>2, <2>3, <2>4, <2>5
<1>2. IInv /\ [Next]_vars =>
        [\A c \in Callers : phase[c] \in StartPhases /\ pc'[c] = "idle" =>
           \/ state' = "Running" /\ err'[c] = {}
           \/ state' = "Failed" /\ err'[c] # {}]_vars
  BY <1>1
<1> QED BY <1>2, Invariance, PTL DEF Spec, InitAtomic

\* Only two steps publish Running.
LEMMA RunningFrame ==
  ASSUME TypeOK, [Next]_vars, state = "Destroying", state' = "Running"
  PROVE  \E c \in Callers : PublishRunning(c) \/ RevertToRunning(c)
<1>1. ASSUME NEW c \in Callers, Step(c), ~PublishRunning(c), ~RevertToRunning(c) PROVE state' # "Running"
  BY <1>1 DEF Step, SkipNilHook, StartHook, HookSucceeds, HookFails, PhaseCanceled, SnapshotAfterStart,
              FailInit, MarkFailed, TakeCleanups, RunCleanup, MarkDestroyed, DestroyReturns
<1>2. ASSUME NEW c \in Callers, Call(c) PROVE state' # "Running"
  BY <1>2 DEF Call, InitEnter, InitRefused, DestroyEnter, DestroyRefused
<1>3. CASE Environment
  BY <1>3 DEF Environment, AddHook, RemoveHook, AddCleanupInStartHook, AddCleanup, CancelContext
<1> QED BY <1>1, <1>2, <1>3 DEF Next, vars

\* c is in a Destroy that may still be abandoned.
Retractable(c) == phase[c] = "BeforeDestroy" /\ pc[c] \in {"check", "hook", "revert"}

\* Until the point of no return the cleanups that Destroy found stay registered.
FoundIsKept == \A c \in Callers : Retractable(c) => found \subseteq Range(cleanups)

LEMMA FoundFrame ==
  ASSUME [Next]_vars
  PROVE  UNCHANGED found \/ \E c \in Callers : DestroyEnter(c)
<1> USE DEF locals, history
<1>1. CASE UNCHANGED vars
  BY <1>1 DEF vars
<1>2. ASSUME NEW c \in Callers, Step(c) PROVE UNCHANGED found
  BY <1>2 DEF Step, SkipNilHook, StartHook, HookSucceeds, HookFails, PhaseCanceled, SnapshotAfterStart, PublishRunning,
     FailInit, MarkFailed, TakeCleanups, RunCleanup, RevertToRunning, MarkDestroyed, DestroyReturns
<1>3. ASSUME NEW c \in Callers, Call(c) PROVE UNCHANGED found \/ DestroyEnter(c)
  BY <1>3 DEF Call, InitEnter, InitRefused, DestroyRefused
<1>4. CASE Environment
  BY <1>4 DEF Environment, AddHook, RemoveHook, AddCleanupInStartHook, AddCleanup, CancelContext
<1> QED BY <1>1, <1>2, <1>3, <1>4 DEF Next

\* That part of a Destroy is entered by DestroyEnter only.
LEMMA RetractableFrame ==
  ASSUME TypeOK, [Next]_vars, NEW c \in Callers, Retractable(c)', ~DestroyEnter(c)
  PROVE  Retractable(c)
<1> USE DEF Retractable, TypeOK, locals, StartPhases
<1>1. CASE UNCHANGED vars
  BY <1>1 DEF vars
<1>2. ASSUME NEW d \in Callers, Step(d) PROVE Retractable(c)
  <2>1. CASE SkipNilHook(d) \/ StartHook(d) \/ HookSucceeds(d)
    BY <2>1 DEF SkipNilHook, StartHook, HookSucceeds, Goto
  <2>2. CASE HookFails(d) \/ PhaseCanceled(d)
    BY <2>2 DEF HookFails, PhaseCanceled, AbortPhase, Goto, Leave
  <2>3. CASE SnapshotAfterStart(d) \/ MarkDestroyed(d)
    BY <2>3 DEF SnapshotAfterStart, MarkDestroyed, EnterPhase
  <2>4. CASE PublishRunning(d) \/ MarkFailed(d) \/ RevertToRunning(d) \/ DestroyReturns(d)
    BY <2>4 DEF PublishRunning, MarkFailed, RevertToRunning, DestroyReturns, Leave
  <2>5. CASE FailInit(d) \/ TakeCleanups(d) \/ RunCleanup(d)
    BY <2>5 DEF FailInit, TakeCleanups, RunCleanup, Goto
  <2> QED BY <1>2, <2>1, <2>2, <2>3, <2>4, <2>5 DEF Step
<1>3. ASSUME NEW d \in Callers, Call(d) PROVE Retractable(c)
  BY <1>3 DEF Call, InitEnter, InitRefused, DestroyEnter, DestroyRefused, EnterPhase
<1>4. CASE Environment
  BY <1>4 DEF Environment, AddHook, RemoveHook, AddCleanupInStartHook, AddCleanup, CancelContext
<1> QED BY <1>1, <1>2, <1>3, <1>4 DEF Next

LEMMA FoundStep == IInv /\ FoundIsKept /\ [Next]_vars => FoundIsKept'
<1> SUFFICES ASSUME IInv, FoundIsKept, [Next]_vars, NEW c \in Callers, Retractable(c)'
             PROVE  found' \subseteq Range(cleanups')
  BY DEF FoundIsKept
<1>1. ASSUME NEW d \in Callers, DestroyEnter(d) PROVE found' \subseteq Range(cleanups')
  BY <1>1 DEF DestroyEnter
<1>2. CASE \A d \in Callers : ~DestroyEnter(d)
  <2>1. found' = found /\ Retractable(c)
    BY <1>2, FoundFrame, RetractableFrame DEF IInv
  <2>2. found \subseteq Range(cleanups)
    BY <2>1 DEF FoundIsKept
  <2>3. ASSUME NEW d \in Callers PROVE ~TakeCleanups(d)
    <3>1. TakeCleanups(d) => Holds(d) /\ pc'[d] = "unwind"
      BY DEF TakeCleanups, PhaseComplete, Goto, Holds, IInv, TypeOK, Coherent, StartPhases
    <3>2. Holds(c) /\ pc'[c] # "unwind"
      BY <2>1 DEF Retractable, Holds
    <3> QED BY <3>1, <3>2 DEF IInv, Ownership
  <2>4. CASE cleanups' = cleanups
    BY <2>1, <2>2, <2>4
  <2>5. CASE Register
    <3>1. Range(cleanups) \subseteq Range(cleanups')
      <4>1. /\ cleanups \in Seq(Int) /\ registered \in Nat
            /\ Ascending(cleanups) /\ \A i \in Range(cleanups) : i <= registered
        BY CleanupsType DEF IInv, CleanupOrder
      <4>2. \A i \in Range(cleanups) : i < registered + 1
        BY <4>1, RangeType
      <4> QED BY <2>5, <4>1, <4>2, AppendAscending DEF Register
    <3> QED BY <2>1, <2>2, <3>1
  <2> QED BY <2>3, <2>4, <2>5, CleanupFrame DEF RunCleanup
<1> QED BY <1>1, <1>2

\* A Destroy that gives the module back returns an error; every cleanup it found is
\* registered still and has never run.
THEOREM RetryIsPossible == Spec => RetryKeepsCleanups
<1> DEFINE Kept == /\ \E c \in Callers : phase[c] = "BeforeDestroy" /\ pc'[c] = "idle" /\ err'[c] # {}
                   /\ found \subseteq Range(cleanups')
                   /\ \A i \in found : runs'[i] = 0
<1>1. ASSUME IInv, FoundIsKept, [Next]_vars, state = "Destroying", state' = "Running" PROVE Kept
  <2>1. PICK c \in Callers : PublishRunning(c) \/ RevertToRunning(c)
    BY <1>1, RunningFrame DEF IInv
  <2>2. ~PublishRunning(c)
    BY <1>1 DEF IInv, Ownership, PublishRunning, PhaseComplete, Holds, StateHeldBy, StartPhases
  <2>3. pc[c] = "revert" /\ pc'[c] = "idle" /\ err' = err /\ cleanups' = cleanups /\ runs' = runs
    BY <1>1, <2>1, <2>2 DEF RevertToRunning, Leave, IInv, TypeOK, history
  <2>4. phase[c] = "BeforeDestroy" /\ err[c] # {}
    BY <1>1, <2>3 DEF IInv, Coherent, Errors
  <2>5. found \subseteq Range(cleanups)
    BY <1>1, <2>3, <2>4 DEF FoundIsKept, Retractable
  <2>6. ASSUME NEW i \in found PROVE runs[i] = 0
    <3>1. i \in Range(cleanups) /\ i \in CleanupIds /\ i <= registered
      BY <1>1, <2>5, <2>6 DEF IInv, TypeOK, CleanupOrder
    <3>2. i \in 1..registered
      BY <1>1, <3>1, HookAssumption DEF CleanupIds, IInv, TypeOK
    <3> QED BY <1>1, <3>1, <3>2 DEF IInv, CleanupConservation
  <2> QED BY <2>3, <2>4, <2>5, <2>6
<1>2. IInv /\ FoundIsKept /\ [Next]_vars => [state = "Destroying" /\ state' = "Running" => Kept]_vars
  BY <1>1
<1>3. Init => FoundIsKept
  BY DEF Init, FoundIsKept
<1> QED BY <1>2, <1>3, FoundStep, Invariance, PTL DEF Spec, RetryKeepsCleanups

-----------------------------------------------------------------------------
(* The module implements its contract                                      *)

\* What the holder of the contract is, in terms of the module.
HolderFacts ==
  /\ \A c \in Callers : Holds(c) => Holder = c /\ HeldStage = Stage(c)
  /\ (\A c \in Callers : ~Holds(c)) => Holder = NoCaller /\ HeldStage = "none"

LEMMA HolderMeaning == IInv => HolderFacts
<1> SUFFICES ASSUME IInv PROVE HolderFacts
  OBVIOUS
<1>1. ASSUME NEW c \in Callers, Holds(c) PROVE Holder = c /\ HeldStage = Stage(c)
  <2>1. \A d \in Callers : Holds(d) => d = c
    BY <1>1 DEF IInv, Ownership
  <2>2. Holder = c
    BY <1>1, <2>1 DEF Holder
  <2>3. c # NoCaller
    BY CallerAssumption
  <2> QED BY <2>2, <2>3 DEF HeldStage
<1>2. ASSUME \A c \in Callers : ~Holds(c) PROVE Holder = NoCaller /\ HeldStage = "none"
  BY <1>2 DEF Holder, HeldStage
<1> QED BY <1>1, <1>2 DEF HolderFacts

LEMMA HolderAcross ==
  IInv /\ [Next]_vars => IInv' /\ HolderFacts /\ HolderFacts'
  BY InvStep, HolderMeaning, PTL

LEMMA StartableIsFree ==
  ASSUME IInv, state \notin {"Initializing", "Destroying"}, NEW c \in Callers
  PROVE  ~Holds(c)
  BY DEF IInv, Ownership, StateHeldBy

\* A step that disturbs nobody's place in Init or Destroy is a stutter.
LEMMA StutterStep ==
  ASSUME IInv, [Next]_vars, UNCHANGED <<state, Due>>,
         \A c \in Callers : /\ Holds(c)' <=> Holds(c)
                            /\ Holds(c) => Stage(c)' = Stage(c)
  PROVE  UNCHANGED <<state, Holder, HeldStage, Due>>
<1>1. HolderFacts /\ HolderFacts'
  BY HolderAcross
<1>2. CASE \E c \in Callers : Holds(c)
  BY <1>1, <1>2 DEF HolderFacts
<1>3. CASE \A c \in Callers : ~Holds(c)
  BY <1>1, <1>3 DEF HolderFacts
<1> QED BY <1>2, <1>3

LEMMA OthersDoNotHold ==
  ASSUME IInv, NEW c \in Callers, Holds(c)
  PROVE  \A d \in Callers \ {c} : ~Holds(d)
  BY DEF IInv, Ownership

\* Nothing is due once the unwinder's list is empty.
LEMMA UnwoundIsPaid ==
  ASSUME IInv, NEW c \in Callers, pc[c] = "unwind", taken[c] = <<>>
  PROVE  Due = {}
<1>1. Holds(c)
  BY DEF IInv, Coherent, Holds
<1>2. ASSUME NEW d \in Callers PROVE Range(taken[d]) = {}
  <2>1. taken[d] = <<>>
    BY <1>1, OthersDoNotHold DEF IInv, Coherent, Holds
  <2> QED BY <2>1 DEF Range
<1>3. ASSUME NEW i \in owed PROVE runs[i] = 1
  BY <1>2 DEF IInv, OwedPlaced
<1> QED BY <1>3 DEF Due

LEMMA AcquireStep ==
  ASSUME IInv, [Next]_vars, NEW c \in Callers, AddCleanupInStartHook(c)
  PROVE  Contract!Next
<1>1. /\ registered' = registered + 1 /\ owed' = owed \cup {registered + 1}
      /\ UNCHANGED <<state, pc, phase, runs>>
  BY DEF AddCleanupInStartHook, Register, locals
<1>2. Holds(c) /\ Stage(c) = "start" /\ Holds(c)' /\ Stage(c)' = "start"
  BY <1>1 DEF AddCleanupInStartHook, Holds, Stage, StartPhases
<1>3. Holder = c /\ HeldStage = "start" /\ Holder' = c /\ HeldStage' = "start"
  BY <1>2, HolderAcross DEF HolderFacts
<1>4. registered \in Nat /\ registered + 1 \in CleanupIds
  BY <1>1, CleanupsType, RegisterType DEF IInv, AddCleanupInStartHook
<1>5. runs[registered + 1] = 0
  BY <1>4 DEF IInv, CleanupOrder
<1>6. \A q \in Due : q < registered + 1
  BY <1>4 DEF IInv, OwedPlaced, Due, TypeOK, CleanupIds
<1>7. Due' = Due \cup {registered + 1} /\ registered + 1 \in Due' \ Due
  <2>1. Due' = Due \cup {registered + 1}
    BY <1>1, <1>5 DEF Due
  <2>2. registered + 1 \notin Due
    BY <1>4, <1>6
  <2> QED BY <2>1, <2>2
<1>8. Contract!Acquire(c, registered + 1)
  BY <1>1, <1>3, <1>6, <1>7 DEF Contract!Acquire
<1> QED BY <1>7, <1>8 DEF Contract!Next

LEMMA ReleaseStep ==
  ASSUME IInv, [Next]_vars, NEW c \in Callers, RunCleanup(c)
  PROVE  Contract!Next \/ UNCHANGED <<state, Holder, HeldStage, Due>>
<1> DEFINE r == Last(taken[c])
<1>1. /\ pc[c] = "unwind" /\ taken[c] # <<>> /\ runs' = [runs EXCEPT ![r] = @ + 1]
      /\ UNCHANGED <<state, pc, phase, owed>>
  BY DEF RunCleanup
<1>2. Holds(c) /\ Holds(c)' /\ Stage(c) \in {"rollback", "release"} /\ Stage(c)' = Stage(c)
  BY <1>1 DEF IInv, Coherent, TypeOK, Holds, Stage, StartPhases
<1>3. Holder = c /\ HeldStage \in {"rollback", "release"} /\ Holder' = c /\ HeldStage' = HeldStage
  BY <1>2, HolderAcross DEF HolderFacts
<1>4. taken[c] \in Seq(Int) /\ Ascending(taken[c])
  BY CleanupsType DEF IInv, CleanupOrder
<1>5. r \in Range(taken[c]) /\ \A q \in Range(taken[c]) : q <= r
  BY <1>1, <1>4, FrontAscending
<1>6. r \in CleanupIds
  BY <1>1, FrontType DEF IInv, TypeOK
<1>7. r \in 1..registered
  BY <1>5, <1>6, CleanupsType DEF IInv, CleanupOrder, CleanupIds
<1>8. runs[r] = 0 /\ runs'[r] = 1
  <2>1. runs[r] = 0
    BY <1>5, <1>7 DEF IInv, CleanupConservation
  <2> HIDE DEF r
  <2> QED BY <1>1, <1>6, <2>1 DEF IInv, TypeOK
<1>9. \A d \in Callers \ {c} : Range(taken[d]) = {}
  <2>1. \A d \in Callers \ {c} : taken[d] = <<>>
    BY <1>2, OthersDoNotHold DEF IInv, Coherent, Holds
  <2> QED BY <2>1 DEF Range
<1>10. \A q \in Due : q <= r
  <2>1. ASSUME NEW q \in Due PROVE q \in Range(taken[c])
    BY <1>1, <1>9 DEF IInv, OwedPlaced, Due
  <2> QED BY <1>5, <2>1
<1>11. Due' = Due \ {r}
  <2> HIDE DEF r
  <2> QED BY <1>1, <1>6, <1>8 DEF IInv, TypeOK, Due
<1>12. CASE r \in Due
  <2>1. Contract!Release(c, r)
    BY <1>1, <1>3, <1>10, <1>11, <1>12 DEF Contract!Release
  <2> QED BY <1>12, <2>1 DEF Contract!Next
<1>13. CASE r \notin Due
  BY <1>1, <1>3, <1>11, <1>13
<1> QED BY <1>12, <1>13

LEMMA ContractStep ==
  IInv /\ [Next]_vars => [Contract!Next]_<<state, Holder, HeldStage, Due>>
<1> SUFFICES ASSUME IInv, [Next]_vars
             PROVE  Contract!Next \/ UNCHANGED <<state, Holder, HeldStage, Due>>
  OBVIOUS
<1> DEFINE Goal == Contract!Next \/ UNCHANGED <<state, Holder, HeldStage, Due>>
<1>0. TypeOK /\ Coherent /\ HolderFacts /\ HolderFacts'
  BY HolderAcross DEF IInv
<1> USE DEF locals, history, StartPhases
<1>1. CASE UNCHANGED vars
  <2>1. UNCHANGED <<state, Due>> /\ \A c \in Callers : (Holds(c)' <=> Holds(c)) /\ Stage(c)' = Stage(c)
    BY <1>1 DEF vars, Due, Holds, Stage
  <2> QED BY <2>1, StutterStep
<1>2. ASSUME NEW c \in Callers, Aborts(c) PROVE Goal
  <2>1. UNCHANGED <<state, Due>>
    BY <1>2 DEF Aborts, Due
  <2>2. \A d \in Callers : (Holds(d)' <=> Holds(d)) /\ (Holds(d) => Stage(d)' = Stage(d))
    BY <1>0, <1>2 DEF Aborts, AbortPhase, Goto, Leave, TypeOK, Holds, Stage
  <2> QED BY <2>1, <2>2, StutterStep
<1>3. ASSUME NEW c \in Callers, SkipNilHook(c) PROVE Goal
  <2>1. UNCHANGED <<state, Due>>
    BY <1>3 DEF SkipNilHook, Due
  <2>2. \A d \in Callers : (Holds(d)' <=> Holds(d)) /\ (Holds(d) => Stage(d)' = Stage(d))
    BY <1>0, <1>3 DEF SkipNilHook, TypeOK, Holds, Stage
  <2> QED BY <2>1, <2>2, StutterStep
<1>4. ASSUME NEW c \in Callers, StartHook(c) PROVE Goal
  <2>1. UNCHANGED <<state, Due>>
    BY <1>4 DEF StartHook, Due
  <2>2. \A d \in Callers : (Holds(d)' <=> Holds(d)) /\ (Holds(d) => Stage(d)' = Stage(d))
    BY <1>0, <1>4 DEF StartHook, Goto, TypeOK, Holds, Stage
  <2> QED BY <2>1, <2>2, StutterStep
<1>5. ASSUME NEW c \in Callers, HookSucceeds(c) PROVE Goal
  <2>1. UNCHANGED <<state, Due>>
    BY <1>5 DEF HookSucceeds, Due
  <2>2. \A d \in Callers : (Holds(d)' <=> Holds(d)) /\ (Holds(d) => Stage(d)' = Stage(d))
    BY <1>0, <1>5 DEF HookSucceeds, Goto, TypeOK, Holds, Stage
  <2> QED BY <2>1, <2>2, StutterStep
<1>6. ASSUME NEW c \in Callers, InitRefused(c) PROVE Goal
  <2>1. UNCHANGED <<state, Due>>
    BY <1>6 DEF InitRefused, Due
  <2>2. \A d \in Callers : (Holds(d)' <=> Holds(d)) /\ (Holds(d) => Stage(d)' = Stage(d))
    BY <1>0, <1>6 DEF InitRefused, TypeOK, Holds, Stage
  <2> QED BY <2>1, <2>2, StutterStep
<1>7. ASSUME NEW c \in Callers, DestroyRefused(c) PROVE Goal
  <2>1. UNCHANGED <<state, Due>>
    BY <1>7 DEF DestroyRefused, Due
  <2>2. \A d \in Callers : (Holds(d)' <=> Holds(d)) /\ (Holds(d) => Stage(d)' = Stage(d))
    BY <1>0, <1>7 DEF DestroyRefused, TypeOK, Holds, Stage
  <2> QED BY <2>1, <2>2, StutterStep
<1>8. ASSUME NEW c \in Callers, SnapshotAfterStart(c) PROVE Goal
  <2>1. UNCHANGED <<state, Due>>
    BY <1>8 DEF SnapshotAfterStart, Due
  <2>2. \A d \in Callers : (Holds(d)' <=> Holds(d)) /\ (Holds(d) => Stage(d)' = Stage(d))
    BY <1>0, <1>8 DEF SnapshotAfterStart, PhaseComplete, EnterPhase, TypeOK, Holds, Stage
  <2> QED BY <2>1, <2>2, StutterStep
<1>9. ASSUME NEW c \in Callers, CancelContext(c) PROVE Goal
  <2>1. UNCHANGED <<state, Due>>
    BY <1>9 DEF CancelContext, Due
  <2>2. \A d \in Callers : (Holds(d)' <=> Holds(d)) /\ (Holds(d) => Stage(d)' = Stage(d))
    BY <1>0, <1>9 DEF CancelContext, TypeOK, Holds, Stage
  <2> QED BY <2>1, <2>2, StutterStep
<1>10. ASSUME NEW c \in Callers, DestroyReturns(c) PROVE Goal
  <2>1. UNCHANGED <<state, Due>>
    BY <1>10 DEF DestroyReturns, Due
  <2>2. \A d \in Callers : (Holds(d)' <=> Holds(d)) /\ (Holds(d) => Stage(d)' = Stage(d))
    BY <1>0, <1>10 DEF DestroyReturns, PhaseComplete, Leave, TypeOK, Holds, Stage
  <2> QED BY <2>1, <2>2, StutterStep
<1>11. ASSUME NEW c \in Callers, InitEnter(c) PROVE Goal
  <2>1. state \notin {"Initializing", "Destroying"} /\ state \in Contract!Startable /\ state' = "Initializing" /\ Due' = Due
    BY <1>11 DEF InitEnter, Startable, Contract!Startable, Due
  <2>2. Holder = NoCaller
    BY <1>0, <2>1, StartableIsFree DEF HolderFacts
  <2>3. Holds(c)' /\ Stage(c)' = "start"
    BY <1>0, <1>11 DEF InitEnter, EnterPhase, TypeOK, Holds, Stage
  <2>4. Holder' = c /\ HeldStage' = "start"
    BY <1>0, <2>3 DEF HolderFacts
  <2>5. Contract!BeginInit(c)
    BY <2>1, <2>2, <2>4 DEF Contract!BeginInit
  <2> QED BY <2>5 DEF Contract!Next
<1>12. ASSUME NEW c \in Callers, DestroyEnter(c) PROVE Goal
  <2>1. state \notin {"Initializing", "Destroying"} /\ state = "Running" /\ state' = "Destroying" /\ Due' = Due
    BY <1>12 DEF DestroyEnter, Startable, Contract!Startable, Due
  <2>2. Holder = NoCaller
    BY <1>0, <2>1, StartableIsFree DEF HolderFacts
  <2>3. Holds(c)' /\ Stage(c)' = "stop"
    BY <1>0, <1>12 DEF DestroyEnter, EnterPhase, TypeOK, Holds, Stage
  <2>4. Holder' = c /\ HeldStage' = "stop"
    BY <1>0, <2>3 DEF HolderFacts
  <2>5. Contract!BeginDestroy(c)
    BY <2>1, <2>2, <2>4 DEF Contract!BeginDestroy
  <2> QED BY <2>5 DEF Contract!Next
<1>13. ASSUME NEW c \in Callers, PublishRunning(c) PROVE Goal
  <2>1. state' = "Running" /\ Due' = Due
    BY <1>13 DEF PublishRunning, Due
  <2>2. Holds(c) /\ Stage(c) = "start"
    BY <1>0, <1>13 DEF PublishRunning, PhaseComplete, Coherent, Holds, Stage
  <2>3. \A d \in Callers : ~Holds(d)'
    BY <1>0, <1>13, <2>2, OthersDoNotHold DEF PublishRunning, PhaseComplete, Leave, TypeOK, Holds
  <2>4. Holder = c /\ HeldStage = "start" /\ Holder' = NoCaller /\ HeldStage' = "none"
    BY <1>0, <2>2, <2>3 DEF HolderFacts
  <2>5. Contract!FinishInit(c)
    BY <2>1, <2>4 DEF Contract!FinishInit, Contract!Move
  <2> QED BY <2>5 DEF Contract!Next
<1>14. ASSUME NEW c \in Callers, RevertToRunning(c) PROVE Goal
  <2>1. state' = "Running" /\ Due' = Due
    BY <1>14 DEF RevertToRunning, Due
  <2>2. Holds(c) /\ Stage(c) = "stop"
    BY <1>0, <1>14 DEF RevertToRunning, Leave, Coherent, Holds, Stage
  <2>3. \A d \in Callers : ~Holds(d)'
    BY <1>0, <1>14, <2>2, OthersDoNotHold DEF RevertToRunning, Leave, TypeOK, Holds
  <2>4. Holder = c /\ HeldStage = "stop" /\ Holder' = NoCaller /\ HeldStage' = "none"
    BY <1>0, <2>2, <2>3 DEF HolderFacts
  <2>5. Contract!AbandonDestroy(c)
    BY <2>1, <2>4 DEF Contract!AbandonDestroy, Contract!Move
  <2> QED BY <2>5 DEF Contract!Next
<1>15. ASSUME NEW c \in Callers, MarkFailed(c) PROVE Goal
  <2>1. state' = "Failed" /\ Due' = Due
    BY <1>15 DEF MarkFailed, Due
  <2>2. Holds(c) /\ Stage(c) = "rollback"
    BY <1>0, <1>15 DEF MarkFailed, Leave, Coherent, Holds, Stage
  <2>3. \A d \in Callers : ~Holds(d)'
    BY <1>0, <1>15, <2>2, OthersDoNotHold DEF MarkFailed, Leave, TypeOK, Holds
  <2>4. Holder = c /\ HeldStage = "rollback" /\ Holder' = NoCaller /\ HeldStage' = "none"
    BY <1>0, <2>2, <2>3 DEF HolderFacts
  <2>5. Due = {}
    BY <1>15, UnwoundIsPaid DEF MarkFailed
  <2>6. Contract!FinishRollback(c)
    BY <2>1, <2>4, <2>5 DEF Contract!FinishRollback, Contract!Move
  <2> QED BY <2>6 DEF Contract!Next
<1>16. ASSUME NEW c \in Callers, MarkDestroyed(c) PROVE Goal
  <2>1. state' = "Destroyed" /\ Due' = Due
    BY <1>16 DEF MarkDestroyed, Due
  <2>2. Holds(c) /\ Stage(c) = "release"
    BY <1>0, <1>16 DEF MarkDestroyed, EnterPhase, Coherent, Holds, Stage
  <2>3. \A d \in Callers : ~Holds(d)'
    BY <1>0, <1>16, <2>2, OthersDoNotHold DEF MarkDestroyed, EnterPhase, TypeOK, Holds
  <2>4. Holder = c /\ HeldStage = "release" /\ Holder' = NoCaller /\ HeldStage' = "none"
    BY <1>0, <2>2, <2>3 DEF HolderFacts
  <2>5. Due = {}
    BY <1>16, UnwoundIsPaid DEF MarkDestroyed
  <2>6. Contract!FinishDestroy(c)
    BY <2>1, <2>4, <2>5 DEF Contract!FinishDestroy, Contract!Move
  <2> QED BY <2>6 DEF Contract!Next
<1>17. ASSUME NEW c \in Callers, FailInit(c) PROVE Goal
  <2>1. state' = "Destroying" /\ Due' = Due
    BY <1>17 DEF FailInit, Due
  <2>2. Holds(c) /\ Stage(c) = "start" /\ Holds(c)' /\ Stage(c)' = "rollback"
    BY <1>0, <1>17 DEF FailInit, Goto, Coherent, TypeOK, Holds, Stage
  <2>3. Holder = c /\ HeldStage = "start" /\ Holder' = c /\ HeldStage' = "rollback"
    BY <1>0, <2>2 DEF HolderFacts
  <2>4. Contract!BeginRollback(c)
    BY <2>1, <2>3 DEF Contract!BeginRollback, Contract!Move
  <2> QED BY <2>4 DEF Contract!Next
<1>18. ASSUME NEW c \in Callers, TakeCleanups(c) PROVE Goal
  <2>1. state' = state /\ Due' = Due /\ phase' = phase /\ pc' = [pc EXCEPT ![c] = "unwind"]
    BY <1>18 DEF TakeCleanups, Goto, Due
  <2>2. CASE pc[c] = "take"
    <3>1. \A d \in Callers : (Holds(d)' <=> Holds(d)) /\ (Holds(d) => Stage(d)' = Stage(d))
      BY <1>0, <2>1, <2>2 DEF TypeOK, Coherent, Holds, Stage
    <3> QED BY <2>1, <3>1, StutterStep
  <2>3. CASE PhaseComplete(c, "BeforeDestroy")
    <3>1. Holds(c) /\ Stage(c) = "stop" /\ Holds(c)' /\ Stage(c)' = "release"
      BY <1>0, <2>1, <2>3 DEF PhaseComplete, TypeOK, Holds, Stage
    <3>2. state = "Destroying"
      BY <2>3, <3>1 DEF PhaseComplete, IInv, Ownership, StateHeldBy
    <3>3. Holder = c /\ HeldStage = "stop" /\ Holder' = c /\ HeldStage' = "release"
      BY <1>0, <3>1 DEF HolderFacts
    <3>4. Contract!CommitDestroy(c)
      BY <2>1, <3>2, <3>3 DEF Contract!CommitDestroy, Contract!Move
    <3> QED BY <3>4 DEF Contract!Next
  <2> QED BY <1>18, <2>2, <2>3 DEF TakeCleanups
<1>19. CASE AddCleanup \/ (\E p \in Phases, h \in Hooks : AddHook(p, h)) \/ (\E p \in Phases, n \in Names : RemoveHook(p, n))
  <2>1. UNCHANGED <<state, Due>> /\ \A c \in Callers : (Holds(c)' <=> Holds(c)) /\ Stage(c)' = Stage(c)
    BY <1>19 DEF AddCleanup, AddHook, RemoveHook, Due, Holds, Stage
  <2> QED BY <2>1, StutterStep
<1> QED
  BY <1>1, <1>2, <1>3, <1>4, <1>5, <1>6, <1>7, <1>8, <1>9, <1>10, <1>11,
     <1>12, <1>13, <1>14, <1>15, <1>16, <1>17, <1>18, <1>19,
     AbortsWhen, AcquireStep, ReleaseStep
  DEF Next, Step, Call, Environment

\* BaseModule implements Lifecycle under the mapping of Contract: hooks, contexts,
\* snapshots and the unlocked stretches of Init and Destroy add no behaviour that
\* the contract does not allow.
THEOREM ImplementsContract == Spec => ImplementsLifecycle
<1>1. Init => Contract!Init
  BY DEF Init, Contract!Init, Holder, HeldStage, Holds, Due
<1>2. IInv /\ [Next]_vars => [Contract!Next]_(Contract!vars)
  BY ContractStep DEF Contract!vars
<1> QED BY <1>1, <1>2, Invariance, PTL DEF Spec, ImplementsLifecycle, Contract!Spec
=============================================================================
