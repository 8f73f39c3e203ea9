----------------------------- MODULE AppRun_proofs -----------------------------
(***************************************************************************)
(* Proofs about Run, Shutdown and Health over the Manager: an application  *)
(* in which only the hook of go-shutdown calls Stop, and any number of     *)
(* goroutines call Start, at any time.                                     *)
(***************************************************************************)
EXTENDS AppRun, ManagerSerial_proofs

RunTypes == /\ run \in {"idle", "begun", "start", "wait", "stop", "describe"}
            /\ {ran, interrupted, spent, asked} \subseteq BOOLEAN
            /\ result \in {"none", "start failed", "ok", "error", "aborted", "timeout"}
            /\ named \cup probes \subseteq DOMAIN deps
            /\ by \in [Modules -> Drivers \cup {NoDriver}]

\* What the point Run is at says about the two drivers it works with.
Stages == /\ ~ran => run = "idle" /\ ~spent
          /\ pc[Runner] # "idle" => run = "start"
          /\ ~ran \/ run = "begun" => outcome[Runner] = "none"
          /\ ~spent => pc[Hook] = "idle"
          /\ run \in {"begun", "start", "wait"} => ~spent
          /\ pc[Hook] \in Down \cup {"idle", "stop"}
          /\ run = "stop" /\ pc[Hook] = "idle" => outcome[Hook] \in {"ok", "error", "aborted"}
          /\ run = "describe" => result \in {"ok", "error", "aborted", "timeout"}

\* A step outside of the Manager that fires the broadcast.
Announces == ended' = TRUE /\ UNCHANGED <<deps, started, mstate, injected, mod, locals, kept>>

\* A step of Run that is none of the Manager's.
Apart == UNCHANGED vars \/ Announces

-----------------------------------------------------------------------------
(* The steps of Run as steps of the Manager                                *)

LEMMA StepsOfRun ==
  ASSUME RunNext \/ UNCHANGED runVars
  PROVE  \/ Apart
         \/ RunCallsStart
         \/ BeginStop(Hook) /\ Wake
         \/ Deadline
         \/ Cancel(Runner) /\ Interrupt
         \/ \E t \in Others : OtherCalls(t)
         \/ \E t \in Drivers : Drive(t)
         \/ \E t \in Drivers : \E n \in DOMAIN go[t] : Module_(t, n)
<1>1. CASE BeginRun \/ RunFails \/ RunWaits \/ HookReturns \/ TimesOut \/ RunReturns
  BY <1>1 DEF Apart, BeginRun, RunFails, RunWaits, HookReturns, TimesOut, RunReturns, locals
<1>2. CASE Wake
  BY <1>2 DEF Apart, Wake
<1>3. CASE Shutdown
  BY <1>3 DEF Apart, Announces, Announcement, Shutdown
<1>4. CASE Interrupt
  BY <1>4 DEF Apart, Interrupt
<1>5. CASE CollectProbes \/ (\E n \in Modules : HealthCheck(n))
  BY <1>5 DEF Apart, CollectProbes, HealthCheck
<1>6. CASE UNCHANGED runVars
  BY <1>6 DEF Apart, runVars
<1> QED BY <1>1, <1>2, <1>3, <1>4, <1>5, <1>6 DEF RunNext, RunStep

LEMMA RunStepsAreManagers ==
  ASSUME RunNext \/ UNCHANGED runVars
  PROVE  Apart \/ \E t \in Drivers : StepOf(t)
<1>1. Runner \in Drivers /\ Hook \in Drivers /\ Others \subseteq Drivers
  BY RunAssumption DEF Others
<1>2. RunCallsStart => StepOf(Runner)
  BY DEF RunCallsStart, StepOf, Call
<1>3. BeginStop(Hook) => StepOf(Hook)
  BY DEF StepOf, Call
<1>4. Deadline => StepOf(Hook)
  BY DEF Deadline, StepOf
<1>5. Cancel(Runner) => StepOf(Runner)
  BY DEF StepOf
<1>6. \A t \in Others : OtherCalls(t) => StepOf(t)
  BY DEF OtherCalls, StepOf
<1>7. \A t \in Drivers : Drive(t) => StepOf(t)
  BY DEF Drive, StepOf
<1>8. \A t \in Drivers : \A n \in DOMAIN go[t] : Module_(t, n) => StepOf(t)
  BY DEF Module_, StepOf
<1> QED BY <1>1, <1>2, <1>3, <1>4, <1>5, <1>6, <1>7, <1>8, StepsOfRun

LEMMA ApartKeeps ==
  ASSUME Apart
  PROVE  /\ LayingOut => LayingOut'
         /\ \A t \in Drivers : (Engaged(t)' <=> Engaged(t)) /\ (Finishing(t)' <=> Finishing(t))
         /\ OneByOne => OneByOne'
         /\ \A n \in Modules : \A p : At(p, n)' = At(p, n)
         /\ UNCHANGED <<deps, started, mstate, injected, mod, locals, kept>>
<1>1. UNCHANGED <<deps, started, mstate, injected, mod, locals, kept>>
  BY DEF Apart, Announces, vars, fields
<1>2. UNCHANGED <<deps, started, mstate, injected, mod, pc, rank, todo, go, failed, canceled, aborting, outcome, kept>>
  BY <1>1 DEF locals
<1>3. ended' = ended \/ ended' = TRUE
  BY DEF Apart, Announces, vars, fields
<1>4. ASSUME LayingOut PROVE LayingOut'
  <2>1. Types'
    <3>1. ended' \in BOOLEAN
      BY <1>3, <1>4 DEF LayingOut, Types, FieldTypes
    <3> QED BY <1>2, <1>4, <3>1 DEF LayingOut, Types, FieldTypes, LocalTypes
  <2>2. ASSUME NEW t \in Drivers PROVE Fits(t)'
    <3>1. Fits(t)
      BY <1>4 DEF LayingOut, Shape
    <3> QED BY <1>2, <1>3, <3>1 DEF Fits, LayerDone
  <2>3. Ownership'
    BY <1>2, <1>4 DEF LayingOut, Ownership, Handles
  <2> QED BY <2>1, <2>2, <2>3 DEF LayingOut, Shape
<1>5. \A t \in Drivers : (Engaged(t)' <=> Engaged(t)) /\ (Finishing(t)' <=> Finishing(t))
  BY <1>2 DEF Engaged, Finishing, LayerDone
<1>6. \A n \in Modules : \A p : At(p, n)' = At(p, n)
  BY <1>2 DEF At
<1>7. ASSUME OneByOne PROVE OneByOne'
  <2>1. StartOrder' /\ Closed'
    BY <1>2, <1>7 DEF OneByOne, StartOrder, Closed, Needs
  <2>2. Awake' /\ Alive'
    BY <1>2, <1>7 DEF OneByOne, Awake, Alive, IsUp, At
  <2>3. ASSUME NEW t \in Drivers, Engaged(t)' PROVE Progress(t)'
    <3>1. Progress(t)
      BY <1>5, <1>7, <2>3 DEF OneByOne
    <3>2. (Sorted(t)' <=> Sorted(t)) /\ (Remains(t)' <=> Remains(t)) /\ (Snapshot(t)' <=> Snapshot(t))
      BY <1>2 DEF Sorted, Remains, Snapshot, Needs
    <3>3. Climbing(t)' <=> Climbing(t)
      BY <1>2 DEF Climbing, IsUp
    <3>4. Descending(t)' <=> Descending(t)
      BY <1>2 DEF Descending, Needs
    <3> QED BY <1>2, <3>1, <3>2, <3>3, <3>4 DEF Progress
  <2> QED BY <2>1, <2>2, <2>3 DEF OneByOne
<1> QED BY <1>1, <1>4, <1>5, <1>6, <1>7

LEMMA StepIsNext ==
  ASSUME LayingOut, NEW t \in Drivers, StepOf(t)
  PROVE  [Next]_vars
  BY StepsAreOfOne

LEMMA RunKeepsLayingOut == LayingOut /\ (RunNext \/ UNCHANGED runVars) => LayingOut'
  BY LayingOutStep, ApartKeeps, RunStepsAreManagers, StepIsNext

-----------------------------------------------------------------------------
(* Where Run and its two drivers are                                       *)

LEMMA ModuleStepFrame ==
  ASSUME NEW t \in Drivers, NEW n \in DOMAIN go[t], ModuleStep(t, n)
  PROVE  UNCHANGED <<deps, injected, mstate, ended, pc, rank, todo, canceled, aborting, outcome>>
  BY DEF fields, ModuleStep, InitModule, InitRefused, InitSucceeds, InitFails, RolledBack, RecordStarted, DestroyModule,
     DestroyRefused, DestroyAbandoned, DestroyCommits, Destroyed, Forget

LEMMA DriverStepStaysIn ==
  ASSUME LayingOut, NEW t \in Drivers, DriverStep(t)
  PROVE  /\ pc[t] # "idle" /\ deps' = deps
         /\ pc[t] \in Down \cup {"stop"} =>
              /\ pc'[t] \in Down \cup {"idle"}
              /\ pc'[t] = "idle" => outcome'[t] \in {"ok", "error", "aborted"}
<1>1. pc \in [Drivers -> Points] /\ DOMAIN outcome = Drivers
  BY DEF LayingOut, Types, LocalTypes
<1> QED BY <1>1 DEF fields, Down, DriverStep, PlanStart, PlanFails, StartUnplannable, InjectContext, StartLayer, LayerStarted,
       StartFinished, Abort, ClaimStop, NothingToStop, PlanStop, StopLayer, LayerStopped, StopAborted, StopFinished,
       StopOutcome, Return, Launch, Goto, Set

LEMMA CallEffect ==
  ASSUME LayingOut, NEW t \in Drivers, Call(t) \/ Cancel(t)
  PROVE  /\ deps' = deps
         /\ StartRefused(t) => pc' = pc /\ outcome'[t] = "ErrAlreadyStarted"
         /\ BeginStart(t) => pc[t] = "idle" /\ pc'[t] = "plan" /\ outcome' = outcome
         /\ BeginStop(t) => pc[t] = "idle" /\ pc'[t] = "stop" /\ outcome' = outcome
         /\ Cancel(t) => pc' = pc /\ outcome' = outcome
  BY DEF LayingOut, Types, LocalTypes, fields, Call, StartRefused, BeginStart, BeginStop, Cancel, Goto, Set

\* A step of one driver leaves the other two where they are.
LEMMA StaysOut ==
  ASSUME LayingOut, NEW t \in Drivers, StepOf(t), NEW u \in Drivers \ {t}
  PROVE  pc'[u] = pc[u] /\ outcome'[u] = outcome[u]
  BY OthersSpared DEF LayingOut, Spares

LEMMA StagesStep ==
  LayingOut /\ RunTypes /\ Stages /\ (RunNext \/ UNCHANGED runVars) => RunTypes' /\ Stages'
<1> SUFFICES ASSUME LayingOut, RunTypes, Stages, RunNext \/ UNCHANGED runVars PROVE RunTypes' /\ Stages'
  OBVIOUS
<1> USE DEF local, history
<1>1. Runner \in Drivers /\ Hook \in Drivers /\ Runner # Hook
  BY RunAssumption
<1>2. Range(started) \subseteq DOMAIN deps
  BY DEF LayingOut, Types, FieldTypes, Range
<1>3. ASSUME UNCHANGED <<deps, local, probes, asked>>, by' \in [Modules -> Drivers \cup {NoDriver}]
      PROVE  RunTypes'
  BY <1>3 DEF RunTypes
<1>4. ASSUME UNCHANGED <<local, outcome>>, pc'[Runner] = pc[Runner], pc'[Hook] = pc[Hook]
      PROVE  Stages'
  BY <1>4 DEF Stages
<1>5. ASSUME UNCHANGED vars PROVE deps' = deps /\ started' = started /\ pc' = pc /\ outcome' = outcome
  BY <1>5 DEF vars, fields, locals
<1>6. CASE UNCHANGED runVars
  BY <1>3, <1>4, <1>5, <1>6 DEF runVars, RunTypes
<1>7. CASE BeginRun
  BY <1>5, <1>7 DEF BeginRun, RunTypes, Stages
<1>8. CASE RunCallsStart
  <2>1. Call(Runner) /\ StepOf(Runner)
    BY <1>8 DEF RunCallsStart, Call, StepOf
  <2>2. pc'[Hook] = pc[Hook] /\ deps' = deps
    BY <1>1, <2>1, StaysOut, CallEffect
  <2>3. outcome'[Runner] \in {"none", "ErrAlreadyStarted"} /\ outcome'[Hook] = outcome[Hook]
    BY <1>1, <1>8, <2>1, StaysOut, CallEffect DEF RunCallsStart, Stages
  <2>4. ran
    BY <1>8 DEF RunCallsStart, Stages
  <2> QED BY <1>8, <2>2, <2>3, <2>4 DEF RunCallsStart, RunTypes, Stages
<1>9. CASE RunFails
  <2>1. ran /\ ~spent
    BY <1>9 DEF RunFails, StartReturned, Stages
  <2> QED BY <1>5, <1>9, <2>1 DEF RunFails, StartReturned, RunTypes, Stages
<1>10. CASE RunWaits
  BY <1>5, <1>10 DEF RunWaits, StartReturned, RunTypes, Stages
<1>11. CASE Wake
  <2>1. run = "wait" /\ ~spent /\ ran /\ pc[Runner] = "idle"
    BY <1>11 DEF Wake, Stages
  <2>2. /\ run' = "stop" /\ BeginStop(Hook) /\ spent' = TRUE
        /\ UNCHANGED <<ran, interrupted, result, named, probes, asked, by>>
    BY <1>11, <2>1 DEF Wake
  <2>3. Call(Hook) /\ StepOf(Hook)
    BY <2>2 DEF Call, StepOf
  <2>4. pc'[Runner] = pc[Runner] /\ outcome'[Runner] = outcome[Runner]
    BY <1>1, <2>3, StaysOut
  <2>5. pc'[Hook] = "stop" /\ deps' = deps
    BY <1>1, <2>2, <2>3, CallEffect
  <2> QED BY <2>1, <2>2, <2>4, <2>5 DEF RunTypes, Stages, Down
<1>12. CASE HookReturns
  <2>1. outcome[Hook] \in {"ok", "error", "aborted"}
    BY <1>12 DEF HookReturns, Stages
  <2> QED BY <1>5, <1>12, <2>1 DEF HookReturns, RunTypes, Stages
<1>13. CASE TimesOut
  BY <1>5, <1>13 DEF TimesOut, RunTypes, Stages
<1>14. CASE RunReturns
  <2>1. ran
    BY <1>14 DEF RunReturns, Stages
  <2>2. named' \subseteq DOMAIN deps
    BY <1>2, <1>14 DEF RunReturns, Remaining
  <2> QED BY <1>5, <1>14, <2>1, <2>2 DEF RunReturns, RunTypes, Stages
<1>15. CASE Shutdown
  <2>1. asked' = TRUE /\ UNCHANGED <<deps, locals, local, probes, by>>
    BY <1>15 DEF Shutdown
  <2> QED BY <1>4, <2>1 DEF RunTypes, locals
<1>16. CASE Interrupt
  <2>1. /\ run \in {"start", "wait"} /\ interrupted' = TRUE /\ asked' = TRUE
        /\ UNCHANGED <<ran, run, spent, result, named, probes, by>>
    BY <1>16 DEF Interrupt
  <2>2. deps' = deps /\ pc' = pc /\ outcome' = outcome
    BY <1>1, <1>5, <1>16, CallEffect DEF Interrupt
  <2> QED BY <2>1, <2>2 DEF RunTypes, Stages
<1>17. CASE Deadline
  <2>1. deps' = deps /\ pc' = pc /\ outcome' = outcome
    BY <1>1, <1>17, CallEffect DEF Deadline
  <2> QED BY <1>3, <1>4, <1>17, <2>1 DEF Deadline, RunTypes
<1>18. CASE CollectProbes
  BY <1>2, <1>4, <1>5, <1>18 DEF CollectProbes, Probed, RunTypes
<1>19. ASSUME NEW n \in Modules, HealthCheck(n) PROVE RunTypes' /\ Stages'
  BY <1>4, <1>5, <1>19 DEF HealthCheck, RunTypes
<1>20. ASSUME NEW t \in Others, OtherCalls(t) PROVE RunTypes' /\ Stages'
  <2>1. t \in Drivers /\ t # Runner /\ t # Hook /\ StepOf(t)
    BY <1>20 DEF Others, OtherCalls, StepOf
  <2>2. /\ pc'[Runner] = pc[Runner] /\ outcome'[Runner] = outcome[Runner]
        /\ pc'[Hook] = pc[Hook] /\ outcome'[Hook] = outcome[Hook]
    BY <1>1, <2>1, StaysOut
  <2>3. deps' = deps
    BY <1>20, <2>1, CallEffect DEF OtherCalls
  <2> QED BY <1>3, <1>20, <2>2, <2>3 DEF OtherCalls, RunTypes, Stages
<1>21. ASSUME NEW t \in Drivers, Drive(t) PROVE RunTypes' /\ Stages'
  <2>1. StepOf(t) /\ DriverStep(t) /\ UNCHANGED <<local, probes, history>>
    BY <1>21 DEF Drive, StepOf
  <2>2. deps' = deps /\ pc[t] # "idle"
    BY <2>1, DriverStepStaysIn
  <2>3. Runner # t => pc'[Runner] = pc[Runner] /\ outcome'[Runner] = outcome[Runner]
    BY <1>1, <2>1, StaysOut
  <2>4. Hook # t => pc'[Hook] = pc[Hook] /\ outcome'[Hook] = outcome[Hook]
    BY <1>1, <2>1, StaysOut
  <2>5. Hook = t => /\ pc'[Hook] \in Down \cup {"idle"} /\ spent
                    /\ pc'[Hook] = "idle" => outcome'[Hook] \in {"ok", "error", "aborted"}
    BY <1>1, <2>1, <2>2, DriverStepStaysIn DEF Stages
  <2>6. Runner = t => run = "start" /\ ran
    BY <2>2 DEF Stages
  <2>7. RunTypes'
    BY <1>3, <2>1, <2>2 DEF RunTypes
  <2> QED BY <1>1, <2>1, <2>3, <2>4, <2>5, <2>6, <2>7 DEF Stages
<1>22. ASSUME NEW t \in Drivers, NEW n \in DOMAIN go[t], Module_(t, n) PROVE RunTypes' /\ Stages'
  <2>1. UNCHANGED <<deps, pc, outcome, local, probes, asked>>
    BY <1>22, ModuleStepFrame DEF Module_
  <2>2. by' \in [Modules -> Drivers \cup {NoDriver}]
    BY <1>22 DEF Module_, RunTypes
  <2> QED BY <1>3, <1>4, <2>1, <2>2
<1> QED BY <1>6, <1>7, <1>8, <1>9, <1>10, <1>11, <1>12, <1>13, <1>14, <1>15, <1>16, <1>17, <1>18, <1>19, <1>20, <1>21, <1>22
        DEF RunNext, RunStep

LEMMA RunInitSettled == RunInit => LayingOut /\ RunTypes /\ Stages
<1> SUFFICES ASSUME RunInit PROVE LayingOut /\ RunTypes /\ Stages
  OBVIOUS
<1>1. LayingOut
  BY InitLaysOut DEF RunInit
<1>2. RunTypes
  BY DEF RunInit, RunTypes
<1>3. Stages
  BY RunAssumption DEF RunInit, Init, Stages
<1> QED BY <1>1, <1>2, <1>3

\* The locals of Start and Stop fit the point they are at, as without Run, and Run
\* knows where its own calls are.
THEOREM RunInvariance == RunSpec => [](LayingOut /\ RunTypes /\ Stages)
  BY RunInitSettled, RunKeepsLayingOut, StagesStep, PTL DEF RunSpec

\* Every variable has its type; what Run returns is what the hook of go-shutdown
\* returned, never the outcome of another call.
THEOREM RunTypeCorrect == RunSpec => []RunTypeOK
<1>1. LayingOut /\ RunTypes => RunTypeOK
  BY LayingOutTypes DEF RunTypes, RunTypeOK
<1> QED BY <1>1, RunInvariance, PTL

\* Modules are injected before they initialize, and the shutdown is announced before
\* the first teardown, whoever else calls Start and Stop while Run goes on.
THEOREM RunPrepares == RunSpec => [](InjectedBeforeInit /\ AnnouncedFirst)
  BY InjectsBeforeInit, AnnouncesFirst, RunInvariance, PTL

\* Run, and what interrupts it, drives every module as its contract allows.
THEOREM RunKeepsContracts == RunSpec => KeepsContracts
<1>1. LayingOut /\ LayingOut' /\ [RunNext]_runVars =>
        \A n \in Modules : Module(n)!Next \/ UNCHANGED Module(n)!vars
  <2> SUFFICES ASSUME LayingOut, LayingOut', [RunNext]_runVars, NEW n \in Modules
               PROVE  Module(n)!Next \/ UNCHANGED Module(n)!vars
    OBVIOUS
  <2>1. CASE Apart
    <3>1. UNCHANGED <<mod, go>>
      BY <2>1, ApartKeeps DEF locals
    <3>2. UNCHANGED <<mod[n], Owner(n), Stage(n)>>
      BY <3>1 DEF Owner, Stage, At
    <3> QED BY <3>2 DEF Module!vars
  <2>2. CASE \E t \in Drivers : StepOf(t)
    BY <2>2, StepIsNext, StepKeepsContracts
  <2> QED BY <2>1, <2>2, RunStepsAreManagers
<1>2. RunInit => \A n \in Modules : Module(n)!Init
  BY InitKeepsContracts DEF RunInit
<1> QED BY <1>1, <1>2, RunInvariance, PTL DEF RunSpec, KeepsContracts

-----------------------------------------------------------------------------
(* Only the hook calls Stop                                                *)

OnlyHookStops == \A t \in Drivers \ {Hook} : pc[t] \in Down \cup {"stop"} => aborting[t]

\* Run waits: the manager is running and nobody changes it.
Quiet == run = "wait" \/ StartReturned(TRUE) => mstate = "Running" /\ \A t \in Drivers : ~Engaged(t)

HookStops == pc[Hook] = "stop" => mstate = "Running"

Settled == LayingOut /\ Stages /\ OneByOne /\ Serial /\ OnlyHookStops /\ Quiet /\ HookStops

LEMMA OnlyHookStopsStep ==
  ASSUME Stoppers \subseteq {Hook}, LayingOut, OnlyHookStops, NEW t \in Drivers, StepOf(t)
  PROVE  OnlyHookStops'
<1>1. pc \in [Drivers -> Points] /\ aborting \in [Drivers -> BOOLEAN]
  BY DEF LayingOut, Types, LocalTypes
<1>2. \A u \in Drivers \ {t} : pc'[u] = pc[u] /\ aborting'[u] = aborting[u]
  BY OthersSpared DEF LayingOut, Spares
<1>3. t # Hook /\ pc'[t] \in Down \cup {"stop"} => aborting'[t]
  <2> SUFFICES ASSUME t # Hook, pc'[t] \in Down \cup {"stop"} PROVE aborting'[t]
    OBVIOUS
  <2>1. CASE \E n \in DOMAIN go[t] : ModuleStep(t, n)
    BY <2>1, ModuleStepFrame DEF OnlyHookStops
  <2>2. CASE DriverStep(t)
    BY <1>1, <2>2 DEF OnlyHookStops, Down, DriverStep, PlanStart, PlanFails, StartUnplannable, InjectContext, StartLayer,
       LayerStarted, StartFinished, Abort, ClaimStop, NothingToStop, PlanStop, StopLayer, LayerStopped, StopAborted,
       StopFinished, Return, Launch, Goto, Set
  <2>3. CASE Call(t) \/ Cancel(t)
    BY <1>1, <2>3 DEF OnlyHookStops, Down, Call, StartRefused, BeginStart, BeginStop, Cancel, Goto, Set
  <2> QED BY <2>1, <2>2, <2>3 DEF StepOf
<1> QED BY <1>2, <1>3 DEF OnlyHookStops

\* Start is accepted only when nobody is engaged, the hook included.
LEMMA StartFindsQuiet ==
  ASSUME Settled, NEW t \in Drivers, BeginStart(t), NEW u \in Drivers
  PROVE  ~Engaged(u)
<1>1. MayStart
  BY DEF BeginStart
<1>2. pc[u] = "stop" => aborting[u]
  BY <1>1 DEF Settled, OnlyHookStops, HookStops, MayStart
<1> QED BY <1>1, <1>2, StartFindsNobodyEngaged DEF Settled

\* BeginStop is the step of the hook, when Run is woken and not before.
LEMMA StopIsWoken ==
  ASSUME Stoppers \subseteq {Hook}, Settled, RunNext, NEW t \in Drivers, BeginStop(t), pc'[t] # pc[t]
  PROVE  t = Hook /\ Wake /\ run = "wait" /\ run' = "stop" /\ mstate' = mstate
<1>1. t = Hook /\ pc[Hook] = "idle" /\ mstate' = mstate
  BY DEF BeginStop
<1>2. ~Apart
  <2>1. ASSUME Apart PROVE pc' = pc
    BY <2>1, ApartKeeps DEF locals
  <2> QED BY <2>1
<1>3. ASSUME NEW u \in Drivers, StepOf(u), u # Hook PROVE FALSE
  BY <1>1, <1>3, RunAssumption, StaysOut DEF Settled
<1>4. Wake
  <2>1. ~RunCallsStart
    BY <1>3, RunAssumption DEF RunCallsStart, StepOf, Call
  <2>2. ~Cancel(Hook) /\ ~Cancel(Runner)
    BY <1>1, <1>3, RunAssumption DEF Cancel, StepOf
  <2>3. \A u \in Others : ~OtherCalls(u)
    BY <1>3 DEF Others, OtherCalls, StepOf
  <2>4. \A u \in Drivers : ~Drive(u)
    BY <1>1, <1>3, DriverStepStaysIn DEF Drive, StepOf, Settled
  <2>5. \A u \in Drivers : \A n \in DOMAIN go[u] : ~Module_(u, n)
    BY <1>1, ModuleStepFrame DEF Module_
  <2> QED BY <1>2, <2>1, <2>2, <2>3, <2>4, <2>5, StepsOfRun DEF Deadline
<1> QED BY <1>1, <1>4 DEF Wake, Settled, Stages

LEMMA RunKeepsSerial ==
  ASSUME Stoppers \subseteq {Hook}, Settled, RunNext \/ UNCHANGED runVars
  PROVE  Serial' /\ OnlyHookStops'
<1>1. CASE Apart
  <2>1. /\ \A t \in Drivers : Engaged(t)' <=> Engaged(t)
        /\ pc' = pc /\ aborting' = aborting
    BY <1>1, ApartKeeps DEF locals
  <2> QED BY <2>1 DEF Settled, Serial, OnlyHookStops
<1>2. CASE ~Apart
  <2>1. PICK t \in Drivers : StepOf(t)
    BY <1>2, RunStepsAreManagers
  <2>2. RunNext
    BY <1>2 DEF Apart, runVars
  <2>3. BeginStart(t) => \A u \in Drivers : ~Engaged(u)
    BY StartFindsQuiet
  <2>4. BeginStop(t) => pc'[t] # pc[t]
    BY <2>1, CallEffect DEF Settled, Call
  <2>5. BeginStop(t) => \A u \in Drivers : ~Engaged(u)
    BY <2>2, <2>4, StopIsWoken DEF Settled, Quiet
  <2> QED BY <2>1, <2>3, <2>5, SerialKept, OnlyHookStopsStep DEF Settled
<1> QED BY <1>1, <1>2

LEMMA RunKeepsOneByOne ==
  ASSUME Settled, Serial', RunNext \/ UNCHANGED runVars
  PROVE  OneByOne'
  BY RunStepsAreManagers, ApartKeeps, OneByOneStep, StepIsNext DEF Settled

\* Once the manager is running with nobody engaged, only the hook changes that.
LEMMA QuietLasts ==
  ASSUME Stoppers \subseteq {Hook}, Settled, mstate = "Running", \A u \in Drivers : ~Engaged(u),
         NEW t \in Drivers, StepOf(t), ~BeginStop(t)
  PROVE  mstate' = "Running" /\ \A u \in Drivers : ~Engaged(u)'
<1>1. ~BeginStart(t)
  BY DEF BeginStart, MayStart
<1>2. ~Engaged(t)' /\ mstate' = mstate
  BY <1>1, OutOfTheWay DEF Settled
<1>3. \A u \in Drivers \ {t} : Engaged(u)' <=> Engaged(u)
  BY OthersSpared, SparedStaysEngaged DEF Settled, LayingOut
<1> QED BY <1>2, <1>3

\* The Start of Run that succeeds leaves nobody engaged.
LEMMA StartLeavesQuiet ==
  ASSUME Settled, Serial', DriverStep(Runner), pc[Runner] \notin {"idle"}, pc'[Runner] = "idle", outcome'[Runner] = "ok"
  PROVE  mstate' = "Running" /\ \A u \in Drivers : ~Engaged(u)'
<1>1. Runner \in Drivers /\ Runner # Hook /\ StepOf(Runner)
  BY RunAssumption DEF StepOf
<1>2. pc \in [Drivers -> Points] /\ aborting \in [Drivers -> BOOLEAN] /\ DOMAIN outcome = Drivers
  BY DEF Settled, LayingOut, Types, LocalTypes
<1>3. StartFinished(Runner)
  <2>1. pc[Runner] \in Down \cup {"stop"} => aborting[Runner]
    BY <1>1 DEF Settled, OnlyHookStops
  <2> QED BY <1>1, <1>2, <2>1 DEF Down, DriverStep, PlanStart, PlanFails, StartUnplannable, InjectContext, StartLayer,
       LayerStarted, Abort, ClaimStop, NothingToStop, PlanStop, StopLayer, LayerStopped, StopAborted,
       StopFinished, StopOutcome, Return, Launch, Goto, Set
<1>4. mstate' = "Running" /\ Engaged(Runner)
  BY <1>3 DEF StartFinished, Engaged, Finishing
<1>5. \A u \in Drivers \ {Runner} : ~Engaged(u)
  BY <1>1, <1>4 DEF Settled, Serial
<1>6. \A u \in Drivers \ {Runner} : Engaged(u)' <=> Engaged(u)
  BY <1>1, OthersSpared, SparedStaysEngaged DEF Settled, LayingOut
<1> QED BY <1>4, <1>5, <1>6 DEF Engaged

LEMMA QuietStep ==
  ASSUME Stoppers \subseteq {Hook}, Settled, Serial', RunNext \/ UNCHANGED runVars
  PROVE  Quiet'
<1> USE DEF local
<1>1. Runner \in Drivers /\ Hook \in Drivers /\ Runner # Hook /\ LayingOut
  BY RunAssumption DEF Settled
<1> SUFFICES ASSUME run' = "wait" \/ (run' = "start" /\ pc'[Runner] = "idle" /\ outcome'[Runner] = "ok")
             PROVE  mstate' = "Running" /\ \A u \in Drivers : ~Engaged(u)'
  BY DEF Quiet, StartReturned
<1>2. run = "wait" \/ (run = "start" /\ pc[Runner] = "idle" /\ outcome[Runner] = "ok") =>
        mstate = "Running" /\ \A u \in Drivers : ~Engaged(u)
  BY DEF Settled, Quiet, StartReturned
<1>3. ASSUME NEW t \in Drivers, StepOf(t), ~BeginStop(t), run' = run, pc'[Runner] = pc[Runner],
             outcome'[Runner] = outcome[Runner]
      PROVE  mstate' = "Running" /\ \A u \in Drivers : ~Engaged(u)'
  BY <1>2, <1>3, QuietLasts
<1>4. CASE Apart
  <2>1. mstate' = mstate /\ UNCHANGED <<pc, outcome>> /\ \A u \in Drivers : Engaged(u)' <=> Engaged(u)
    BY <1>4, ApartKeeps DEF locals
  <2>2. CASE run' = run
    BY <1>2, <2>1, <2>2
  <2>3. CASE RunWaits
    BY <1>2, <2>1, <2>3 DEF RunWaits, StartReturned
  <2>4. run' = run \/ RunWaits
    <3>1. CASE RunCallsStart
      BY <1>1, <2>1, <3>1 DEF RunCallsStart, BeginStart, StartRefused, Goto, Set, LayingOut, Types, LocalTypes
    <3>2. CASE ~RunCallsStart
      BY <3>2 DEF runVars, RunNext, RunStep, BeginRun, RunFails, Wake, HookReturns, TimesOut, RunReturns, Shutdown,
         Interrupt, Deadline, CollectProbes, HealthCheck, OtherCalls, Drive, Module_
    <3> QED BY <3>1, <3>2
  <2> QED BY <2>2, <2>3, <2>4
<1>5. ~RunCallsStart
  BY <1>1 DEF RunCallsStart, BeginStart, StartRefused, Goto, Set, LayingOut, Types, LocalTypes
<1>6. ~Wake
  BY DEF Wake
<1>7. CASE Deadline
  BY <1>1, <1>3, <1>7, CallEffect DEF Deadline, StepOf, Cancel, BeginStop
<1>8. CASE Cancel(Runner) /\ Interrupt
  BY <1>1, <1>3, <1>8, CallEffect DEF Interrupt, StepOf, Cancel, BeginStop
<1>9. ASSUME NEW t \in Others, OtherCalls(t) PROVE mstate' = "Running" /\ \A u \in Drivers : ~Engaged(u)'
  <2>1. t \in Drivers /\ t # Runner /\ t # Hook /\ StepOf(t)
    BY <1>9 DEF Others, OtherCalls, StepOf
  <2>2. ~BeginStop(t)
    BY <2>1 DEF BeginStop
  <2> QED BY <1>1, <1>3, <1>9, <2>1, <2>2, StaysOut DEF OtherCalls
<1>10. ASSUME NEW t \in Drivers, Drive(t) PROVE mstate' = "Running" /\ \A u \in Drivers : ~Engaged(u)'
  <2>1. StepOf(t) /\ DriverStep(t) /\ run' = run /\ pc[t] # "idle" /\ ~BeginStop(t)
    BY <1>1, <1>10, DriverStepStaysIn DEF Drive, StepOf, BeginStop
  <2>2. CASE t # Runner
    BY <1>1, <1>3, <2>1, <2>2, StaysOut
  <2>3. CASE t = Runner
    <3>1. run = "start"
      BY <2>1, <2>3 DEF Settled, Stages
    <3> QED BY <2>1, <2>3, <3>1, StartLeavesQuiet
  <2> QED BY <2>2, <2>3
<1>11. ASSUME NEW t \in Drivers, NEW n \in DOMAIN go[t], Module_(t, n)
       PROVE  mstate' = "Running" /\ \A u \in Drivers : ~Engaged(u)'
  <2>1. StepOf(t) /\ run' = run /\ pc' = pc /\ outcome' = outcome
    BY <1>11, ModuleStepFrame DEF Module_, StepOf
  <2>2. ~BeginStop(t)
    BY <1>1, <2>1, CallEffect DEF Call
  <2> QED BY <1>3, <2>1, <2>2
<1> QED BY <1>4, <1>5, <1>6, <1>7, <1>8, <1>9, <1>10, <1>11, StepsOfRun

LEMMA HookStopsStep ==
  ASSUME Stoppers \subseteq {Hook}, Settled, Serial', RunNext \/ UNCHANGED runVars
  PROVE  HookStops'
<1>1. Hook \in Drivers /\ LayingOut
  BY RunAssumption DEF Settled
<1> SUFFICES ASSUME pc'[Hook] = "stop" PROVE mstate' = "Running"
  BY DEF HookStops
<1>2. CASE Apart
  BY <1>2, ApartKeeps DEF locals, Settled, HookStops
<1>3. ASSUME ~Apart, NEW t \in Drivers, StepOf(t) PROVE mstate' = "Running"
  <2>1. RunNext
    BY <1>3 DEF Apart, runVars
  <2>2. CASE t # Hook
    <3>1. pc[Hook] = "stop" /\ Engaged(Hook)
      BY <1>1, <1>3, <2>2, StaysOut DEF Engaged, Finishing
    <3> QED BY <1>1, <1>3, <2>2, <3>1, NobodyInterferes DEF Settled, HookStops
  <2>3. CASE t = Hook
    <3>1. ~DriverStep(Hook)
      BY <1>1, DriverStepStaysIn DEF Settled, Stages, Down
    <3>2. CASE BeginStop(Hook)
      <4>1. pc'[Hook] # pc[Hook]
        BY <1>1, <3>2, CallEffect DEF Call
      <4> QED BY <1>1, <2>1, <3>2, <4>1, StopIsWoken DEF Settled, Quiet
    <3>3. ~BeginStart(Hook)
      BY <1>1, CallEffect DEF Call
    <3>4. CASE StartRefused(Hook) \/ Cancel(Hook)
      BY <3>4 DEF StartRefused, Cancel, fields, Settled, HookStops
    <3>5. CASE \E n \in DOMAIN go[Hook] : ModuleStep(Hook, n)
      BY <1>1, <3>5, ModuleStepFrame DEF Settled, HookStops
    <3> QED BY <1>3, <2>3, <3>1, <3>2, <3>3, <3>4, <3>5 DEF StepOf, Call
  <2> QED BY <2>2, <2>3
<1> QED BY <1>2, <1>3, RunStepsAreManagers

LEMMA SettledStep ==
  ASSUME Stoppers \subseteq {Hook}
  PROVE  Settled /\ RunTypes /\ (RunNext \/ UNCHANGED runVars) => Settled'
<1> SUFFICES ASSUME Settled, RunTypes, RunNext \/ UNCHANGED runVars PROVE Settled'
  OBVIOUS
<1>1. LayingOut' /\ Stages'
  BY RunKeepsLayingOut, StagesStep DEF Settled
<1>2. Serial' /\ OnlyHookStops'
  BY RunKeepsSerial
<1>3. OneByOne'
  BY <1>2, RunKeepsOneByOne
<1>4. Quiet' /\ HookStops'
  BY <1>2, QuietStep, HookStopsStep
<1> QED BY <1>1, <1>2, <1>3, <1>4 DEF Settled

\* While only the hook of go-shutdown calls Stop, the calls never overlap: Run waits
\* with the manager running, so every other Start is refused until the hook is done.
THEOREM RunIsSerial ==
  ASSUME Stoppers \subseteq {Hook}
  PROVE  RunSpec => []Settled
<1>1. RunInit => Settled
  <2> SUFFICES ASSUME RunInit PROVE Settled
    OBVIOUS
  <2>1. \A t \in Drivers : ~Engaged(t) /\ pc[t] = "idle"
    BY DEF RunInit, Init, Engaged
  <2>2. OneByOne /\ Init
    BY InitIsOneByOne DEF RunInit
  <2>3. run = "idle" /\ Hook \in Drivers
    BY RunAssumption DEF RunInit
  <2> QED BY <2>1, <2>2, <2>3, RunInitSettled DEF Settled, Serial, OnlyHookStops, Quiet, StartReturned, HookStops, Down
<1>2. Settled /\ LayingOut /\ RunTypes /\ Stages /\ [RunNext]_runVars => Settled'
  BY SettledStep
<1> QED BY <1>1, <1>2, RunInvariance, PTL DEF RunSpec

\* A later Stop, the one of the hook or of a Start that rolls back, finds everything
\* that is up, whoever called Start.
THEOREM RunUpIsStarted ==
  ASSUME Stoppers \subseteq {Hook}
  PROVE  RunSpec => []RunningAreStarted
<1>1. Settled => RunningAreStarted
  BY DEF Settled, LayingOut, Types, FieldTypes, OneByOne, Awake, RunningAreStarted
<1> QED BY <1>1, RunIsSerial, PTL

\* Modules go down before what they depend on, at the shutdown and in a rollback.
THEOREM RunDependentsFirst ==
  ASSUME Stoppers \subseteq {Hook}
  PROVE  RunSpec => []StopsBeforeDependencies
  BY DestroysBeforeDependencies, RunIsSerial, PTL DEF Settled

\* Modules come up after what they depend on.
THEOREM RunDependenciesFirst ==
  ASSUME Stoppers \subseteq {Hook}
  PROVE  RunSpec => []StartsAfterDependencies
  BY InitsAfterDependencies, RunIsSerial, PTL DEF Settled

\* The list m.started is in order at every moment of a Run: no module is on it twice
\* or without being up, what is up is closed under dependency when the manager is
\* Running, and two modules of which one needs the other are never torn down at once.
THEOREM RunKeepsTheList ==
  ASSUME Stoppers \subseteq {Hook}
  PROVE  RunSpec => [](StartedOnce /\ StartedAreUp /\ RunningMeansComplete /\ TeardownsAreOrdered)
<1>1. Settled => StartedOnce /\ StartedAreUp /\ RunningMeansComplete /\ TeardownsAreOrdered
  BY ListedOnce, ListedAreUp, AllThereWhenRunning, TornDownInTurn DEF Settled
<1> QED BY <1>1, RunIsSerial, PTL

\* No Start is let in on modules that are up, also when one is called while the
\* application is being shut down.
THEOREM RunStartsClean ==
  ASSUME Stoppers \subseteq {Hook}
  PROVE  RunSpec => StartsFromNothing
<1>1. Settled /\ [RunNext]_runVars =>
        [mstate # "Starting" /\ mstate' = "Starting" => \A n \in Modules : mod[n] \in Startable \/ n \in kept]_vars
  <2> SUFFICES ASSUME Settled, [RunNext]_runVars, mstate # "Starting", mstate' = "Starting"
               PROVE  \A n \in Modules : mod[n] \in Startable \/ n \in kept
    OBVIOUS
  <2>1. ~Apart
    BY ApartKeeps
  <2> QED BY <2>1, RunStepsAreManagers, StepIsNext, AcceptedStartFindsNothing DEF Settled
<1> QED BY <1>1, RunIsSerial, PTL DEF RunSpec, StartsFromNothing

-----------------------------------------------------------------------------
(* Health                                                                  *)

LEMMA StaysUpUntilEnded ==
  ASSUME LayingOut, ~ended, NEW t \in Drivers, StepOf(t), NEW n \in Modules, mod[n] = "Running"
  PROVE  mod'[n] = "Running"
<1>1. DOMAIN mod = Modules
  BY DEF LayingOut, Types, FieldTypes
<1>2. CASE DriverStep(t) \/ Call(t) \/ Cancel(t)
  BY <1>2, HandsOff DEF LayingOut
<1>3. ASSUME NEW m \in DOMAIN go[t], ModuleStep(t, m) PROVE mod'[n] = "Running"
  <2>1. ~DestroyModule(t, m)
    BY DEF DestroyModule, LayingOut, Shape, Fits, Down
  <2>2. m = n => ~Handles(t, m)
    BY DEF LayingOut, Ownership
  <2> QED BY <1>1, <1>3, <2>1, <2>2 DEF fields, Set, Handles, Handling, Advance, ModuleStep, InitModule, MayInit, Startable,
       InitRefused, InitSucceeds, InitFails, RolledBack, RecordStarted, DestroyRefused, DestroyAbandoned,
       DestroyCommits, Destroyed, Forget
<1> QED BY <1>2, <1>3 DEF StepOf

LEMMA ProbesStep ==
  Settled /\ RunTypes /\ ProbesUpOrEnding /\ (RunNext \/ UNCHANGED runVars) => ProbesUpOrEnding'
<1> SUFFICES ASSUME Settled, RunTypes, ProbesUpOrEnding, RunNext \/ UNCHANGED runVars, ~ended', NEW n \in probes'
             PROVE  mod'[n] = "Running"
  BY DEF ProbesUpOrEnding
<1> USE DEF local, history
<1>1. LayingOut /\ DOMAIN deps \subseteq Modules
  BY DEF Settled, LayingOut, Types, FieldTypes
<1>2. ~ended
  <2>1. Apart => ended' = ended \/ ended' = TRUE
    BY DEF Apart, Announces, vars, fields
  <2>2. ASSUME NEW t \in Drivers, StepOf(t) PROVE ended' = ended \/ ended' = TRUE
    <3>1. CASE \E m \in DOMAIN go[t] : ModuleStep(t, m)
      BY <3>1, ModuleStepFrame
    <3>2. CASE DriverStep(t) \/ Call(t) \/ Cancel(t)
      BY <3>2 DEF fields, Announcement, DriverStep, Call, StartRefused, BeginStart, BeginStop, Cancel, PlanStart, PlanFails,
         StartUnplannable, InjectContext, StartLayer, LayerStarted, StartFinished, Abort, ClaimStop, NothingToStop,
         PlanStop, StopLayer, LayerStopped, StopAborted, StopFinished
    <3> QED BY <2>2, <3>1, <3>2 DEF StepOf
  <2> QED BY <2>1, <2>2, RunStepsAreManagers
<1>3. CASE n \in probes
  <2>1. mod[n] = "Running" /\ n \in Modules
    BY <1>1, <1>2, <1>3 DEF ProbesUpOrEnding, RunTypes
  <2>2. Apart => mod' = mod
    BY ApartKeeps
  <2> QED BY <1>1, <1>2, <2>1, <2>2, StaysUpUntilEnded, RunStepsAreManagers
<1>4. CASE n \notin probes
  <2>1. CollectProbes
    BY <1>4 DEF runVars, RunNext, RunStep, BeginRun, RunCallsStart, RunFails, RunWaits, Wake, HookReturns, TimesOut,
       RunReturns, Shutdown, Interrupt, Deadline, HealthCheck, OtherCalls, Drive, Module_
  <2>2. n \in Range(started) /\ mod' = mod
    BY <2>1 DEF CollectProbes, Probed, vars
  <2>3. ASSUME NEW t \in Drivers, n \in DOMAIN go[t], go[t][n] \in {"destroy", "release", "forget"} PROVE FALSE
    BY <1>2, <2>3, WhileDescending DEF Settled, LayingOut, Shape, Fits, Down
  <2> QED BY <2>2, <2>3 DEF Settled, OneByOne, Alive, At
<1> QED BY <1>3, <1>4

\* Health copies m.started under the lock and probes without it: what it comes upon
\* is up unless the shutdown has been announced by then.
THEOREM ProbesFindUp ==
  ASSUME Stoppers \subseteq {Hook}
  PROVE  RunSpec => []ProbesUpOrEnding
<1>1. RunInit => ProbesUpOrEnding
  BY DEF RunInit, ProbesUpOrEnding
<1>2. Settled /\ RunTypes /\ LayingOut /\ Stages /\ ProbesUpOrEnding /\ [RunNext]_runVars => ProbesUpOrEnding'
  BY ProbesStep
<1> QED BY <1>1, <1>2, RunIsSerial, RunInvariance, PTL DEF RunSpec

-----------------------------------------------------------------------------
(* What Run has started                                                    *)

\* The history variable by tells who brought up what is coming up.
ByTells == \A t \in Drivers, n \in Modules :
             n \in DOMAIN go[t] /\ go[t][n] \in {"init", "rollback", "append"} => by[n] = t

\* A step that is no module's, and what it leaves alone.
LEMMA NoModuleStep ==
  ASSUME LayingOut, RunNext \/ UNCHANGED runVars, \A t \in Drivers : \A n \in DOMAIN go[t] : ~Module_(t, n)
  PROVE  /\ by' = by
         /\ UNCHANGED <<mod, started, kept>>
         /\ Apart \/ \E t \in Drivers : DriverStep(t) \/ Call(t) \/ Cancel(t)
         /\ \A u \in Drivers, n \in Modules, p \in Places \ {"call", "done"} :
              (n \in DOMAIN go'[u] /\ go'[u][n] = p) <=> (n \in DOMAIN go[u] /\ go[u][n] = p)
<1>1. by' = by
  BY DEF history, runVars, RunNext, RunStep, BeginRun, RunCallsStart, RunFails, RunWaits, Wake, HookReturns, TimesOut,
     RunReturns, Shutdown, Interrupt, Deadline, CollectProbes, HealthCheck, OtherCalls, Drive
<1>2. Apart \/ \E t \in Drivers : DriverStep(t) \/ Call(t) \/ Cancel(t)
  <2>1. Runner \in Drivers /\ Hook \in Drivers /\ Others \subseteq Drivers
    BY RunAssumption DEF Others
  <2> QED BY <2>1, StepsOfRun DEF RunCallsStart, Deadline, OtherCalls, Drive, Call
<1>3. CASE Apart
  <2>1. UNCHANGED <<mod, started, kept, go>>
    BY <1>3, ApartKeeps DEF locals
  <2> QED BY <1>1, <1>2, <2>1
<1>4. ASSUME NEW t \in Drivers, DriverStep(t) \/ Call(t) \/ Cancel(t)
      PROVE  /\ UNCHANGED <<mod, started, kept>>
             /\ \A u \in Drivers, n \in Modules, p \in Places \ {"call", "done"} :
                  (n \in DOMAIN go'[u] /\ go'[u][n] = p) <=> (n \in DOMAIN go[u] /\ go[u][n] = p)
  BY <1>4, HandsOff DEF LayingOut
<1> QED BY <1>1, <1>2, <1>3, <1>4

LEMMA ModuleStepMoves ==
  ASSUME NEW t \in Drivers, NEW n \in DOMAIN go[t], ModuleStep(t, n)
  PROVE  \E from \in Places, to \in Places :
           /\ Advance(t, n, from, to)
           /\ to = "init" => InitModule(t, n)
           /\ to \in {"rollback", "append"} => from = "init" /\ ~InitModule(t, n)
  BY DEF ModuleStep, InitModule, InitRefused, InitSucceeds, InitFails, RolledBack, RecordStarted, DestroyModule,
     DestroyRefused, DestroyAbandoned, DestroyCommits, Destroyed, Forget, AfterError, Places, Advance, Set,
     Startable

LEMMA ByChanges ==
  ASSUME LayingOut, RunTypes, NEW t \in Drivers, NEW n \in DOMAIN go[t], Module_(t, n)
  PROVE  /\ \A m \in Modules \ {n} : by'[m] = by[m]
         /\ by'[n] = by[n] \/ (by'[n] = t /\ InitModule(t, n))
         /\ InitModule(t, n) => by'[n] = t
<1>1. n \in Modules /\ mod \in [Modules -> States]
  BY DEF LayingOut, Types, FieldTypes, LocalTypes
<1>2. by' = by \/ (by' = [by EXCEPT ![n] = t] /\ mod[n] # "Initializing" /\ mod'[n] = "Initializing")
  BY DEF Module_
<1>3. mod[n] # "Initializing" /\ mod'[n] = "Initializing" => InitModule(t, n)
  BY <1>1 DEF fields, Set, Module_, ModuleStep, InitRefused, InitSucceeds, InitFails, RolledBack, RecordStarted,
     DestroyModule, DestroyRefused, DestroyAbandoned, DestroyCommits, Destroyed, Forget
<1>4. InitModule(t, n) => mod[n] # "Initializing" /\ mod'[n] = "Initializing"
  BY <1>1 DEF InitModule, MayInit, Startable, Set
<1> QED BY <1>1, <1>2, <1>3, <1>4 DEF Module_, RunTypes

LEMMA ByTellsStep == Settled /\ RunTypes /\ ByTells /\ (RunNext \/ UNCHANGED runVars) => ByTells'
<1> SUFFICES ASSUME Settled, RunTypes, ByTells, RunNext \/ UNCHANGED runVars, NEW u \in Drivers, NEW m \in Modules,
                    m \in DOMAIN go'[u], go'[u][m] \in {"init", "rollback", "append"}
             PROVE  by'[m] = u
  BY DEF ByTells
<1>1. LayingOut /\ OneByOne /\ Types
  BY DEF Settled, LayingOut
<1>2. CASE \A t \in Drivers : \A n \in DOMAIN go[t] : ~Module_(t, n)
  BY <1>1, <1>2, NoModuleStep DEF ByTells, Places
<1>3. ASSUME NEW t \in Drivers, NEW n \in DOMAIN go[t], Module_(t, n) PROVE by'[m] = u
  <2>1. PICK from \in Places, to \in Places :
          /\ Advance(t, n, from, to)
          /\ to = "init" => InitModule(t, n)
          /\ to \in {"rollback", "append"} => from = "init" /\ ~InitModule(t, n)
    BY <1>3, ModuleStepMoves DEF Module_
  <2>2. /\ n \in DOMAIN go[t] /\ go[t][n] = from /\ DOMAIN go'[u] = DOMAIN go[u]
        /\ go'[u][m] = IF u = t /\ m = n THEN to ELSE go[u][m]
    BY <1>1, <2>1, AdvanceEffect
  <2>3. CASE u = t /\ m = n
    BY <1>1, <1>3, <2>1, <2>2, <2>3, ByChanges DEF ByTells
  <2>4. CASE ~(u = t /\ m = n)
    <3>1. by[m] = u /\ go[u][m] \in {"init", "rollback", "append"}
      BY <2>2, <2>4 DEF ByTells
    <3>2. CASE m # n
      BY <1>1, <1>3, <3>1, <3>2, ByChanges
    <3>3. CASE m = n
      <4>1. mod[n] \in {"Initializing", "Destroying", "Running"}
        BY <1>1, <2>2, <3>1, <3>3, WhileClimbing DEF LayingOut, Ownership, Handles, Handling, Climbing
      <4>2. ~InitModule(t, n)
        BY <4>1 DEF InitModule, MayInit, Startable
      <4> QED BY <1>1, <1>3, <3>1, <3>3, <4>2, ByChanges
    <3> QED BY <3>2, <3>3
  <2> QED BY <2>3, <2>4
<1> QED BY <1>2, <1>3

HookDone == Finishing(Hook) \/ (pc[Hook] = "idle" /\ outcome[Hook] # "aborted")

\* The shutdown went through all of its layers.
RunDone == (run = "stop" /\ HookDone) \/ (run = "describe" /\ result \in {"ok", "error"})

IsGone(n) == ~IsUp(n) /\ (mod[n] \in Startable \/ n \in kept)

Gone == RunDone => \A n \in Modules : by[n] = Runner => IsGone(n)

\* What is gone stays gone: others start it as their own.
LEMMA GoneLasts ==
  ASSUME Settled, RunTypes, ByTells, pc[Runner] = "idle", RunNext \/ UNCHANGED runVars,
         NEW n \in Modules, by[n] = Runner => IsGone(n), by'[n] = Runner
  PROVE  IsGone(n)'
<1>1. LayingOut /\ OneByOne /\ Types /\ Runner \in Drivers
  BY RunAssumption DEF Settled, LayingOut
<1>2. DOMAIN go[Runner] = {}
  BY <1>1 DEF LayingOut, Shape, Fits
<1>3. CASE \A t \in Drivers : \A m \in DOMAIN go[t] : ~Module_(t, m)
  BY <1>1, <1>3, NoModuleStep DEF IsGone, IsUp
<1>4. ASSUME NEW t \in Drivers, NEW m \in DOMAIN go[t], Module_(t, m) PROVE IsGone(n)'
  <2>1. t # Runner /\ m \in Modules /\ ModuleStep(t, m) /\ mod \in [Modules -> States]
    BY <1>1, <1>2, <1>4 DEF Module_, Types, FieldTypes, LocalTypes
  <2>2. by[n] = Runner /\ IsGone(n) /\ (m = n => ~InitModule(t, m))
    <3>1. m = n => by'[n] = by[n] /\ ~InitModule(t, m)
      BY <1>1, <1>4, <2>1, ByChanges
    <3>2. m # n => by'[n] = by[n]
      BY <1>1, <1>4, ByChanges
    <3> QED BY <3>1, <3>2
  <2>3. CASE m = n
    <3>1. go[t][n] \notin {"init", "rollback", "append"}
      BY <2>1, <2>2, <2>3 DEF ByTells
    <3>2. ~(go[t][n] \in {"destroy", "release", "forget"} \/ (pc[t] = "stopping" /\ go[t][n] # "done"))
      <4>1. Remains(t) => IsUp(n) \/ go[t][n] = "done"
        BY <2>3 DEF Remains, IsUp
      <4> QED BY <1>1, <2>2, <2>3, <4>1, WhileDescending DEF IsGone
    <3>3. InitRefused(t, n)
      BY <2>1, <2>2, <2>3, <3>1, <3>2 DEF ModuleStep, InitSucceeds, InitFails, RolledBack, RecordStarted, DestroyModule,
         DestroyRefused, DestroyAbandoned, DestroyCommits, Destroyed, Forget, Advance
    <3> QED BY <2>2, <3>3 DEF InitRefused, fields, IsGone, IsUp
  <2>4. CASE m # n
    <3>1. mod'[n] = mod[n] /\ (n \in kept => n \in kept')
      BY <2>1, <2>4 DEF fields, Set, ModuleStep, InitModule, InitRefused, InitSucceeds, InitFails, RolledBack, RecordStarted,
         DestroyModule, DestroyRefused, DestroyAbandoned, DestroyCommits, Destroyed, Forget
    <3>2. Range(started') \subseteq Range(started) \cup {m}
      <4>1. CASE RecordStarted(t, m)
        BY <1>1, <4>1, AppendRange DEF RecordStarted, Types, FieldTypes
      <4>2. CASE Forget(t, m)
        BY <1>1, <4>2, ForgetEffect
      <4>3. CASE started' = started
        BY <4>3
      <4> QED BY <1>1, <2>1, <4>1, <4>2, <4>3, StartedChanges
    <3> QED BY <2>2, <2>4, <3>1, <3>2 DEF IsGone, IsUp
  <2> QED BY <2>3, <2>4
<1> QED BY <1>3, <1>4

\* AllAtRest in two predicates, and of the state that a step leads to.
AtRest == started = <<>> /\ \A t \in Drivers : ~Engaged(t)

NothingUp == \A m \in Modules : ~IsUp(m) /\ (mod[m] \in Startable \/ m \in kept)

LEMMA RestMeansNothingUp == LayingOut /\ OneByOne /\ AtRest => NothingUp
BY AllAtRest DEF AtRest, NothingUp

LEMMA RestMeansNothingUpNext == LayingOut' /\ OneByOne' /\ AtRest' => NothingUp'
BY RestMeansNothingUp, PTL

\* When the hook has just gone through its last layer, everything is gone.
LEMMA HookLeavesNothing ==
  ASSUME Settled, Settled', RunTypes, RunNext \/ UNCHANGED runVars, pc[Runner] = "idle", run = "stop", run' = "stop",
         ~HookDone, HookDone', NEW n \in Modules
  PROVE  IsGone(n)'
<1>1. LayingOut /\ OneByOne /\ Serial /\ Hook \in Drivers /\ LayingOut' /\ OneByOne'
  BY RunAssumption DEF Settled
<1>2. pc \in [Drivers -> Points] /\ DOMAIN outcome = Drivers
  BY <1>1 DEF LayingOut, Types, LocalTypes
<1>3. ASSUME UNCHANGED <<pc[Hook], todo[Hook], go[Hook], outcome[Hook]>> PROVE FALSE
  BY <1>3 DEF HookDone, Finishing, LayerDone
<1>4. ASSUME NEW t \in Drivers, StepOf(t) PROVE t = Hook
  BY <1>1, <1>3, <1>4, OthersSpared DEF LayingOut, Spares
<1>5. DriverStep(Hook) \/ \E m \in DOMAIN go[Hook] : ModuleStep(Hook, m)
  <2>1. ~Apart
    BY <1>3, ApartKeeps DEF locals
  <2>2. ~Cancel(Hook)
    BY <1>3 DEF Cancel
  <2>3. ~RunCallsStart /\ ~Wake
    BY DEF RunCallsStart, Wake
  <2>4. ~(Cancel(Runner) /\ Interrupt)
    BY DEF Interrupt
  <2>5. \A t \in Others : ~OtherCalls(t)
    BY <1>4 DEF Others, OtherCalls, StepOf
  <2>6. \A t \in Drivers : Drive(t) => t = Hook /\ DriverStep(Hook)
    BY <1>4 DEF Drive, StepOf
  <2>7. \A t \in Drivers : \A m \in DOMAIN go[t] : Module_(t, m) => t = Hook /\ ModuleStep(t, m)
    BY <1>4 DEF Module_, StepOf
  <2> QED BY <2>1, <2>2, <2>3, <2>4, <2>5, <2>6, <2>7, StepsOfRun DEF Deadline
<1>6. StepOf(Hook)
  BY <1>5 DEF StepOf
<1>7. pc[Hook] # "idle"
  <2>1. ASSUME NEW m \in DOMAIN go[Hook], ModuleStep(Hook, m) PROVE pc[Hook] # "idle"
    BY <1>1, <2>1, BusyIsEngaged, ModuleStepNotDone DEF LayingOut, Engaged
  <2> QED BY <1>1, <1>5, <2>1, DriverStepStaysIn
<1>8. Engaged(Hook) /\ ~Finishing(Hook)
  BY <1>7 DEF HookDone, Engaged
<1>9. started' = <<>>
  <2>1. CASE Finishing(Hook)'
    BY <1>1, <1>6, <1>8, <2>1, FinishesEmpty
  <2>2. CASE pc'[Hook] = "idle" /\ outcome'[Hook] # "aborted"
    <3>1. DriverStep(Hook)
      BY <1>1, <1>5, <1>7, <2>2, ModuleStepFrame
    <3>2. pc[Hook] \in Down \cup {"stop"}
      BY <1>7 DEF Settled, Stages
    <3>3. NothingToStop(Hook) \/ StopFinished(Hook)
      BY <1>2, <2>2, <3>1, <3>2 DEF Down, DriverStep, PlanStart, PlanFails, StartUnplannable, InjectContext, StartLayer,
         LayerStarted, StartFinished, Abort, ClaimStop, PlanStop, StopLayer, LayerStopped, StopAborted, Return, Launch,
         Goto, Set
    <3>4. ~StopFinished(Hook)
      BY <1>1, <1>8 DEF StopFinished, LayingOut, Shape, Fits, Finishing
    <3> QED BY <3>3, <3>4 DEF NothingToStop
  <2> QED BY <2>1, <2>2 DEF HookDone
<1>10. \A t \in Drivers : ~Engaged(t)'
  <2>1. ~Engaged(Hook)'
    BY DEF HookDone, Engaged, Finishing
  <2>2. \A t \in Drivers \ {Hook} : Engaged(t)' <=> Engaged(t)
    BY <1>1, <1>6, OthersSpared, SparedStaysEngaged DEF LayingOut
  <2> QED BY <1>1, <1>8, <2>1, <2>2 DEF Serial
<1> QED BY <1>1, <1>9, <1>10, RestMeansNothingUpNext DEF IsGone, AtRest, NothingUp

LEMMA GoneStep ==
  Settled /\ Settled' /\ RunTypes /\ ByTells /\ Gone /\ (RunNext \/ UNCHANGED runVars) => Gone'
<1> SUFFICES ASSUME Settled, Settled', RunTypes, ByTells, Gone, RunNext \/ UNCHANGED runVars, RunDone',
                    NEW n \in Modules, by'[n] = Runner
             PROVE  IsGone(n)'
  BY DEF Gone
<1>1. Runner \in Drivers /\ Hook \in Drivers /\ Runner # Hook /\ LayingOut
  BY RunAssumption DEF Settled
<1>2. run' \in {"stop", "describe"}
  BY DEF RunDone
<1>3. run # "start"
  BY <1>2 DEF local, runVars, RunNext, RunStep, BeginRun, RunCallsStart, RunFails, RunWaits, Wake, HookReturns, TimesOut,
     RunReturns, Shutdown, Interrupt, Deadline, CollectProbes, HealthCheck, OtherCalls, Drive, Module_
<1>4. pc[Runner] = "idle"
  BY <1>3 DEF Settled, Stages
<1>5. CASE RunDone
  BY <1>4, <1>5, GoneLasts DEF Gone
<1>6. CASE ~RunDone
  <2>1. ~Wake
    <3>1. ASSUME Wake PROVE FALSE
      <4>1. BeginStop(Hook) /\ run' = "stop"
        BY <3>1 DEF Wake, Settled, Stages
      <4>2. pc'[Hook] = "stop"
        BY <1>1, <4>1, CallEffect DEF Call
      <4> QED BY <4>1, <4>2 DEF RunDone, HookDone, Finishing
    <3> QED BY <3>1
  <2>2. ~HookReturns
    <3>1. ASSUME HookReturns PROVE FALSE
      BY <1>6, <3>1 DEF HookReturns, RunDone, HookDone
    <3> QED BY <3>1
  <2>3. ~TimesOut
    BY DEF TimesOut, RunDone
  <2>4. run' = run /\ result' = result
    BY <1>2, <2>1, <2>2, <2>3 DEF local, runVars, RunNext, RunStep, BeginRun, RunCallsStart, RunFails, RunWaits, RunReturns,
       Shutdown, Interrupt, Deadline, CollectProbes, HealthCheck, OtherCalls, Drive, Module_
  <2>5. run = "stop" /\ HookDone' /\ ~HookDone
    BY <1>6, <2>4 DEF RunDone
  <2> QED BY <1>4, <2>4, <2>5, HookLeavesNothing
<1> QED BY <1>5, <1>6

LEMMA RunAccounts ==
  ASSUME Stoppers \subseteq {Hook}
  PROVE  RunSpec => [](Settled /\ ByTells /\ Gone)
<1>1. RunInit => ByTells /\ Gone
  BY Nobody DEF RunInit, Init, ByTells, Gone, RunDone
<1>2. Settled /\ LayingOut /\ RunTypes /\ Stages /\ Settled' /\ ByTells /\ Gone /\ [RunNext]_runVars =>
        ByTells' /\ Gone'
  BY ByTellsStep, GoneStep
<1> QED BY <1>1, <1>2, RunIsSerial, RunInvariance, PTL DEF RunSpec

\* What Run has started is down when Run returns, unless the shutdown was cut short:
\* the hook goes through all that m.started lists, and what other goroutines start
\* meanwhile is their own.
THEOREM RunStops ==
  ASSUME Stoppers \subseteq {Hook}
  PROVE  RunSpec => RunStopsEverything
<1>1. Settled /\ Gone => (run = "describe" /\ run' = "idle" /\ result \notin {"aborted", "timeout"} =>
                            \A n \in Modules : by[n] = Runner => mod[n] \in Startable \/ n \in kept)
  BY DEF Settled, Stages, Gone, RunDone, IsGone
<1> QED BY <1>1, RunAccounts, PTL DEF RunSpec, RunStopsEverything

\* describeTimeout reads m.started when the hook is left behind: it finds all that Run
\* has started, that is still up and that did not refuse its teardown, in the middle of
\* its teardown included.  Of those that refused, the theorem says nothing: they are
\* forgotten, and run on without a name.
THEOREM RunNamesTheRest ==
  ASSUME Stoppers \subseteq {Hook}
  PROVE  RunSpec => TimeoutNames
<1>1. Settled /\ RunTypes /\ LayingOut /\ Stages /\ ByTells /\ Gone /\ [RunNext]_runVars =>
        (run = "describe" /\ run' = "idle" /\ result = "timeout" =>
           \A n \in Modules :
             /\ by[n] = Runner /\ mod[n] \in {"Running", "Destroying"} /\ n \notin kept => n \in named'
             /\ n \in named' => mod[n] \in {"Running", "Destroying"} \/ At("forget", n) # {})
  <2> SUFFICES ASSUME Settled, RunTypes, ByTells, [RunNext]_runVars, run = "describe", run' = "idle", result = "timeout",
                      NEW n \in Modules
               PROVE  /\ by[n] = Runner /\ mod[n] \in {"Running", "Destroying"} /\ n \notin kept => n \in named'
                      /\ n \in named' => mod[n] \in {"Running", "Destroying"} \/ At("forget", n) # {}
    OBVIOUS
  <2>1. RunReturns
    BY DEF local, runVars, StartReturned, RunNext, RunStep, BeginRun, RunCallsStart, RunFails, RunWaits, Wake, HookReturns, TimesOut,
       Shutdown, Interrupt, Deadline, CollectProbes, HealthCheck, OtherCalls, Drive, Module_
  <2>2. named' = Range(started)
    BY <2>1 DEF RunReturns, Remaining
  <2>3. LayingOut /\ OneByOne /\ Runner \in Drivers /\ DOMAIN go[Runner] = {}
    BY RunAssumption DEF Settled, Stages, LayingOut, Shape, Fits
  <2>4. ASSUME by[n] = Runner, mod[n] \in {"Running", "Destroying"}, n \notin kept, ~IsUp(n) PROVE FALSE
    <3>1. PICK t \in Drivers : n \in DOMAIN go[t] /\ go[t][n] \in Handling \cup {"append"}
      BY <2>3, <2>4, NotAtRest DEF Startable
    <3>2. go[t][n] \in {"destroy", "release"}
      BY <2>3, <2>4, <3>1 DEF ByTells, Handling
    <3>3. Remains(t)
      BY <2>3, <3>1, <3>2, WhileDescending
    <3> QED BY <2>4, <3>1, <3>2, <3>3 DEF Remains, IsUp
  <2>5. ASSUME n \in Range(started) PROVE mod[n] \in {"Running", "Destroying"} \/ At("forget", n) # {}
    <3>1. n \in DOMAIN deps
      BY <2>3, <2>5 DEF LayingOut, Types, FieldTypes, Range
    <3> QED BY <2>3, <2>5, <3>1, ListedAreUp DEF StartedAreUp, IsUp
  <2> QED BY <2>2, <2>4, <2>5 DEF IsUp
<1> QED BY <1>1, RunAccounts, RunInvariance, PTL DEF RunSpec, TimeoutNames

=============================================================================
