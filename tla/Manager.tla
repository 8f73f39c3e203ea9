-------------------------------- MODULE Manager --------------------------------
(***************************************************************************)
(* Manager (manager.go): Register, Start and Stop, called by any number of *)
(* goroutines ("drivers"), and the goroutines that Start and Stop launch   *)
(* for the modules of a layer.                                             *)
(*                                                                         *)
(* An action is one critical section of m.mu or one thing that happens     *)
(* with the lock free.  plan is one critical section; what it computes is  *)
(* the subject of Planner.  The modules are any that keep the contract of  *)
(* Lifecycle, and only the manager drives them.                            *)
(***************************************************************************)
EXTENDS Dependencies

CONSTANTS Drivers,      \* goroutines that call Start and Stop
          Starters,     \* those that call Start
          Stoppers,     \* those that call Stop
          NoDriver,     \* none of them
          Modules,      \* names that may be registered
          Declared,     \* the dependency lists a module may be registered with
          Initial,      \* the graph registered before anybody calls Start
          FailingStart, \* modules whose start hooks may fail
          FailingStop,  \* modules whose teardown hooks and cleanups may fail
          Interruptible,\* modules with hooks: a canceled context stops them
          Watching      \* modules that wait in a BeforeDestroy hook for a goroutine
                        \* that ends when AppContext.Done does (examples/manager)

ASSUME DriverAssumption == /\ NoDriver \notin Drivers
                           /\ Starters \subseteq Drivers
                           /\ Stoppers \subseteq Drivers
ASSUME ModuleAssumption == /\ IsFiniteSet(Modules)
                           /\ DOMAIN Initial \subseteq Modules
                           /\ DOMAIN Declared = Modules

VARIABLES
  \* fields of Manager, and of its modules
  deps,       \* m.nodes: the dependency list of every registered module
  started,    \* m.started
  mstate,     \* m.state
  ended,      \* whether the shutdown broadcast has fired (m.sh.End)
  mod,        \* State of every module
  injected,   \* modules that have their AppContext
  \* locals of the Start or Stop a driver is executing
  pc,
  rank,       \* where plan or stopLayers puts each module
  todo,       \* the modules of the layers still to come
  go,         \* how far the goroutine of each module of the current layer is
  failed,     \* the modules whose Init or Destroy returned an error
  canceled,   \* whether the context is canceled
  aborting,   \* whether this is a Start that rolls back
  outcome,    \* what the last call returned
  \* history
  kept        \* modules that refused their last teardown, and so are still up

fields == <<deps, started, mstate, ended, injected>>
locals == <<pc, rank, todo, go, failed, canceled, aborting, outcome>>
vars   == <<fields, mod, locals, kept>>

Startable == {"Created", "Destroyed", "Failed"}
States    == Startable \cup {"Initializing", "Running", "Destroying"}
NoOne     == << >>

Init == /\ deps = Initial
        /\ started = <<>>
        /\ mstate = "Created"
        /\ ended = FALSE
        /\ mod = [n \in Modules |-> "Created"]
        /\ injected = {}
        /\ pc = [t \in Drivers |-> "idle"]
        /\ rank = [t \in Drivers |-> NoOne]
        /\ todo = [t \in Drivers |-> {}]
        /\ go = [t \in Drivers |-> NoOne]
        /\ failed = [t \in Drivers |-> {}]
        /\ canceled = [t \in Drivers |-> FALSE]
        /\ aborting = [t \in Drivers |-> FALSE]
        /\ outcome = [t \in Drivers |-> "none"]
        /\ kept = {}

-----------------------------------------------------------------------------
Set(f, t, v)  == [f EXCEPT ![t] = v]
Goto(t, point) == pc' = Set(pc, t, point)

\* The goroutine of module n in t's layer moves from one point to another.
Advance(t, n, from, to) == /\ n \in DOMAIN go[t]
                           /\ go[t][n] = from
                           /\ go' = [go EXCEPT ![t][n] = to]

\* t returns r to its caller.
Return(t, r) == /\ Goto(t, "idle")
                /\ rank' = Set(rank, t, NoOne)
                /\ todo' = Set(todo, t, {})
                /\ go' = Set(go, t, NoOne)
                /\ failed' = Set(failed, t, {})
                /\ canceled' = Set(canceled, t, FALSE)
                /\ aborting' = Set(aborting, t, FALSE)
                /\ outcome' = Set(outcome, t, r)

SilentStop == ended  \* mutant: only Run announces the shutdown

\* m.sh.End, which cannot be taken back.
Announcement == TRUE

WholeGraph(t) == todo[t]  \* mutant: one layer for all

\* The first layer still to come on the way up, and on the way down.
LowestLayer(t)  == {n \in todo[t] : \A m \in todo[t] : rank[t][n] <= rank[t][m]}
HighestLayer(t) == {n \in todo[t] : \A m \in todo[t] : rank[t][n] >= rank[t][m]}

Launch(t, layer, point) == /\ go' = Set(go, t, [n \in layer |-> "call"])
                           /\ todo' = Set(todo, t, todo[t] \ layer)
                           /\ Goto(t, point)

\* A hook of n fails, or the context is canceled before it (runPhase).
MayFail(t, n, failing) == n \in failing \/ (canceled[t] /\ n \in Interruptible)

IgnoreErrors(t) == TRUE  \* mutant: errors is not looked at

NoErrors(t) == failed[t] = {}

LayerDone(t) == \A n \in DOMAIN go[t] : go[t][n] = "done"

-----------------------------------------------------------------------------
(* Register                                                                *)

Register(n, list) == /\ n \notin DOMAIN deps
                     /\ deps' = [m \in DOMAIN deps \cup {n} |-> IF m = n THEN list ELSE deps[m]]
                     /\ UNCHANGED <<started, mstate, ended, injected, mod, locals, kept>>

-----------------------------------------------------------------------------
(* Start                                                                   *)

MayStartIfStopped == mstate \in {"Created", "Stopped"}  \* mutant: ignores what is still up

MayStartAlways == Len(started) = 0  \* mutant: no managerState

\* beginStart
MayStart == mstate \in {"Created", "Stopped"} /\ Len(started) = 0

StartRefused(t) == /\ t \in Starters
                   /\ pc[t] = "idle"
                   /\ ~MayStart
                   /\ outcome' = Set(outcome, t, "ErrAlreadyStarted")
                   /\ UNCHANGED <<fields, mod, pc, rank, todo, go, failed, canceled, aborting, kept>>

BeginStart(t) == /\ t \in Starters
                 /\ pc[t] = "idle"
                 /\ MayStart
                 /\ mstate' = "Starting"
                 /\ Goto(t, "plan")
                 /\ UNCHANGED <<deps, injected, started, ended, mod, rank, todo, go, failed, canceled, aborting, outcome, kept>>

PlanStart(t) == /\ pc[t] = "plan"
                /\ Plannable(deps)
                /\ rank' = Set(rank, t, Levelling(deps))
                /\ todo' = Set(todo, t, DOMAIN deps)
                /\ Goto(t, "inject")
                /\ UNCHANGED <<fields, mod, go, failed, canceled, aborting, outcome, kept>>

\* plan fails, and only then, in a critical section of its own, state is reset.
PlanFails(t) == /\ pc[t] = "plan"
                /\ ~Plannable(deps)
                /\ Goto(t, "unplannable")
                /\ UNCHANGED <<fields, mod, rank, todo, go, failed, canceled, aborting, outcome, kept>>

StartUnplannable(t) == /\ pc[t] = "unplannable"
                       /\ mstate' = "Stopped"
                       /\ Return(t, "error")
                       /\ UNCHANGED <<deps, injected, started, ended, mod, kept>>

InjectOnce(t) == /\ pc[t] = "inject"  \* mutant: only the first Start injects
                 /\ injected' = IF injected = {} THEN DOMAIN deps ELSE injected
                 /\ Goto(t, "start")
                 /\ UNCHANGED <<deps, started, mstate, ended, mod, rank, todo, go, failed, canceled, aborting, outcome, kept>>

\* injectContext: every module registered by now, planned or not.
InjectContext(t) == /\ pc[t] = "inject"
                    /\ injected' = injected \cup DOMAIN deps
                    /\ Goto(t, "start")
                    /\ UNCHANGED <<deps, started, mstate, ended, mod, rank, todo, go, failed, canceled, aborting, outcome, kept>>

StartLayer(t) == /\ pc[t] = "start"
                 /\ todo[t] # {}
                 /\ ~canceled[t]
                 /\ Launch(t, LowestLayer(t), "starting")
                 /\ UNCHANGED <<fields, mod, rank, failed, canceled, aborting, outcome, kept>>

MayInitAlways(n) == TRUE  \* mutant: Init has no state guard

MayInit(n) == mod[n] \in Startable

InitModule(t, n) == /\ pc[t] = "starting"
                    /\ MayInit(n)
                    /\ Advance(t, n, "call", "init")
                    /\ mod' = Set(mod, n, "Initializing")
                    /\ UNCHANGED <<fields, pc, rank, todo, failed, canceled, aborting, outcome, kept>>

InitRefused(t, n) == /\ pc[t] = "starting"
                     /\ ~MayInit(n)
                     /\ Advance(t, n, "call", "done")
                     /\ failed' = Set(failed, t, failed[t] \cup {n})
                     /\ UNCHANGED <<fields, mod, pc, rank, todo, canceled, aborting, outcome, kept>>

InitRecordedTwice(t, n) == /\ Advance(t, n, "init", "append")  \* mutant: recorded here and there
                           /\ mod' = Set(mod, n, "Running")
                           /\ started' = Append(started, n)
                           /\ UNCHANGED <<deps, injected, mstate, ended, pc, rank, todo, failed, canceled, aborting, outcome, kept>>

InitSucceeds(t, n) == /\ Advance(t, n, "init", "append")
                      /\ mod' = Set(mod, n, "Running")
                      /\ UNCHANGED <<fields, pc, rank, todo, failed, canceled, aborting, outcome, kept>>

InitFails(t, n) == /\ MayFail(t, n, FailingStart)
                   /\ Advance(t, n, "init", "rollback")
                   /\ mod' = Set(mod, n, "Destroying")
                   /\ UNCHANGED <<fields, pc, rank, todo, failed, canceled, aborting, outcome, kept>>

RecordAnyway == "append"  \* mutant: no return after the error

NotDone == "lost"  \* mutant: no wg.Done after the error

\* After an error the goroutine returns.
AfterError == "done"

RolledBack(t, n) == /\ Advance(t, n, "rollback", AfterError)
                    /\ mod' = Set(mod, n, "Failed")
                    /\ failed' = Set(failed, t, failed[t] \cup {n})
                    /\ UNCHANGED <<fields, pc, rank, todo, canceled, aborting, outcome, kept>>

RecordStarted(t, n) == /\ Advance(t, n, "append", "done")
                       /\ started' = Append(started, n)
                       /\ UNCHANGED <<deps, injected, mstate, ended, mod, pc, rank, todo, failed, canceled, aborting, outcome, kept>>

LayerStarted(t) == /\ pc[t] = "starting"
                   /\ LayerDone(t)
                   /\ NoErrors(t)
                   /\ Goto(t, "start")
                   /\ UNCHANGED <<fields, mod, rank, todo, go, failed, canceled, aborting, outcome, kept>>

StartFinished(t) == /\ pc[t] = "start"
                    /\ todo[t] = {}
                    /\ mstate' = "Running"
                    /\ Return(t, "ok")
                    /\ UNCHANGED <<deps, injected, started, ended, mod, kept>>

\* abort: Stop, with a context that is never canceled.
Abort(t) == /\ \/ pc[t] = "start" /\ todo[t] # {} /\ canceled[t]
               \/ pc[t] = "starting" /\ LayerDone(t) /\ ~NoErrors(t)
            /\ ended' = Announcement
            /\ Goto(t, "stop")
            /\ todo' = Set(todo, t, {})
            /\ go' = Set(go, t, NoOne)
            /\ failed' = Set(failed, t, {})
            /\ canceled' = Set(canceled, t, FALSE)
            /\ aborting' = Set(aborting, t, TRUE)
            /\ UNCHANGED <<deps, injected, started, mstate, mod, rank, outcome, kept>>

-----------------------------------------------------------------------------
(* Stop                                                                    *)

BeginStop(t) == /\ t \in Stoppers
                /\ pc[t] = "idle"
                /\ ended' = Announcement
                /\ Goto(t, "stop")
                /\ UNCHANGED <<deps, injected, started, mstate, mod, rank, todo, go, failed, canceled, aborting, outcome, kept>>

\* What Stop returns: a Start that rolls back has its own error in any case.
StopOutcome(t) == IF aborting[t] \/ failed[t] # {} THEN "error" ELSE "ok"

ClearUpfront == <<>>  \* mutant: what remains is put back at the end

\* What stays listed while it is being torn down.
Unclaimed == started

\* The snapshot of m.started; rank is the position for the time being.
ClaimStop(t) == /\ pc[t] = "stop"
                /\ mstate' = "Stopped"
                /\ started # <<>>
                /\ started' = Unclaimed
                /\ todo' = Set(todo, t, Range(started))
                /\ rank' = Set(rank, t, [n \in Range(started) |-> CHOOSE i \in DOMAIN started : started[i] = n])
                /\ Goto(t, "planStop")
                /\ UNCHANGED <<deps, injected, ended, mod, go, failed, canceled, aborting, outcome, kept>>

NothingToStop(t) == /\ pc[t] = "stop"
                    /\ mstate' = "Stopped"
                    /\ started = <<>>
                    /\ Return(t, StopOutcome(t))
                    /\ UNCHANGED <<deps, injected, started, ended, mod, kept>>

OnlyPlanned(t) == IF Plannable(deps) THEN todo[t] ELSE {}  \* mutant: no fallback

Targets(t) == todo[t]

PlanStop(t) == /\ pc[t] = "planStop"
               /\ rank' = Set(rank, t, StopRank(deps, rank[t]))
               /\ todo' = Set(todo, t, Targets(t))
               /\ Goto(t, "teardown")
               /\ UNCHANGED <<fields, mod, go, failed, canceled, aborting, outcome, kept>>

StopLayer(t) == /\ pc[t] = "teardown"
                /\ todo[t] # {}
                /\ ~canceled[t]
                /\ Launch(t, HighestLayer(t), "stopping")
                /\ UNCHANGED <<fields, mod, rank, failed, canceled, aborting, outcome, kept>>

DestroyModule(t, n) == /\ pc[t] = "stopping"
                       /\ mod[n] = "Running"
                       /\ Advance(t, n, "call", "destroy")
                       /\ mod' = Set(mod, n, "Destroying")
                       /\ UNCHANGED <<fields, pc, rank, todo, failed, canceled, aborting, outcome, kept>>

DestroyRefused(t, n) == /\ pc[t] = "stopping"
                        /\ mod[n] # "Running"
                        /\ Advance(t, n, "call", "forget")
                        /\ failed' = Set(failed, t, failed[t] \cup {n})
                        /\ UNCHANGED <<fields, mod, pc, rank, todo, canceled, aborting, outcome, kept>>

\* A BeforeDestroy hook fails, or the context is canceled before one of them.
DestroyAbandoned(t, n) == /\ MayFail(t, n, FailingStop)
                          /\ Advance(t, n, "destroy", "forget")
                          /\ mod' = Set(mod, n, "Running")
                          /\ failed' = Set(failed, t, failed[t] \cup {n})
                          /\ kept' = kept \cup {n}
                          /\ UNCHANGED <<fields, pc, rank, todo, canceled, aborting, outcome>>

\* AppContext.Done: a channel that blocks for ever unless it was injected.
Done(n) == n \in injected /\ ended

DestroyCommits(t, n) == /\ n \in Watching => Done(n)
                        /\ Advance(t, n, "destroy", "release")
                        /\ kept' = kept \ {n}
                        /\ UNCHANGED <<fields, mod, pc, rank, todo, failed, canceled, aborting, outcome>>

\* Cleanups and AfterDestroy hooks may fail, and the module is down all the same.
Destroyed(t, n) == /\ Advance(t, n, "release", "forget")
                   /\ mod' = Set(mod, n, "Destroyed")
                   /\ \/ UNCHANGED failed
                      \/ /\ MayFail(t, n, FailingStop)
                         /\ failed' = Set(failed, t, failed[t] \cup {n})
                   /\ UNCHANGED <<fields, pc, rank, todo, canceled, aborting, outcome, kept>>

\* slices.DeleteFunc: the names at the places left move up, in their order.
Forget(t, n) == /\ Advance(t, n, "forget", "done")
                /\ LET left == {i \in DOMAIN started : started[i] # n}
                   IN  \E at \in [1..Cardinality(left) -> left] :
                         /\ \A i, j \in DOMAIN at : i < j => at[i] < at[j]
                         /\ started' = [i \in DOMAIN at |-> started[at[i]]]
                /\ UNCHANGED <<deps, injected, mstate, ended, mod, pc, rank, todo, failed, canceled, aborting, outcome, kept>>

LayerStopped(t) == /\ pc[t] = "stopping"
                   /\ LayerDone(t)
                   /\ Goto(t, "teardown")
                   /\ UNCHANGED <<fields, mod, rank, todo, go, failed, canceled, aborting, outcome, kept>>

StopAborted(t) == /\ pc[t] = "teardown"
                  /\ todo[t] # {}
                  /\ canceled[t]
                  /\ Return(t, "aborted")
                  /\ UNCHANGED <<fields, mod, kept>>

StopFinished(t) == /\ pc[t] = "teardown"
                   /\ todo[t] = {}
                   /\ Return(t, StopOutcome(t))
                   /\ UNCHANGED <<fields, mod, kept>>

-----------------------------------------------------------------------------
Cancel(t) == /\ pc[t] # "idle"
             /\ ~canceled[t]
             /\ ~aborting[t]
             /\ canceled' = Set(canceled, t, TRUE)
             /\ UNCHANGED <<fields, mod, pc, rank, todo, go, failed, aborting, outcome, kept>>

ModuleStep(t, n) == \/ InitModule(t, n) \/ InitRefused(t, n) \/ InitSucceeds(t, n) \/ InitFails(t, n)
                    \/ RolledBack(t, n) \/ RecordStarted(t, n)
                    \/ DestroyModule(t, n) \/ DestroyRefused(t, n) \/ DestroyAbandoned(t, n)
                    \/ DestroyCommits(t, n) \/ Destroyed(t, n) \/ Forget(t, n)

DriverStep(t) == \/ PlanStart(t) \/ PlanFails(t) \/ StartUnplannable(t) \/ InjectContext(t)
                 \/ StartLayer(t) \/ LayerStarted(t) \/ StartFinished(t) \/ Abort(t)
                 \/ ClaimStop(t) \/ NothingToStop(t) \/ PlanStop(t)
                 \/ StopLayer(t) \/ LayerStopped(t) \/ StopAborted(t) \/ StopFinished(t)

Call(t) == StartRefused(t) \/ BeginStart(t) \/ BeginStop(t)

Next == \/ \E t \in Drivers : DriverStep(t) \/ Call(t) \/ Cancel(t)
        \/ \E t \in Drivers : \E n \in DOMAIN go[t] : ModuleStep(t, n)
        \/ \E n \in Modules : \E list \in Declared[n] : Register(n, list)

Spec == Init /\ [][Next]_vars

\* Every goroutine keeps running, and hooks return.
FairSpec == /\ Spec
            /\ \A t \in Drivers : WF_vars(DriverStep(t))
            /\ \A t \in Drivers, n \in Modules : WF_vars(n \in DOMAIN go[t] /\ ModuleStep(t, n))

-----------------------------------------------------------------------------
(* Properties                                                              *)

Points == {"idle", "plan", "unplannable", "inject", "start", "starting", "stop", "planStop", "teardown", "stopping"}
Places == {"call", "init", "rollback", "append", "destroy", "release", "forget", "done"}

\* The goroutines that are at a given point in the handling of n.
At(point, n) == {t \in Drivers : n \in DOMAIN go[t] /\ go[t][n] = point}

IsUp(n) == n \in Range(started)

\* The type of every variable.
TypeOK == /\ DOMAIN deps \subseteq Modules
          /\ started \in Seq(DOMAIN deps)
          /\ mstate \in {"Created", "Starting", "Running", "Stopped"}
          /\ ended \in BOOLEAN
          /\ mod \in [Modules -> States]
          /\ injected \subseteq DOMAIN deps
          /\ pc \in [Drivers -> Points]
          /\ todo \in [Drivers -> SUBSET DOMAIN deps]
          /\ \A t \in Drivers : /\ todo[t] \subseteq DOMAIN rank[t]
                               /\ DOMAIN go[t] \subseteq DOMAIN rank[t]
                               /\ Range(go[t]) \subseteq Places
          /\ failed \in [Drivers -> SUBSET Modules]
          /\ canceled \in [Drivers -> BOOLEAN]
          /\ aborting \in [Drivers -> BOOLEAN]
          /\ kept \subseteq DOMAIN deps

\* No module is recorded twice: reverseSerial would tear it down twice.
StartedOnce == \A i, j \in DOMAIN started : started[i] = started[j] => i = j

\* A module initializes only while everything it depends on is running (Start:
\* "in dependency order").
StartsAfterDependencies ==
  \A n \in DOMAIN deps : At("init", n) # {} => \A d \in Needs(deps, n) : mod[d] = "Running"

\* A module has its AppContext by the time its start hooks run, one that was
\* registered between two Starts, or while this one was planning, included
\* (AppContext: "injected into every registered module ... before the modules are
\* started").
InjectedBeforeInit == \A n \in DOMAIN deps : At("init", n) # {} => n \in injected

\* A module is torn down only when everything that depends on it is down, or has
\* refused its own teardown; also when modules registered since Start leave no
\* plan and stopLayers falls back to the order of start.
StopsBeforeDependencies ==
  \A n, m \in DOMAIN deps :
    At("destroy", n) \cup At("release", n) # {} /\ n \in Needs(deps, m) =>
      mod[m] \in Startable \/ m \in kept

\* What m.started lists is up, or its teardown is just about to say it is not.
StartedAreUp ==
  \A n \in DOMAIN deps : IsUp(n) => mod[n] \in {"Running", "Destroying"} \/ At("forget", n) # {}

\* The other direction: what is running is listed, or just about to be, unless it
\* refused its teardown; so a Stop that was cut short can be resumed.
RunningAreStarted ==
  \A n \in DOMAIN deps : mod[n] = "Running" => IsUp(n) \/ At("append", n) # {} \/ n \in kept

\* A manager that reports Running, with nobody in Start or Stop, has up every
\* module that a started one depends on.
RunningMeansComplete ==
  mstate = "Running" /\ (\A t \in Drivers : pc[t] = "idle") =>
    \A n \in Range(started) : mod[n] = "Running" /\ \A d \in Needs(deps, n) : IsUp(d)

\* A Start that is accepted finds every module down that did not refuse to go: a
\* second Start, or one after a teardown that was cut short, touches nothing.
StartsFromNothing ==
  [][mstate # "Starting" /\ mstate' = "Starting" =>
       \A n \in Modules : mod[n] \in Startable \/ n \in kept]_vars

\* A teardown that is not cut short leaves up only what refused it, whatever was
\* registered since Start (stopLayers: "so no started module is silently left
\* running").
StopLeavesNothing ==
  [][\A t \in Drivers :
       pc[t] = "teardown" /\ pc'[t] = "idle" /\ outcome'[t] # "aborted" =>
         started = <<>> /\ \A n \in Modules : mod[n] \in Startable \/ n \in kept]_vars

\* The shutdown is announced before the first module is torn down, in a rollback
\* too (Stop: "Tell the observers before touching anything").
AnnouncedFirst == \A n \in DOMAIN deps : At("destroy", n) # {} => ended

\* Every module is driven as its contract allows.
Owner(n) == IF \E p \in {"init", "rollback", "destroy", "release"} : At(p, n) # {}
            THEN CHOOSE t \in Drivers : \E p \in {"init", "rollback", "destroy", "release"} : t \in At(p, n)
            ELSE NoDriver

Stage(n) == IF Owner(n) = NoDriver THEN "none"
            ELSE CASE go[Owner(n)][n] = "init" -> "start"
                   [] go[Owner(n)][n] = "destroy" -> "stop"
                   [] OTHER -> go[Owner(n)][n]

Module(n) == INSTANCE Lifecycle WITH Callers <- Drivers, NoCaller <- NoDriver,
                                     state <- mod[n], holder <- Owner(n), stage <- Stage(n), due <- {}

KeepsContracts == /\ \A n \in Modules : Module(n)!Init
                  /\ [][\A n \in Modules : Module(n)!Next \/ UNCHANGED Module(n)!vars]_vars

\* Start and Stop return.
CallsReturn == \A t \in Drivers : pc[t] # "idle" ~> pc[t] = "idle"

-----------------------------------------------------------------------------
(* Statements of the documentation that the code does not keep             *)

\* Readme: "a module is always stopped before the modules it depends on": the
\* teardown of a module is over before that of a module it depends on begins.
TeardownsAreOrdered ==
  \A n, m \in DOMAIN deps : n \in Needs(deps, m) => ~(mod[n] = "Destroying" /\ mod[m] = "Destroying")

\* forget: dropping the modules one by one "keeps m.started truthful at every
\* instant", so that it "leaves exactly the modules that are still up": what runs is
\* listed, or just about to be.
StartedIsTruthful ==
  \A n \in DOMAIN deps : mod[n] = "Running" => IsUp(n) \/ At("append", n) # {}

\* Start: "calling it on a manager that is already starting or running returns
\* ErrAlreadyStarted": one Start at a time brings modules up.
BringsUp(t) == pc[t] \in {"plan", "inject", "start", "starting"}
StartIsExclusive == \A t, u \in Drivers : BringsUp(t) /\ BringsUp(u) => t = u

\* AppContext.Context: "it is canceled for no other reason" than that "the
\* application begins shutting down", and Start: "After Stop the manager can be
\* started again".
RunningIsNotEnding == mstate = "Running" => ~ended
=============================================================================
