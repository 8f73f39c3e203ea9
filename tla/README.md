# Verification of appmod

appmod structures a Go application as modules with a common lifecycle. This
directory holds TLA+ models of it, the TLC configurations that check them on
small instances, and proofs of their main theorems that TLAPS checks.

Line numbers below refer to the files of the repository.

## The system

| Part | State it keeps | Operations | Modelled by |
|---|---|---|---|
| **BaseAppModule** (`base.go`, `state.go`, `hook.go`) | `state`, four lists of hooks, `cleanups`, all under `b.mu` | `Init`, `Destroy`, `AddCleanup`, `AddHook`, `RemoveHook` | `BaseModule`; contract in `Lifecycle` |
| **Manager** (`manager.go` 55–476) | `nodes`, `started`, `state`, under `m.mu`; the shutdown broadcast `sh` | `Register`, `Start` (with `injectContext` and the rollback), `Stop` | `Manager` |
| **Planning** (`plan`, `validateDeps`, `stopLayers`) | none; reads `nodes` | called by `Start` and `Stop` | `Planner`, `Dependencies` |
| **Run** (`Run`, `Shutdown`, `describeTimeout`) | `ran`, and go-shutdown's signal and timeout machinery | `Run`, `Shutdown`, `ExitCode` | `AppRun` |
| **Health** | none; reads `started` and `nodes` | `Health` | `AppRun` |
| **Registry** (`registry.go`) | a map from contract type to implementation | `Provide`, `Require`, `Revoke` | `Registry` |
| **AppContext** (`appcontext.go`) | nothing of its own: a view of the broadcast | `Done`, `Context` | `injected`, `ended` and `Done` in `Manager` |
| **hubmod** (`adapters/hubmod`) | the hub of the bus, and one registry entry | the hooks and the cleanup of `NewModule`, `Provide`, `Require`, `SubscribeModule` | `Bus` |

How they interact. The manager calls `Init` and `Destroy` of its modules, a
layer of the dependency graph at a time, each module in a goroutine of its own
and always with `m.mu` released. A module calls hooks and cleanups, user code,
always with `b.mu` released. User code calls back: it registers cleanups and
hooks, looks up the registry, reads the module's state, and watches the
broadcast. Nothing is persisted and nothing is sent; everything hard comes from

* **concurrency**: what was read under a lock and is used after it was released
  (the clone of the hooks, the list of cleanups, the snapshot of `started`, the
  plan), and two calls in progress on the same module or manager;
* **failure half way**: a hook, a module of a layer, a context canceled between
  two steps, and the compensation each of those owes;
* **order**: of hooks, of cleanups, of layers, up and down;
* **long sequences of legal calls**: stop, restart, registration after a start.

What makes each part correct:

* *BaseAppModule*: set-up and teardown code of two calls never overlaps; a
  cleanup is run exactly once by the teardown that follows its registration;
  `Init` succeeds or leaves nothing behind; a refused `Destroy` can be retried;
  no module is left half way.
* *Manager*: a module starts after everything it needs and stops before it;
  `started` says what is up; a second `Start` is harmless; `Stop` leaves nothing
  up whatever was registered meanwhile; both return.
* *Planning*: the layers are the levels of the graph, an error is reported for
  exactly the graphs that have none, and the loop ends.
* *Run*: whatever it started is stopped when it returns; a shutdown is not lost and
  is bounded by its timeout; a timeout names exactly what is still up, what refused
  its teardown left out.
* *Health*: it probes without the lock, and still nothing but what is up, as long
  as no shutdown has been announced.
* *AppContext*: a module has it before its hooks run, and it closes before the
  first teardown.
* *Registry* and *hubmod*: whoever requires finds a provider that is up; a
  restart finds the registry as the first start did; a user of the bus is
  subscribed once per life, and the hub outlives its users, but for those that
  refuse to go down.

## The modules

`Lifecycle` is the abstract contract of a module: a state, who holds it, how far
that operation has got, and which acquired resources are due for release. No
hooks, contexts or locks.

`BaseModule` is `base.go`. A caller's `pc` is where it is in `Init` or `Destroy`:
`check` at the head of the loop of `runPhase`, `hook` inside a hook, `failInit`,
`revert`, `take` and `unwind` at the branches after it. An action is one critical
section of `b.mu`, or one thing that happens with the lock free. `snap` is the
clone of the hooks of the phase, `done` the positions the loop is through with;
the stable sort is the order `Precedes` on positions, so that no sorted list is
computed. A cleanup is the number of the `AddCleanup` call that registered it,
and `owed`, `runs` record which of them start hooks registered and how often each
ran. `found` records the cleanups that were registered when the last `Destroy` began:
if that one is abandoned, each is registered still and has never run. What user code may do is an action that is always possible: registering and
removing hooks, registering cleanups (from a start hook, or from anywhere else),
canceling a context. A hook cannot re-enter the lifecycle, because `hookView`
gives it no way to; another goroutine can, and does here.

`Dependencies` says what a layout of a graph is (`IsLevelling`) and how `Stop`
ranks the modules it has to take down. `Planner` is the loop of `plan`.

`Manager` is `Register`, `Start` and `Stop`. A driver is a goroutine that calls
them; `go[t]` holds the goroutines of the layer driver `t` is in. What those do is
`Init` and `Destroy` of a module as its contract allows, cut where something
else can come between: the call, the rollback, the append to `started`, the
teardown before and after the point of no return, `forget`. `plan` is one
critical section there and one step, which is what `Planner` and `Planner_proofs` justify.
`injectContext` is a step of its own between the plan and the first layer, and
covers what has been registered by then. Modules may be `Watching`: their teardown
waits for a goroutine that ends with `AppContext().Done()`, as that of the worker
in `examples/manager/main.go` does, so `DestroyCommits` waits for `Done(n)`.

The manager is built on the contract rather than on `BaseModule`: `ImplementsContract`
says that a `BaseAppModule` keeps it, `KeepsContracts` that `Manager` takes no step it does
not allow. One variable is history: `kept`, the modules that refused their last
teardown. The code forgets those, although they are still running: the run
`manager_refused` shows it. What the code does keep is checked with them left out, and each
property says so: `StopsBeforeDependencies`, `RunningAreStarted`, `StartsFromNothing`,
`StopLeavesNothing`, and in `AppRun` `RunStopsEverything` and `TimeoutNames`.

`AppRun` extends `Manager` with `Run`, `Shutdown` and `Health`. `Runner` is the driver
that calls `Run`, and `run` is where it is: `begun` and `start` around its `Start`,
`wait` in go-shutdown's `Wait`, `stop` while `Wait` has the hook, that is `Stop`, run
in the goroutine `Hook`, `describe` before `describeTimeout` has read `m.started`.
go-shutdown is external and is modelled by what `Run` relies on: the hook runs
once, under a context that only the timeout cancels (`Deadline`), and `Wait` gives
up on a hook that has not returned by then (`TimesOut`), which leaves the hook
running beside everything that follows. A module of `Hanging` may stay in its
teardown for ever. A signal does what `Shutdown` does, and both, like a canceled
context, may come at any time, before `Run` waits as well. Other drivers call
`Start` meanwhile. `probes` are those that `Health` has collected and not yet run.
Two variables are history: `asked`, whether somebody asked for a shutdown, and `by`,
who initialized a module last, to tell what `Run` started from what others did.

`Registry` is `registry.go`: a function from contracts to implementations and what
`Provide`, `Require` and `Revoke` do to it. `Bus` is `hubmod.go` over it: hub modules
with the hooks and the cleanup that `NewModule` gives them, and users that take
the hub from the registry in a start hook and subscribe with `SubscribeModule`. One
goroutine drives them in the order `Manager` keeps: a user starts when its hub is up, and
a hub goes down when `Stop` has forgotten its users. `listed` is the part of `m.started`
that decides this. A user that refused its teardown is forgotten too, so its hub is
closed while it runs on, subscribed; `OpenWhileUsed` says that nobody else ever holds a
subscription to a closed hub. The start and the teardown of a module are cut at every
hook and where cleanups run, and each may fail there. msghub is external: a hub that was closed stays closed and refuses
subscriptions. `revoking` is the one cleanup a hub module registers in its constructor,
`undo` those that `SubscribeModule` registers in every life of a user.

A definition marked `mutant` in a comment belongs to no specification: it is what
a plausible bug would make of the definition after it, and shows that the
properties notice.

## The runs

Bounds are in the cfg files. `CHECK_DEADLOCK FALSE` stands where the system may
stop: once every bounded registration is used up and nobody calls anything.

| Run | Question | Bounds, and why they are enough |
|---|---|---|
| `module_core` | safety of a module, and its contract | two callers, interchangeable, so that every guard is met by a competitor; a hook for each phase but one; two cleanups, so that there is an order and a middle of the list |
| `module_live` | order of hooks; calls return | one caller, since no call waits for another; priorities at both ends of an 8-bit integer, so that a subtraction overflows, and a hook with neither name nor body; hooks come and go during the phase |
| `planner` | layers and errors | every graph of three modules with lists of up to two names out of these and one that nobody registers, so repeats, self-dependencies and unknown names; every graph of four modules with plain lists, the smallest with two independent paths of different length |
| `manager_single` | one goroutine, at length | `db` with `api` and `web` on top, so a layer of two; each may fail to start, `api` fails its teardown too, a canceled context stops the hooks of `db`; `web` waits for `Done` in its teardown; `job` may be registered at any time, sanely, into a cycle, or over an unknown name |
| `manager_free` | anything goes | two goroutines that start and stop at will, two modules |
| `app_run` | `Run`, its shutdown, `Health`, and concurrent `Start`s | three goroutines: one runs, one carries out the shutdown, one calls `Start` over and over and may have its context canceled; a fork, so that a layer has two modules, of which `web` may fail to start and `api` may hang in its teardown and is the one `Health` probes; `db` may refuse its teardown. One prober is enough, since probes change nothing |
| `bus` | subscriptions and the registry | a published hub and an unpublished one, so that a wrong one could be found; two users, any number of lives each, and each may refuse its teardown, so that a hub closes under one user beside another that went down; a hub module lives once (`MaxLives`), since a hub that was closed is not opened again |

The number of starts and stops of a manager is not bounded: a restart is a state seen before.

### Where the code and its documentation disagree

Each of these runs checks one statement of the documentation and ends in a
behaviour of the code that contradicts it.

* `manager_refused`: a module that refuses its teardown stays running and is dropped
  from `m.started` all the same (`manager.go` 456), where `forget` promises that the list
  is truthful and leaves exactly what is still up (`manager.go` 466). So no later `Stop`
  comes back to it, a timeout does not name it (against `manager.go` 485), and what it
  depends on is taken down under it, such as the hub it is subscribed to
  (`hubmod.go` 56).
* `manager_two_stops`: of two `Stop`s that overlap, one takes down a module while
  the other is still taking down one that needs it (`Readme.md` 317).
* `manager_reentry`: a `Stop` in the middle of a `Start` resets the guard of
  `Start`, and a second one runs beside the first (`manager.go` 191 against 347).
* `manager_restart`: after a restart the modules run with `Done()` closed
  (`appcontext.go` 59 against `manager.go` 343). For the same reason a `Run` of a
  manager that was started and stopped before brings everything up and takes it
  down at once, and a `Stop` called directly ends a `Run` (`Wake`), although the
  comment of `Run` (`manager.go` 478) names a canceled context, a signal and
  `Shutdown` only.
* `bus_restart`: a hub module that is started again is not revoked by its second
  teardown, so the hub is shut down with its registry entry in place, and a third
  start would fail (`adapters/hubmod/Readme.md` 102 against `hubmod.go` 129). Two
  lives of one hub module (`MaxLives`) are the shortest such behaviour.

Three more statements are contradicted by the code and have no run. A context canceled
after the last `BeforeDestroy` hook does not keep the module running (`base.go` 301
against 367), and a cleanup registered while the teardown unwinds is still there
when the module is initialized again (`base.go` 45 against 73); `module_core` goes
through both and checks that no cleanup is lost or run twice for it. And an
`AfterDestroy` hook sees `Destroyed`, not the `Destroying` that `Readme.md` 124
promises (`base.go` 335).

`manager_reentry` shows why `RunningAreStarted` and `StartsFromNothing` are checked
for one goroutine, or where goroutines only start and the one `Stop` is that of
`Run` (`app_run`), and not in `manager_free`.

One limit to know of that no document denies: the `Stop` that rolls back a failed
`Start` cannot be canceled (`manager.go` 315), so `WithShutdownTimeout` does not bound
a `Run` whose start fails beside a module that hangs in its teardown.
`ShutdownIsBounded` starts from a `Run` that waits.

## Fairness

`BaseModule!FairSpec` is weak fairness of the steps of a call that was accepted:
the scheduler runs every goroutine, and a hook returns. That is the weakest
assumption under which `Init` can return, since it calls hooks. Nobody has to
call anything, register anything or cancel a context. `Manager!FairSpec` is the
same for the goroutine of a driver and for that of every module of its layer.
`AppRun!RunFairSpec` adds the goroutine of `Run` and `Deadline`, since time passes, and
takes back the teardown of the modules that hang. Nobody has to call `Start`,
`Shutdown` or `Health`, nothing has to be canceled, and probes need not end.
`Planner` is a sequential loop; it is weakly fair. `Bus` has safety properties only
and assumes none.

## What is proved

Every safety property of a passing run is the statement of a theorem. What TLC
shows of a small instance, the theorem says for every value of the constants; what
it needs beyond the assumptions of the modules is in its statement.

| Module of proofs | About | Rests on |
|---|---|---|
| `BaseModule_proofs` | a module, for any goroutines, hooks, priorities, bounds | nothing more |
| `Planner_proofs` | the loop of `plan`, for any finite graph | nothing more |
| `Manager_proofs` | `Start` and `Stop`, however many calls overlap | nothing more |
| `ManagerSerial_proofs` | the same, calls that do not overlap | `[]Serial`, or `[]Alone` |
| `AppRun_proofs` | `Run` beside any number of `Start`s | in its second half `Stoppers \subseteq {Hook}` |
| `Bus_proofs` | hubs and users, for any number of both | for the registry, one publishing hub, or one life |

The theorems, with the property each of them states:

| Theorem | Says |
|---|---|
| *`BaseModule_proofs`* | |
| `Invariance` | the inductive invariant `IInv` |
| `TypeCorrect`, `UserCodeIsExclusive`, `CleanupsAreConserved`, `DownMeansReleased`, `HooksRunInOrder` | `[]TypeOK`, `[]ExclusiveUserCode`, `[]CleanupConservation`, `[]NothingOwedWhenDown`, `[]PriorityOrder` |
| `InitIsAtomic`, `RetryIsPossible` | the action properties `InitAtomic`, `RetryKeepsCleanups` |
| `ImplementsContract` | `Spec => ImplementsLifecycle` |
| *`Planner_proofs`* | |
| `CountersAreSound` | the inductive invariant `Sound` |
| `TypeCorrect`, `LayersCanRunTogether`, `PlansCorrectly` | `[]TypeOK`, `[]LayersAreIndependent`, `[]PlanIsCorrect` |
| *`Manager_proofs`* | |
| `Invariance` | the inductive invariant `LayingOut` |
| `TypeCorrect`, `InjectedInTime`, `AnnouncedInTime` | `[]TypeOK`, `[]InjectedBeforeInit`, `[]AnnouncedFirst` |
| `ContractsKept` | `Spec => KeepsContracts`: every module goes through `Lifecycle` |
| *`ManagerSerial_proofs`* | |
| `Serially` | the inductive invariant `OneByOne` |
| `RecordedOnce`, `DependenciesFirst`, `DependentsFirst`, `StartedIsUp`, `UpIsStarted`, `RunningIsComplete`, `TeardownsInTurn` | `StartedOnce`, `StartsAfterDependencies`, `StopsBeforeDependencies`, `StartedAreUp`, `RunningAreStarted`, `RunningMeansComplete`, `TeardownsAreOrdered`, always |
| `StartsClean`, `StopsClean` | the action properties `StartsFromNothing`, `StopLeavesNothing` |
| `OneDriver`, `StartsOnly` | callers that cannot overlap: a single one, or any number that only start; the latter with `StartIsExclusive` |
| *`AppRun_proofs`, whoever calls what* | |
| `RunInvariance` | the inductive invariant: `LayingOut`, `RunTypes`, `Stages` |
| `RunTypeCorrect`, `RunPrepares`, `RunKeepsContracts` | `[]RunTypeOK`; `InjectedBeforeInit`, `AnnouncedFirst` and `KeepsContracts` of an application that calls `Run` |
| *`AppRun_proofs`, only the hook calls `Stop`* | |
| `RunIsSerial` | `[]Settled`, and so that calls do not overlap |
| `RunUpIsStarted`, `RunDependentsFirst`, `RunDependenciesFirst`, `RunStartsClean`, `RunKeepsTheList` | what `ManagerSerial_proofs` says, of an application that calls `Run` |
| `ProbesFindUp`, `RunStops`, `RunNamesTheRest` | `[]ProbesUpOrEnding`, and the action properties `RunStopsEverything`, `TimeoutNames` |
| *`Bus_proofs`* | |
| `OrderlyAlways` | the inductive invariant `Orderly` |
| `TypeCorrect`, `OnceWhileRunning` | `[]TypeOK`, `[]SubscribedOnce` |
| `ClosedWhenUnused`, `FindsItsHub` | `[]OpenWhileUsed`, `[]RequireFinds`, with one hub module that publishes |
| `RevokedInTime` | `[]RevokedBeforeShutdown`, with hub modules that live once |

The assumptions on the constants are those the modules declare: a value that stands
for nobody or nothing is neither, priorities are integers, bounds are natural
numbers, a graph has finitely many modules.

### A module

None of the invariants is inductive on its own, since each leaves open where the
callers are. `IInv` adds that:

* `Coherent`: what each `pc` implies for the phase, the clone and the list in hand;
* `Ownership`: one caller at most is between the guard of `Init` or `Destroy` and
  the assignment that publishes the outcome, and the state says which operation
  that is. The guard and the assignment of the transient state are one critical
  section, and every state that lets somebody in is published last: this is the
  fact everything else rests on;
* `Errors`: an aborted call has a cause, an unaborted one has none, which makes
  `Init` atomic;
* `CleanupOrder`: the registered list and the one in hand are in ascending order of
  registration, so that the last one is the latest, which the contract demands of a
  release;
* `CleanupConservation`, and `Owed`: a module that is down owes nothing.

`PriorityOrder` needs only the types. `RetryKeepsCleanups` needs one fact about the
history `found`, in an invariant of its own (`FoundIsKept`): until a `Destroy` is past its
point of no return, what it found is registered still, and what is registered has not
run (`CleanupConservation`). The refinement maps the holder to the caller
`Ownership` speaks of, and every action of `BaseModule` to one of `Lifecycle` or to
a stutter.

### The plan

`Sound` reads the counters of Kahn's algorithm: `indeg[m]` is the number of
positions of the list of `m` that name a module not processed yet, so a module that
lists a name twice waits for it twice and is released once. It is zero exactly for
what is in a layer or has been collected for the next one. Every layer but the first
has, under each of its modules, one it needs in the layer before, and the layers
are disjoint and not empty. `PlanIsCorrect` then follows from two facts about
graphs. A graph has one levelling at most (`LevellingIsUnique`), so what the loop
has built is what `Dependencies` calls the levels. And a set of modules each of
which needs another one of the set has no lowest level (`NothingLowest`), so what
is left over when no layer can be collected cannot be levelled at all.

### Start and Stop

`LayingOut` holds however many calls overlap: types; `Shape`, what every point of a
call implies for its locals (no goroutine of a layer outlives `wg.Wait`, what is
to be started has been injected, a teardown has been announced); and `Ownership`,
that a module past the state guard of its `Init` or `Destroy` is in the hands of one
goroutine. It carries what is true of any manager.

The properties that relate `m.started` to the modules are not true of any manager:
the runs `manager_reentry` and `manager_two_stops` show two calls that undo each
other. They hold while calls do not overlap, which is what `Serial` says:

    Serial == \A t, u \in Drivers : Engaged(t) /\ Engaged(u) => t = u

A call is engaged from its first step until it has nothing left to tear down. So a
`Start` may come in while a `Stop` still has to return, and calls that are refused may
come at any time. `Serial` is a hypothesis on behaviours, and three theorems say who
keeps it: one caller (`OneDriver`), any number of callers that only start, because
`beginStart` checks and sets `state` in one critical section and a rollback keeps
it until nothing is listed (`StartsOnly`), and `Run` (`RunIsSerial`).
`StopLeavesNothing` needs that nobody else is between its call and its return (`Alone`):
another `Start`, let in when the last module has been forgotten, could have brought
one up by the time this `Stop` returns.

`OneByOne` is what makes them inductive. It ties `m.started` to how far the engaged call
is. Going up (`Climbing`), the modules below the current layer are listed, and
nothing else but those of the layer that are done. Going down (`Remains`), what is listed
is what has not been come to, and what of the current layer is not forgotten yet;
the ranks of a plan, and of the fallback to the order of start, both put a module
above what it needs (`Descending`), the latter because `m.started` is in an order of
dependency at any time (`StartOrder`). `Awake` and `Alive` say of the modules themselves
what the list says.

### Run

`Stages` says where the two calls of a `Run` are at each of its points. When only the
hook of go-shutdown calls `Stop`, which is how the documentation wants an application
to be shut down, `Settled` is inductive: until the hook is called nobody tears anything
down but a `Start` that rolls back; when it is called the manager is `Running`
(`HookStops`), and a `Start` that comes between is refused; and the next `Start` is let
in only when the hook, or the rollback, has emptied the list. `RunStopsEverything` and
`TimeoutNames` need two facts more about the history `by`: it names the driver that is
bringing a module up (`ByTells`), and once the hook is through, what it says `Run`
started is gone and stays gone, until another driver starts it as its own (`Gone`).

### The bus

`Orderly` holds of any hubs and users: `Paired`, that the subscriptions of a user are
those its cleanups will close, and `HubsOutlive`, that a user which is starting or
`listed` has the hub module it depends on running. That is enough for `SubscribedOnce`. The registry
holds one hub, so what a user finds there is its own hub only when one hub module
publishes, as the Readme of hubmod asks for (`WithoutRegistry`); then no bound on the
number of lives is needed. `ClosedWhenUnused` needs that a hub on its way down, or
closed, is `Deserted`: whoever is subscribed to it has refused to go down, since
nobody else is neither listed nor down. `RevokedInTime` is the other way round: any number of hub
modules may publish, but none may be started again, since the cleanup that revokes
is registered by the constructor. The run `bus_restart` shows why.

### Only model-checked

Liveness is out of the prover's reach: `CallsReturn` of a module and of a manager,
`Settles`, `Terminates` and `ShutdownIsBounded` are checked by TLC only.

## What is not modelled, and the plan

Not modelled for good: logging, error texts and `HookError`; `SetConfig`,
`SetLogger`, the options and `Phase.Valid`, which no branch of the lifecycle
depends on; the examples, but for the worker; `ExitCode`, and the exit of the
process on a second signal (`WithForceOnSecondSignal`), which happen in go-shutdown;
a signal before `Wait` has installed its handler, which is the operating system's.
What a health check answers is left out, and so is the delivery of events and
what `Drain` waits for, which is msghub's.

Simplifications to know of. A hook is a point where its caller may be for any
time, a cleanup is one step. `Register` of a name twice, of an empty name or of a
nil module changes nothing and is no action; neither is a second `Run`, which is
refused. `started` as `stopLayers` sees it is a
set with positions; with two goroutines that start and stop at will it may list
a module twice, which would matter only to its fallback for a graph that cannot
be planned, and the runs that reach the fallback have one goroutine.

What is left to do:

1. `Bus`: two hub modules that publish, where the rollback of the second revokes the
   entry of the first (`hubmod.go` 130).
2. The hazards of `PROJECT.json` that no property covers: a hook removed while its phase
   runs (`base.go` 498), a context canceled in the last steps of a teardown (`base.go`
   367, `hubmod.go` 142), a rollback that hangs (`manager.go` 315).
3. `StopLeavesNothing` for a `Stop` beside `Start`s that come after its last `forget`:
   weaker than it is stated now, and true without `Alone`.
