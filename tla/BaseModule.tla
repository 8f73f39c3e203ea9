------------------------------- MODULE BaseModule -------------------------------
(***************************************************************************)
(* BaseAppModule (base.go): the lifecycle of one module, driven by any     *)
(* number of goroutines at once.                                           *)
(*                                                                         *)
(* An action is one critical section of b.mu, or one thing that happens    *)
(* while the lock is free: a hook starts, a hook returns, a cleanup runs.  *)
(* Whatever a hook body does to the module happens while its caller is at  *)
(* pc "hook", as an action of the environment below.                       *)
(***************************************************************************)
EXTENDS Integers, Sequences, SequencesExt, FiniteSets

CONSTANTS Callers,      \* goroutines that may call Init and Destroy
          NoCaller,     \* none of them
          Hooks,        \* the hooks that may be registered
          Priority,     \* Hook.Priority
          NameOf,       \* Hook.Name
          Anonymous,    \* the empty name
          Runnable,     \* the hooks whose Run is not nil
          MaxHooks,     \* bound: hooks registered for each phase at a time
          MaxCleanups   \* bound: calls of AddCleanup

StartPhases   == {"BeforeStart", "AfterStart"}
DestroyPhases == {"BeforeDestroy", "AfterDestroy"}
Phases        == StartPhases \cup DestroyPhases

ASSUME CallerAssumption == NoCaller \notin Callers
ASSUME HookAssumption == /\ Priority \in [Hooks -> Int]
                         /\ Runnable \subseteq Hooks
                         /\ MaxHooks \in [Phases -> Nat]
                         /\ MaxCleanups \in Nat

VARIABLES
  \* fields of BaseAppModule
  state, hooks, cleanups,
  \* locals of the Init or Destroy a caller is executing
  pc,          \* where it is
  phase,       \* the phase it is in
  snap,        \* the clone of the hooks of that phase
  done,        \* the positions of snap that runPhase is through with
  taken,       \* the cleanups runCleanups still has to run
  canceled,    \* whether its context is canceled
  err,         \* the causes joined into its error; what it returned, once idle
  \* history
  registered,  \* number of AddCleanup calls; a cleanup is the number of its call
  owed,        \* the cleanups that a start hook registered
  runs,        \* how often each cleanup has run
  found        \* the cleanups that were registered when the last Destroy began

locals  == <<pc, phase, snap, done, taken, canceled, err>>
history == <<registered, owed, runs, found>>
vars    == <<state, hooks, cleanups, locals, history>>

States        == {"Created", "Initializing", "Running", "Destroying", "Destroyed", "Failed"}
Startable     == {"Created", "Destroyed", "Failed"}
Points        == {"idle", "check", "hook", "failInit", "revert", "take", "unwind"}
Causes        == {"ErrAlreadyInitialized", "ErrNotInitialized", "hook", "context", "cleanup"}
CleanupIds    == 1..MaxCleanups
Names         == {NameOf[h] : h \in Hooks}

Init == /\ state = "Created"
        /\ hooks = [p \in Phases |-> <<>>]
        /\ cleanups = <<>>
        /\ pc = [c \in Callers |-> "idle"]
        /\ phase = [c \in Callers |-> "none"]
        /\ snap = [c \in Callers |-> <<>>]
        /\ done = [c \in Callers |-> {}]
        /\ taken = [c \in Callers |-> <<>>]
        /\ canceled = [c \in Callers |-> FALSE]
        /\ err = [c \in Callers |-> {}]
        /\ registered = 0
        /\ owed = {}
        /\ runs = [i \in CleanupIds |-> 0]
        /\ found = {}

-----------------------------------------------------------------------------
(* orderHooks and the loop of runPhase                                     *)

LessBySubtraction(a, b) == ((a - b + 128) % 256) - 128 < 0   \* mutant: 8-bit a - b

\* cmp.Compare(a, b) < 0
Less(a, b) == a < b

\* Position i of the snapshot h comes before position j in the stable sort.
Precedes(h, i, j) == \/ Less(Priority[h[i]], Priority[h[j]])
                     \/ ~Less(Priority[h[j]], Priority[h[i]]) /\ i < j

Pending(c) == DOMAIN snap[c] \ done[c]

\* The position the loop of runPhase looks at next.
IsNext(c, i) == /\ i \in Pending(c)
                /\ \A j \in Pending(c) \ {i} : Precedes(snap[c], i, j)

Goto(c, point)    == pc' = [pc EXCEPT ![c] = point]

LoseCause(c, e) == UNCHANGED err  \* mutant: the error is lost

AddCause(c, e) == err' = [err EXCEPT ![c] = @ \cup {e}]

EnterPhaseKeepingDone(c, p) == /\ pc' = [pc EXCEPT ![c] = "check"]  \* mutant
                               /\ phase' = [phase EXCEPT ![c] = p]
                               /\ snap' = [snap EXCEPT ![c] = hooks[p]]
                               /\ UNCHANGED done

EnterPhase(c, p)  == /\ pc' = [pc EXCEPT ![c] = "check"]
                     /\ phase' = [phase EXCEPT ![c] = p]
                     /\ snap' = [snap EXCEPT ![c] = hooks[p]]
                     /\ done' = [done EXCEPT ![c] = {}]

PhaseComplete(c, p) == pc[c] = "check" /\ phase[c] = p /\ Pending(c) = {}

\* The call returns; err[c] stays as what it returned.
Leave(c) == /\ pc' = [pc EXCEPT ![c] = "idle"]
            /\ phase' = [phase EXCEPT ![c] = "none"]
            /\ snap' = [snap EXCEPT ![c] = <<>>]
            /\ done' = [done EXCEPT ![c] = {}]
            /\ canceled' = [canceled EXCEPT ![c] = FALSE]

SkipNilHook(c) == /\ pc[c] = "check"
                  /\ ~canceled[c]
                  /\ \E i \in Pending(c) : /\ IsNext(c, i)
                                           /\ snap[c][i] \notin Runnable
                                           /\ done' = [done EXCEPT ![c] = @ \cup {i}]
                  /\ UNCHANGED <<state, hooks, cleanups, pc, phase, snap, taken, canceled, err, history>>

StartHook(c) == /\ pc[c] = "check"
                /\ ~canceled[c]
                /\ \E i \in Pending(c) : IsNext(c, i) /\ snap[c][i] \in Runnable
                /\ Goto(c, "hook")
                /\ UNCHANGED <<state, hooks, cleanups, phase, snap, done, taken, canceled, err, history>>

HookSucceeds(c) == /\ pc[c] = "hook"
                   /\ \E i \in Pending(c) : /\ IsNext(c, i)
                                            /\ done' = [done EXCEPT ![c] = @ \cup {i}]
                   /\ Goto(c, "check")
                   /\ UNCHANGED <<state, hooks, cleanups, phase, snap, taken, canceled, err, history>>

\* Where Init and Destroy go when runPhase hands them an error.
AbortPhase(c) == \/ /\ phase[c] \in StartPhases
                    /\ Goto(c, "failInit")
                    /\ UNCHANGED <<phase, snap, done, canceled>>
                 \/ /\ phase[c] = "BeforeDestroy"
                    /\ Goto(c, "revert")
                    /\ UNCHANGED <<phase, snap, done, canceled>>
                 \/ /\ phase[c] = "AfterDestroy"
                    /\ Leave(c)

\* The hook returns an error, or panics and runHook recovers it.
HookFails(c) == /\ pc[c] = "hook"
                /\ AddCause(c, "hook")
                /\ AbortPhase(c)
                /\ UNCHANGED <<state, hooks, cleanups, taken, history>>

PhaseCanceled(c) == /\ pc[c] = "check"
                    /\ Pending(c) # {}
                    /\ canceled[c]
                    /\ AddCause(c, "context")
                    /\ AbortPhase(c)
                    /\ UNCHANGED <<state, hooks, cleanups, taken, history>>

-----------------------------------------------------------------------------
(* Init                                                                    *)

InitEnter(c) == /\ pc[c] = "idle"
                /\ state \in Startable
                /\ state' = "Initializing"
                /\ EnterPhase(c, "BeforeStart")
                /\ err' = [err EXCEPT ![c] = {}]
                /\ UNCHANGED <<hooks, cleanups, taken, canceled, history>>

InitRefused(c) == /\ pc[c] = "idle"
                  /\ state \notin Startable
                  /\ err' = [err EXCEPT ![c] = {"ErrAlreadyInitialized"}]
                  /\ UNCHANGED <<state, hooks, cleanups, pc, phase, snap, done, taken, canceled, history>>

PublishEarly(c) == /\ PhaseComplete(c, "BeforeStart")  \* mutant: Running before AfterStart
                   /\ EnterPhase(c, "AfterStart")
                   /\ state' = "Running"
                   /\ UNCHANGED <<hooks, cleanups, taken, canceled, err, history>>

SnapshotAfterStart(c) == /\ PhaseComplete(c, "BeforeStart")
                         /\ EnterPhase(c, "AfterStart")
                         /\ UNCHANGED <<state, hooks, cleanups, taken, canceled, err, history>>

PublishRunning(c) == /\ PhaseComplete(c, "AfterStart")
                     /\ state' = "Running"
                     /\ Leave(c)
                     /\ UNCHANGED <<hooks, cleanups, taken, err, history>>

FailInitNoRollback(c) == /\ pc[c] = "failInit"  \* mutant: skips runCleanups
                         /\ state' = "Destroying"
                         /\ Goto(c, "unwind")
                         /\ UNCHANGED <<hooks, cleanups, phase, snap, done, taken, canceled, err, history>>

FailInit(c) == /\ pc[c] = "failInit"
               /\ state' = "Destroying"
               /\ Goto(c, "take")
               /\ UNCHANGED <<hooks, cleanups, phase, snap, done, taken, canceled, err, history>>

MarkFailedFirstPhase(c) == /\ pc[c] = "unwind"  \* mutant: only for a failed BeforeStart
                           /\ taken[c] = <<>>
                           /\ phase[c] = "BeforeStart"
                           /\ state' = "Failed"
                           /\ Leave(c)
                           /\ UNCHANGED <<hooks, cleanups, taken, err, history>>

MarkFailed(c) == /\ pc[c] = "unwind"
                 /\ taken[c] = <<>>
                 /\ phase[c] \in StartPhases
                 /\ state' = "Failed"
                 /\ Leave(c)
                 /\ UNCHANGED <<hooks, cleanups, taken, err, history>>

-----------------------------------------------------------------------------
(* runCleanups: shared by the rollback of Init and by Destroy              *)

CopyCleanups(c) == /\ pc[c] = "take" \/ PhaseComplete(c, "BeforeDestroy")  \* mutant: not cleared
                   /\ taken' = [taken EXCEPT ![c] = cleanups]
                   /\ Goto(c, "unwind")
                   /\ UNCHANGED <<state, hooks, cleanups, phase, snap, done, canceled, err, history>>

TakeCleanups(c) == /\ pc[c] = "take" \/ PhaseComplete(c, "BeforeDestroy")
                   /\ taken' = [taken EXCEPT ![c] = cleanups]
                   /\ cleanups' = <<>>
                   /\ Goto(c, "unwind")
                   /\ UNCHANGED <<state, hooks, phase, snap, done, canceled, err, history>>

\* The last registered of those left runs; an error does not stop the rest.
RunCleanup(c) == /\ pc[c] = "unwind"
                 /\ taken[c] # <<>>
                 /\ runs' = [runs EXCEPT ![Last(taken[c])] = @ + 1]
                 /\ taken' = [taken EXCEPT ![c] = Front(@)]
                 /\ UNCHANGED err \/ AddCause(c, "cleanup")
                 /\ UNCHANGED <<state, hooks, cleanups, pc, phase, snap, done, canceled, registered, owed, found>>

-----------------------------------------------------------------------------
(* Destroy                                                                 *)

CleanBeforeHooks(c) == /\ pc[c] = "idle"  \* mutant: runCleanups before the BeforeDestroy hooks
                       /\ state = "Running"
                       /\ state' = "Destroying"
                       /\ EnterPhase(c, "BeforeDestroy")
                       /\ err' = [err EXCEPT ![c] = {}]
                       /\ found' = Range(cleanups)
                       /\ cleanups' = <<>>
                       /\ runs' = [i \in CleanupIds |-> IF i \in Range(cleanups) THEN runs[i] + 1 ELSE runs[i]]
                       /\ UNCHANGED <<hooks, taken, canceled, registered, owed>>

DestroyEnter(c) == /\ pc[c] = "idle"
                   /\ state = "Running"
                   /\ state' = "Destroying"
                   /\ EnterPhase(c, "BeforeDestroy")
                   /\ err' = [err EXCEPT ![c] = {}]
                   /\ found' = Range(cleanups)
                   /\ UNCHANGED <<hooks, cleanups, taken, canceled, registered, owed, runs>>

DestroyRefused(c) == /\ pc[c] = "idle"
                     /\ state # "Running"
                     /\ err' = [err EXCEPT ![c] = {"ErrNotInitialized"}]
                     /\ UNCHANGED <<state, hooks, cleanups, pc, phase, snap, done, taken, canceled, history>>

NoRevert(c) == /\ pc[c] = "revert"  \* mutant: leaves Destroying behind
               /\ Leave(c)
               /\ UNCHANGED <<state, hooks, cleanups, taken, err, history>>

RevertToRunning(c) == /\ pc[c] = "revert"
                      /\ state' = "Running"
                      /\ Leave(c)
                      /\ UNCHANGED <<hooks, cleanups, taken, err, history>>

MarkDestroyed(c) == /\ pc[c] = "unwind"
                    /\ taken[c] = <<>>
                    /\ phase[c] = "BeforeDestroy"
                    /\ state' = "Destroyed"
                    /\ EnterPhase(c, "AfterDestroy")
                    /\ UNCHANGED <<hooks, cleanups, taken, canceled, err, history>>

DestroyReturns(c) == /\ PhaseComplete(c, "AfterDestroy")
                     /\ Leave(c)
                     /\ UNCHANGED <<state, hooks, cleanups, taken, err, history>>

-----------------------------------------------------------------------------
(* What any goroutine, hook bodies included, may do at any time            *)

AddHook(p, h) == /\ Len(hooks[p]) < MaxHooks[p]
                 /\ hooks' = [hooks EXCEPT ![p] = Append(@, h)]
                 /\ UNCHANGED <<state, cleanups, locals, history>>

\* slices.DeleteFunc: the hooks at the positions kept move up, in their order.
RemoveHook(p, n) ==
  LET kept == {i \in DOMAIN hooks[p] : NameOf[hooks[p][i]] # n}
  IN  /\ n # Anonymous
      /\ \E at \in [1..Cardinality(kept) -> kept] :
           /\ \A i, j \in DOMAIN at : i < j => at[i] < at[j]
           /\ hooks' = [hooks EXCEPT ![p] = [i \in DOMAIN at |-> @[at[i]]]]
      /\ UNCHANGED <<state, cleanups, locals, history>>

RegisterFirst == /\ registered < MaxCleanups  \* mutant: the wrong end of the list
                 /\ registered' = registered + 1
                 /\ cleanups' = <<registered'>> \o cleanups

Register == /\ registered < MaxCleanups
            /\ registered' = registered + 1
            /\ cleanups' = Append(cleanups, registered')

\* The canonical use: a start hook registers the release of what it acquired.
AddCleanupInStartHook(c) == /\ pc[c] = "hook"
                            /\ phase[c] \in StartPhases
                            /\ Register
                            /\ owed' = owed \cup {registered'}
                            /\ UNCHANGED <<state, hooks, locals, runs, found>>

\* Any other use: a constructor, a teardown hook, a cleanup, a background goroutine.
AddCleanup == /\ Register
              /\ UNCHANGED <<state, hooks, locals, owed, runs, found>>

CancelContext(c) == /\ pc[c] # "idle"
                    /\ ~canceled[c]
                    /\ canceled' = [canceled EXCEPT ![c] = TRUE]
                    /\ UNCHANGED <<state, hooks, cleanups, pc, phase, snap, done, taken, err, history>>

-----------------------------------------------------------------------------
\* The steps of a call that has been accepted.
Step(c) == \/ SkipNilHook(c) \/ StartHook(c) \/ HookSucceeds(c) \/ HookFails(c) \/ PhaseCanceled(c)
           \/ SnapshotAfterStart(c) \/ PublishRunning(c) \/ FailInit(c) \/ MarkFailed(c)
           \/ TakeCleanups(c) \/ RunCleanup(c)
           \/ RevertToRunning(c) \/ MarkDestroyed(c) \/ DestroyReturns(c)

Call(c) == InitEnter(c) \/ InitRefused(c) \/ DestroyEnter(c) \/ DestroyRefused(c)

Environment == \/ \E p \in Phases, h \in Hooks : AddHook(p, h)
               \/ \E p \in Phases, n \in Names : RemoveHook(p, n)
               \/ \E c \in Callers : AddCleanupInStartHook(c) \/ CancelContext(c)
               \/ AddCleanup

Next == (\E c \in Callers : Step(c) \/ Call(c)) \/ Environment

Spec == Init /\ [][Next]_vars

\* A goroutine that is inside Init or Destroy keeps running, and a hook returns.
FairSpec == Spec /\ \A c \in Callers : WF_vars(Step(c))

-----------------------------------------------------------------------------
(* Properties                                                              *)

\* The type of every variable; runPhase only counts positions of its own clone.
TypeOK == /\ state \in States
          /\ hooks \in [Phases -> Seq(Hooks)]
          /\ cleanups \in Seq(CleanupIds)
          /\ pc \in [Callers -> Points]
          /\ phase \in [Callers -> Phases \cup {"none"}]
          /\ snap \in [Callers -> Seq(Hooks)]
          /\ done \in [Callers -> SUBSET Nat]
          /\ \A c \in Callers : done[c] \subseteq DOMAIN snap[c]
          /\ taken \in [Callers -> Seq(CleanupIds)]
          /\ canceled \in [Callers -> BOOLEAN]
          /\ err \in [Callers -> SUBSET Causes]
          /\ registered \in 0..MaxCleanups
          /\ owed \in SUBSET CleanupIds
          /\ runs \in [CleanupIds -> Nat]
          /\ found \in SUBSET CleanupIds

\* The caller is between the guard of Init or Destroy and the assignment that
\* publishes the outcome.  The AfterDestroy phase comes after that assignment.
Holds(c) == pc[c] # "idle" /\ phase[c] # "AfterDestroy"

\* The caller is inside user code that sets the module up or takes it down: a
\* start hook, a BeforeDestroy hook or a cleanup.
InUserCode(c) == \/ pc[c] = "hook" /\ phase[c] # "AfterDestroy"
                 \/ pc[c] = "unwind" /\ taken[c] # <<>>

\* Start hooks, BeforeDestroy hooks and cleanups of two calls never run at the
\* same time: a Destroy cannot slip in before Init has published Running, nor
\* beside its rollback (base.go, comment of Init).
ExclusiveUserCode == \A c, d \in Callers : InUserCode(c) /\ InUserCode(d) => c = d

\* Every hook runPhase is through with sorts at or before every hook it still
\* has to look at, and equal priorities keep their order of registration, also
\* for priorities as far apart as the integers allow (orderHooks).
PriorityOrder ==
  \A c \in Callers : \A i \in done[c], j \in Pending(c) :
    \/ Priority[snap[c][i]] < Priority[snap[c][j]]
    \/ Priority[snap[c][i]] = Priority[snap[c][j]] /\ i < j

\* A cleanup is in one place only: still registered, in the hands of one
\* teardown, or run; and it runs at most once (AddCleanup: "each executes at
\* most once"), and none is dropped on the way.
CleanupConservation ==
  \A i \in 1..registered :
    LET waiting == i \in Range(cleanups)
        held    == {c \in Callers : i \in Range(taken[c])}
    IN  \/ runs[i] = 0 /\ waiting /\ held = {}
        \/ runs[i] = 0 /\ ~waiting /\ \E c \in Callers : held = {c}
        \/ runs[i] = 1 /\ ~waiting /\ held = {}

\* A module that is down, whether it was destroyed or its start failed, has
\* released everything its start hooks ever registered a release for (Init:
\* "the module is therefore never left half-started").
NothingOwedWhenDown == state \in Startable => \A i \in owed : runs[i] = 1

\* Init is atomic: it returns nil exactly when it leaves the module Running, and
\* an error exactly when it leaves it Failed.
InitAtomic ==
  [][\A c \in Callers :
       phase[c] \in StartPhases /\ pc'[c] = "idle" =>
         \/ state' = "Running" /\ err'[c] = {}
         \/ state' = "Failed" /\ err'[c] # {}]_vars

\* A Destroy that gives the module back as Running says so with an error, and has
\* run none of the cleanups it found: each is registered still and has never run,
\* so that a second Destroy finds all of them (Destroy: "so that Destroy can be
\* retried").
RetryKeepsCleanups ==
  [][state = "Destroying" /\ state' = "Running" =>
       /\ \E c \in Callers : phase[c] = "BeforeDestroy" /\ pc'[c] = "idle" /\ err'[c] # {}
       /\ found \subseteq Range(cleanups')
       /\ \A i \in found : runs'[i] = 0]_vars

\* The module implements the abstract lifecycle.  The holder is the caller for
\* which Holds is true, and what is due is what start hooks registered and no
\* teardown has run.
Stage(c) == CASE phase[c] \in StartPhases /\ pc[c] \in {"check", "hook", "failInit"} -> "start"
              [] phase[c] \in StartPhases /\ pc[c] \in {"take", "unwind"} -> "rollback"
              [] phase[c] = "BeforeDestroy" /\ pc[c] # "unwind" -> "stop"
              [] OTHER -> "release"

Holder == IF \E c \in Callers : Holds(c) THEN CHOOSE c \in Callers : Holds(c) ELSE NoCaller

HeldStage == IF Holder = NoCaller THEN "none" ELSE Stage(Holder)

Due == {i \in owed : runs[i] = 0}

Contract == INSTANCE Lifecycle WITH holder <- Holder, stage <- HeldStage, due <- Due

\* Every step of the module is a step of its contract, or a stutter.
ImplementsLifecycle == Contract!Spec

\* Init and Destroy return.
CallsReturn == \A c \in Callers : pc[c] # "idle" ~> pc[c] = "idle"

\* A module never stays in between: Initializing and Destroying are passed through.
Settles == state \in {"Initializing", "Destroying"} ~> state \notin {"Initializing", "Destroying"}

=============================================================================
