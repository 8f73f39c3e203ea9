--------------------------------- MODULE AppRun ---------------------------------
(***************************************************************************)
(* Run, Shutdown and Health (manager.go), over Manager.                    *)
(*                                                                         *)
(* One goroutine calls Run.  go-shutdown is external: its Wait blocks      *)
(* until the context is canceled, a signal arrives or the broadcast fires; *)
(* it then runs the one hook it was given, Stop, once, in a goroutine of   *)
(* its own and under a context that only the timeout cancels, and returns  *)
(* when the hook or the timeout does.  Another Wait returns the first      *)
(* result.  A hook may ignore its context for ever.                        *)
(***************************************************************************)
EXTENDS Manager

CONSTANTS Runner,       \* the driver that calls Run
          Hook,         \* the driver go-shutdown runs Stop in
          HasTimeout,   \* whether WithShutdownTimeout is positive
          Hanging,      \* modules whose Destroy may never end
          Checkers      \* modules that implement HealthChecker

ASSUME RunAssumption == /\ {Runner, Hook} \subseteq Drivers
                        /\ Runner # Hook
                        /\ HasTimeout \in BOOLEAN

VARIABLES ran,          \* m.ran
          run,          \* where Run is
          interrupted,  \* whether the context of Run is canceled
          spent,        \* whether the shutdown sequence has been run
          result,       \* what Wait, or Run, returned
          named,        \* the modules the error of Run names
          probes,       \* Health: the modules still to be probed
          asked,        \* history: somebody asked for a shutdown
          by            \* history: the driver that initialized a module last

local   == <<ran, run, interrupted, spent, result, named>>
history == <<asked, by>>
runVars == <<vars, local, probes, history>>
Others  == Drivers \ {Runner, Hook}

RunInit == /\ Init
           /\ ran = FALSE
           /\ run = "idle"
           /\ interrupted = FALSE
           /\ spent = FALSE
           /\ result = "none"
           /\ named = {}
           /\ probes = {}
           /\ asked = FALSE
           /\ by = [n \in Modules |-> NoDriver]

-----------------------------------------------------------------------------
(* Run                                                                     *)

BeginRunAgain == /\ run = "idle"  \* mutant: no m.ran
                 /\ ran' = TRUE
                 /\ run' = "begun"
                 /\ UNCHANGED <<vars, interrupted, spent, result, named, probes, history>>

\* beginRun; a second Run is refused and touches nothing.
BeginRun == /\ run = "idle"
            /\ ~ran
            /\ ran' = TRUE
            /\ run' = "begun"
            /\ UNCHANGED <<vars, interrupted, spent, result, named, probes, history>>

RunCallsStart == /\ run = "begun"
                 /\ BeginStart(Runner) \/ StartRefused(Runner)
                 /\ run' = "start"
                 /\ UNCHANGED <<ran, interrupted, spent, result, named, probes, history>>

StartReturned(ok) == run = "start" /\ pc[Runner] = "idle" /\ (outcome[Runner] = "ok" <=> ok)

RunFails == /\ StartReturned(FALSE)
            /\ run' = "idle"
            /\ result' = "start failed"
            /\ UNCHANGED <<vars, ran, interrupted, spent, named, probes, history>>

RunWaits == /\ StartReturned(TRUE)
            /\ run' = "wait"
            /\ UNCHANGED <<vars, ran, interrupted, spent, result, named, probes, history>>

\* Wait is woken, by a broadcast that fired before it was called just as well.
Wake == /\ run = "wait"
        /\ interrupted \/ ended
        /\ spent' = TRUE
        /\ IF spent THEN run' = "describe" /\ UNCHANGED vars
                    ELSE run' = "stop" /\ BeginStop(Hook)
        /\ UNCHANGED <<ran, interrupted, result, named, probes, history>>

HookReturns == /\ run = "stop"
               /\ pc[Hook] = "idle"
               /\ run' = "describe"
               /\ result' = outcome[Hook]
               /\ UNCHANGED <<vars, ran, interrupted, spent, named, probes, history>>

NoTimeout == FALSE  \* mutant: the timeout is not handed to go-shutdown

\* The shutdown timeout expires: the context of Stop is canceled.
Deadline == /\ HasTimeout
            /\ Cancel(Hook)
            /\ UNCHANGED <<local, probes, history>>

\* Wait gives up on the hook, and leaves it behind.
TimesOut == /\ run = "stop"
            /\ canceled[Hook]
            /\ run' = "describe"
            /\ result' = "timeout"
            /\ UNCHANGED <<vars, ran, interrupted, spent, named, probes, history>>

NotReached == todo[Hook]  \* mutant: the layers Stop has not come to

Remaining == Range(started)

\* describeTimeout
RunReturns == /\ run = "describe"
              /\ run' = "idle"
              /\ named' = IF result = "timeout" THEN Remaining ELSE {}
              /\ UNCHANGED <<vars, ran, interrupted, spent, result, probes, history>>

-----------------------------------------------------------------------------
(* The other goroutines                                                    *)

\* Shutdown, or a signal.
Shutdown == /\ ~asked \/ ~ended
            /\ asked' = TRUE
            /\ ended' = Announcement
            /\ UNCHANGED <<deps, started, mstate, injected, mod, locals, kept, local, probes, by>>

\* The context of Run is canceled, and with it that of its Start.
Interrupt == /\ run \in {"start", "wait"}
             /\ ~interrupted
             /\ interrupted' = TRUE
             /\ asked' = TRUE
             /\ IF pc[Runner] # "idle" /\ ~aborting[Runner] THEN Cancel(Runner) ELSE UNCHANGED vars
             /\ UNCHANGED <<ran, run, spent, result, named, probes, by>>

Registered == DOMAIN deps  \* mutant: m.nodes instead of m.started

Probed == Range(started)

\* Health collects the probes in a critical section and runs them outside.
CollectProbes == /\ probes = {}
                 /\ Probed \cap Checkers # {}
                 /\ probes' = Probed \cap Checkers
                 /\ UNCHANGED <<vars, local, history>>

HealthCheck(n) == /\ n \in probes
                  /\ probes' = probes \ {n}
                  /\ UNCHANGED <<vars, local, history>>

OtherCalls(t) == /\ Call(t) \/ Cancel(t)
                 /\ UNCHANGED <<local, probes, history>>

Drive(t) == /\ DriverStep(t)
            /\ UNCHANGED <<local, probes, history>>

Module_(t, n) == /\ ModuleStep(t, n)
                 /\ by' = IF mod[n] # "Initializing" /\ mod'[n] = "Initializing" THEN [by EXCEPT ![n] = t] ELSE by
                 /\ UNCHANGED <<local, probes, asked>>

-----------------------------------------------------------------------------
RunStep == \/ BeginRun \/ RunCallsStart \/ RunFails \/ RunWaits \/ Wake
           \/ HookReturns \/ TimesOut \/ RunReturns

RunNext == \/ RunStep \/ Deadline \/ Shutdown \/ Interrupt
           \/ CollectProbes \/ \E n \in Modules : HealthCheck(n)
           \/ \E t \in Others : OtherCalls(t)
           \/ \E t \in Drivers : Drive(t)
           \/ \E t \in Drivers : \E n \in DOMAIN go[t] : Module_(t, n)

RunSpec == RunInit /\ [][RunNext]_runVars

\* Goroutines run, hooks return but for those that hang, time passes.
MayHang(t, n) == n \in Hanging /\ go[t][n] \in {"destroy", "release"}

RunFairSpec == /\ RunSpec
               /\ WF_runVars(RunStep)
               /\ WF_runVars(Deadline)
               /\ \A t \in Drivers : WF_runVars(Drive(t))
               /\ \A t \in Drivers, n \in Modules :
                    WF_runVars(n \in DOMAIN go[t] /\ ~MayHang(t, n) /\ Module_(t, n))

-----------------------------------------------------------------------------
(* Properties                                                              *)

\* The type of every variable.
RunTypeOK == /\ TypeOK
             /\ run \in {"idle", "begun", "start", "wait", "stop", "describe"}
             /\ {ran, interrupted, spent, asked} \subseteq BOOLEAN
             /\ result \in {"none", "start failed", "ok", "error", "aborted", "timeout"}
             /\ named \cup probes \subseteq DOMAIN deps
             /\ by \in [Modules -> Drivers \cup {NoDriver}]

\* A Run that was not cut short has stopped what it started, but for the modules
\* that refused; also when Run is called again, or another goroutine calls Start
\* all the time ("after which it gracefully stops every module").
RunStopsEverything ==
  [][run = "describe" /\ run' = "idle" /\ result \notin {"aborted", "timeout"} =>
       \A n \in Modules : by[n] = Runner => mod[n] \in Startable \/ n \in kept]_runVars

\* A timeout names every module of this Run that is still up, one that hangs in
\* its Destroy included, but for those that refused their teardown, and none that
\* had gone down before.  Those that refused run on, and are not named although Run
\* says "annotated with the modules that were still running": Stop has forgotten
\* them by then (Manager, StartedIsTruthful).
TimeoutNames ==
  [][run = "describe" /\ run' = "idle" /\ result = "timeout" =>
       \A n \in Modules :
         /\ by[n] = Runner /\ mod[n] \in {"Running", "Destroying"} /\ n \notin kept => n \in named'
         /\ n \in named' => mod[n] \in {"Running", "Destroying"} \/ At("forget", n) # {}]_runVars

\* A shutdown that is asked for, before Run waits or after, ends in time, even if
\* a module hangs in its teardown (WithShutdownTimeout).
ShutdownIsBounded == run = "wait" /\ asked ~> run = "idle"

\* Health, which probes without the lock, may come upon a module that is not
\* running, but never before the shutdown has been announced: until then what it
\* collected is up, a Start that rolls back included.
ProbesUpOrEnding == ended \/ \A n \in probes : mod[n] = "Running"

=============================================================================
