-------------------------- MODULE ManagerSerial_proofs --------------------------
(***************************************************************************)
(* Proofs about the Manager of an application that does not overlap its    *)
(* calls: of the drivers inside a Start or Stop, at most one has work left *)
(* to do (Serial).  Start and Stop are not made for more: a Stop beside a  *)
(* Start lets a second Start in (the run reentry).  Any number of Starts   *)
(* may overlap as long as nobody calls Stop (StartsOnly), and a single     *)
(* driver cannot overlap anything (OneDriver).                             *)
(*                                                                         *)
(* OneByOne, the inductive invariant, ties what the engaged driver has     *)
(* done so far to m.started: going up, the modules below the current layer *)
(* are listed; going down, what is listed is what it has not come to.      *)
(***************************************************************************)
EXTENDS Manager_proofs

\* A teardown with nothing left to tear down.
Finishing(t) == pc[t] \in {"teardown", "stopping"} /\ todo[t] = {} /\ LayerDone(t)

\* A Start or Stop that has work left to do.
Engaged(t) == pc[t] # "idle" /\ ~Finishing(t)

\* Calls do not overlap.
Serial == \A t, u \in Drivers : Engaged(t) /\ Engaged(u) => t = u

\* The ranks of t order the modules among themselves, and leave none out.
Sorted(t) ==
  \A n \in DOMAIN rank[t] : \A d \in Needs(deps, n) : d \in DOMAIN rank[t] /\ rank[t][d] < rank[t][n]

\* A Start, halfway up: the modules below the current layer are up.
Climbing(t) ==
  /\ \A n \in DOMAIN rank[t] \ todo[t] : n \in DOMAIN go[t] \/ IsUp(n)
  /\ Range(started) \subseteq DOMAIN rank[t] \ todo[t]
  /\ \A n \in DOMAIN go[t] : /\ go[t][n] # "done" => ~IsUp(n)
                             /\ go[t][n] = "done" => IsUp(n) \/ n \in failed[t]
                             /\ go[t][n] = "append" => mod[n] = "Running"
  /\ \A n \in DOMAIN go[t], m \in DOMAIN go[t] : rank[t][n] = rank[t][m]
  /\ \A n \in todo[t], m \in DOMAIN rank[t] \ todo[t] : rank[t][m] < rank[t][n]
  /\ \A n \in DOMAIN go[t], m \in DOMAIN rank[t] \ todo[t] : m \in DOMAIN go[t] \/ rank[t][m] < rank[t][n]

\* A Stop that has taken its snapshot: what is listed is what it has not come to.
Remains(t) == Range(started) = todo[t] \cup {n \in DOMAIN go[t] : go[t][n] # "done"}

\* The snapshot ranks every module by its place in the order of start.
Snapshot(t) == /\ started # <<>>
               /\ DOMAIN rank[t] = todo[t]
               /\ \A n \in todo[t] : rank[t][n] \in DOMAIN started /\ started[rank[t][n]] = n

\* A Stop, halfway down: the modules above the current layer are down.
Descending(t) ==
  /\ \A n, m \in DOMAIN rank[t] : n \in Needs(deps, m) => rank[t][n] < rank[t][m]
  /\ \A n, m \in DOMAIN go[t] : rank[t][n] = rank[t][m]
  /\ \A n \in todo[t], m \in DOMAIN go[t] : rank[t][n] < rank[t][m]
  /\ \A n \in DOMAIN go[t] : go[t][n] = "forget" => mod[n] \in Startable \/ n \in kept

\* What the engaged driver has brought about.
Progress(t) ==
  /\ pc[t] \in Up \cup {"plan", "unplannable", "inject"} \/ (pc[t] = "stop" /\ aborting[t]) => mstate = "Starting"
  /\ pc[t] \in {"plan", "unplannable", "inject"} => started = <<>>
  /\ pc[t] = "inject" => todo[t] = DOMAIN rank[t]
  /\ pc[t] \in Up \cup {"inject"} => Sorted(t)
  /\ pc[t] \in Up => Climbing(t)
  /\ pc[t] \in Down => mstate = "Stopped" /\ Remains(t)
  /\ pc[t] = "planStop" => Snapshot(t)
  /\ pc[t] \in {"teardown", "stopping"} => Descending(t)

\* m.started is in the order of dependency, and repeats nothing.
StartOrder == \A i, j \in DOMAIN started : /\ started[i] = started[j] => i = j
                                           /\ started[j] \in Needs(deps, started[i]) => j < i

\* What is running is listed, or about to be, or has refused its teardown.
Awake == \A n \in Modules : mod[n] = "Running" => IsUp(n) \/ n \in kept \/ At("append", n) # {}

\* What is listed is running, or in a teardown.
Alive == \A n \in Range(started) :
           mod[n] = "Running" \/ \E p \in {"destroy", "release", "forget"} : At(p, n) # {}

Closed == mstate = "Running" => \A n \in Range(started) : Needs(deps, n) \subseteq Range(started)

OneByOne == /\ \A t \in Drivers : Engaged(t) => Progress(t)
            /\ StartOrder
            /\ Awake
            /\ Alive
            /\ Closed

-----------------------------------------------------------------------------
(* Who is engaged                                                          *)

LEMMA BusyIsEngaged ==
  ASSUME Shape, NEW t \in Drivers, NEW n \in DOMAIN go[t], go[t][n] # "done"
  PROVE  Engaged(t) /\ pc[t] \in {"starting", "stopping"}
  BY DEF Shape, Fits, Engaged, Finishing, LayerDone

LEMMA ModuleStepNotDone ==
  ASSUME NEW t \in Drivers, NEW n \in DOMAIN go[t], ModuleStep(t, n)
  PROVE  go[t][n] # "done"
  BY DEF ModuleStep, InitModule, InitRefused, InitSucceeds, InitFails, RolledBack, RecordStarted, DestroyModule,
     DestroyRefused, DestroyAbandoned, DestroyCommits, Destroyed, Forget, Advance

LEMMA SparedStaysEngaged ==
  ASSUME NEW u \in Drivers, Spares(u)
  PROVE  Engaged(u)' <=> Engaged(u)
  BY DEF Spares, Engaged, Finishing, LayerDone

\* A driver with nothing left to do does nothing, until it makes its next call.
LEMMA OutOfTheWay ==
  ASSUME LayingOut, NEW t \in Drivers, StepOf(t), ~Engaged(t), ~BeginStart(t), ~BeginStop(t)
  PROVE  ~Engaged(t)' /\ UNCHANGED <<deps, started, mstate, mod, kept>>
<1> USE DEF fields
<1>1. pc \in [Drivers -> Points] /\ DOMAIN go = Drivers /\ todo \in [Drivers -> SUBSET DOMAIN deps]
  BY DEF LayingOut, Types, LocalTypes
<1>2. ~\E n \in DOMAIN go[t] : ModuleStep(t, n)
  BY BusyIsEngaged, ModuleStepNotDone DEF LayingOut
<1>3. CASE pc[t] = "idle"
  <2>1. StartRefused(t)
    BY <1>2, <1>3 DEF StepOf, DriverStep, Call, Cancel, PlanStart, PlanFails, StartUnplannable, InjectContext, StartLayer,
       LayerStarted, StartFinished, Abort, ClaimStop, NothingToStop, PlanStop, StopLayer, LayerStopped, StopAborted,
       StopFinished
  <2> QED BY <1>3, <2>1 DEF StartRefused, Engaged
<1>4. CASE Finishing(t)
  <2>1. LayerStopped(t) \/ StopAborted(t) \/ StopFinished(t) \/ Cancel(t)
    BY <1>2, <1>4 DEF Finishing, StepOf, DriverStep, Call, StartRefused, PlanStart, PlanFails, StartUnplannable,
       InjectContext, StartLayer, LayerStarted, StartFinished, Abort, ClaimStop, NothingToStop, PlanStop, StopLayer
  <2>2. CASE StopAborted(t) \/ StopFinished(t)
    BY <1>1, <2>2 DEF StopAborted, StopFinished, Return, Goto, Set, Engaged
  <2>3. CASE Cancel(t)
    BY <1>4, <2>3 DEF Cancel, Engaged, Finishing, LayerDone
  <2>4. CASE LayerStopped(t)
    BY <1>1, <1>4, <2>4 DEF LayerStopped, Goto, Set, Engaged, Finishing, LayerDone
  <2> QED BY <2>1, <2>2, <2>3, <2>4
<1> QED BY <1>3, <1>4 DEF Engaged

\* What another driver does while u is engaged touches nothing u relies on.
LEMMA NobodyInterferes ==
  ASSUME LayingOut, Serial, Serial', NEW t \in Drivers, StepOf(t), NEW u \in Drivers \ {t}, Engaged(u)
  PROVE  /\ UNCHANGED <<deps, started, mstate, mod, kept>>
         /\ Spares(u)
<1>1. Spares(u) /\ Engaged(u)'
  BY OthersSpared, SparedStaysEngaged DEF LayingOut
<1>2. ~Engaged(t) /\ ~Engaged(t)'
  BY <1>1 DEF Serial
<1>3. ~BeginStart(t) /\ ~BeginStop(t)
  BY <1>2 DEF BeginStart, BeginStop, Goto, Set, LayingOut, Types, LocalTypes, Engaged, Finishing
<1> QED BY <1>1, <1>2, <1>3, OutOfTheWay

\* Calls begin to overlap only when one is accepted while another has work left.
LEMMA SerialKept ==
  ASSUME LayingOut, Serial, NEW t \in Drivers, StepOf(t),
         BeginStart(t) \/ BeginStop(t) => \A u \in Drivers : ~Engaged(u)
  PROVE  Serial'
<1>1. \A u \in Drivers \ {t} : Engaged(u)' <=> Engaged(u)
  BY OthersSpared, SparedStaysEngaged DEF LayingOut
<1>2. CASE Engaged(t) \/ BeginStart(t) \/ BeginStop(t)
  BY <1>1, <1>2 DEF Serial
<1>3. CASE ~Engaged(t) /\ ~BeginStart(t) /\ ~BeginStop(t)
  BY <1>1, <1>3, OutOfTheWay DEF Serial
<1> QED BY <1>2, <1>3

LEMMA ProgressOfOthers ==
  ASSUME LayingOut, Serial, Serial', NEW t \in Drivers, StepOf(t), NEW u \in Drivers \ {t}, Engaged(u)', OneByOne
  PROVE  Progress(u)'
<1>1. Spares(u)
  BY OthersSpared DEF LayingOut
<1>2. Engaged(u) /\ Progress(u)
  BY <1>1, SparedStaysEngaged DEF OneByOne
<1>3. UNCHANGED <<deps, started, mstate, mod, kept>>
  BY <1>2, NobodyInterferes
<1>4. UNCHANGED <<pc[u], rank[u], todo[u], go[u], failed[u], aborting[u]>>
  BY <1>1 DEF Spares
<1>5. /\ Sorted(u)' <=> Sorted(u)
      /\ Remains(u)' <=> Remains(u)
      /\ Snapshot(u)' <=> Snapshot(u)
  BY <1>3, <1>4 DEF Sorted, Remains, Snapshot, Needs
<1>6. Climbing(u)' <=> Climbing(u)
  BY <1>3, <1>4 DEF Climbing, IsUp
<1>7. Descending(u)' <=> Descending(u)
  BY <1>3, <1>4 DEF Descending, Needs
<1> QED BY <1>2, <1>3, <1>4, <1>5, <1>6, <1>7 DEF Progress

-----------------------------------------------------------------------------
(* What the whole of it preserves                                          *)

LEMMA AppendRange ==
  ASSUME NEW S, NEW s \in Seq(S), NEW e
  PROVE  /\ Range(Append(s, e)) = Range(s) \cup {e}
         /\ DOMAIN Append(s, e) = 1..(Len(s) + 1)
         /\ \A i \in DOMAIN s : Append(s, e)[i] = s[i]
         /\ Append(s, e)[Len(s) + 1] = e
  BY DEF Range

\* Only the step of a module's goroutine changes what is started.
LEMMA StartedChanges ==
  ASSUME LayingOut, NEW t \in Drivers, NEW n \in DOMAIN go[t], ModuleStep(t, n)
  PROVE  started' = started \/ RecordStarted(t, n) \/ Forget(t, n)
  BY DEF ModuleStep, InitModule, InitRefused, InitSucceeds, InitFails, RolledBack,
     DestroyModule, DestroyRefused, DestroyAbandoned, DestroyCommits, Destroyed, fields

LEMMA WhileClimbing ==
  ASSUME LayingOut, OneByOne, NEW t \in Drivers, NEW n \in DOMAIN go[t],
         go[t][n] \in {"init", "rollback", "append"} \/ (pc[t] = "starting" /\ go[t][n] # "done")
  PROVE  /\ pc[t] = "starting" /\ Engaged(t) /\ mstate = "Starting" /\ Sorted(t) /\ Climbing(t)
         /\ n \in DOMAIN rank[t] /\ n \notin todo[t] /\ n \in Modules /\ n \in DOMAIN deps
<1>1. Engaged(t) /\ pc[t] = "starting"
  BY BusyIsEngaged DEF LayingOut, Shape, Fits
<1>2. Progress(t)
  BY <1>1 DEF OneByOne
<1> QED BY <1>1, <1>2 DEF Progress, Up, LayingOut, Shape, Fits, Types, FieldTypes, LocalTypes

LEMMA WhileDescending ==
  ASSUME LayingOut, OneByOne, NEW t \in Drivers, NEW n \in DOMAIN go[t],
         go[t][n] \in {"destroy", "release", "forget"} \/ (pc[t] = "stopping" /\ go[t][n] # "done")
  PROVE  /\ pc[t] = "stopping" /\ Engaged(t) /\ mstate = "Stopped" /\ Remains(t) /\ Descending(t)
         /\ n \in DOMAIN rank[t] /\ n \in Modules /\ n \in DOMAIN deps
<1>1. Engaged(t) /\ pc[t] = "stopping"
  BY BusyIsEngaged DEF LayingOut, Shape, Fits
<1>2. Progress(t)
  BY <1>1 DEF OneByOne
<1> QED BY <1>1, <1>2 DEF Progress, Down, LayingOut, Types, FieldTypes, LocalTypes

LEMMA OrderStep == LayingOut /\ OneByOne /\ [Next]_vars => StartOrder'
<1> SUFFICES ASSUME LayingOut, OneByOne, [Next]_vars PROVE StartOrder'
  OBVIOUS
<1>1. ASSUME started' = started, deps' = deps PROVE StartOrder'
  BY <1>1 DEF OneByOne, StartOrder, Needs
<1>2. ASSUME NEW t \in Drivers, DriverStep(t) \/ Call(t) \/ Cancel(t) PROVE StartOrder'
  BY <1>1, <1>2, HandsOff DEF LayingOut
<1>3. ASSUME NEW n \in Modules, NEW list \in Declared[n], Register(n, list) PROVE StartOrder'
  <2>1. started' = started /\ \A i \in DOMAIN started : started[i] \in DOMAIN deps
    BY <1>3 DEF Register, LayingOut, Types, FieldTypes
  <2>2. \A m \in DOMAIN deps : deps'[m] = deps[m]
    BY <1>3 DEF Register
  <2> QED BY <2>1, <2>2 DEF OneByOne, StartOrder, Needs
<1>4. ASSUME NEW t \in Drivers, NEW n \in DOMAIN go[t], RecordStarted(t, n) PROVE StartOrder'
  <2>1. go[t][n] = "append" /\ started' = Append(started, n) /\ deps' = deps
    BY <1>4 DEF RecordStarted, Advance
  <2>2. Sorted(t) /\ Climbing(t) /\ n \in DOMAIN rank[t]
    BY <2>1, WhileClimbing
  <2>3. started \in Seq(DOMAIN deps) /\ \A m \in DOMAIN rank[t] : rank[t][m] \in Int
    BY DEF LayingOut, Types, FieldTypes, LocalTypes
  <2>4. ~IsUp(n)
    BY <2>1, <2>2 DEF Climbing
  <2>5. ASSUME NEW m \in Range(started) PROVE n \notin Needs(deps, m)
    <3>1. m \in DOMAIN rank[t] /\ m \notin todo[t] /\ rank[t][m] <= rank[t][n]
      BY <2>2, <2>3 DEF Climbing
    <3> QED BY <2>2, <2>3, <3>1 DEF Sorted
  <2>6. n \notin Needs(deps, n)
    BY <2>2, <2>3 DEF Sorted
  <2>7. /\ DOMAIN started' = 1..(Len(started) + 1) /\ DOMAIN started = 1..Len(started) /\ Len(started) \in Nat
        /\ \A i \in DOMAIN started : started'[i] = started[i] /\ started[i] \in Range(started)
        /\ started'[Len(started) + 1] = n
    BY <2>1, <2>3, AppendRange DEF Range
  <2>8. SUFFICES ASSUME NEW i \in DOMAIN started', NEW j \in DOMAIN started'
                 PROVE  /\ started'[i] = started'[j] => i = j
                        /\ started'[j] \in Needs(deps, started'[i]) => j < i
    BY <2>1 DEF StartOrder, Needs
  <2>9. CASE i \in DOMAIN started /\ j \in DOMAIN started
    BY <2>7, <2>9 DEF OneByOne, StartOrder
  <2>10. CASE i = Len(started) + 1 \/ j = Len(started) + 1
    BY <2>4, <2>5, <2>6, <2>7, <2>10 DEF IsUp
  <2> QED BY <2>7, <2>9, <2>10
<1>5. ASSUME NEW t \in Drivers, NEW n \in DOMAIN go[t], Forget(t, n) PROVE StartOrder'
  <2>1. PICK at \in [DOMAIN started' -> DOMAIN started] :
          /\ \A i, j \in DOMAIN started' : i < j => at[i] < at[j]
          /\ \A i \in DOMAIN started' : started'[i] = started[at[i]]
    BY <1>5, ForgetEffect DEF LayingOut
  <2>2. deps' = deps
    BY <1>5 DEF Forget
  <2>3. DOMAIN started \subseteq Int /\ DOMAIN started' \subseteq Int
    BY <1>5, ForgetEffect DEF LayingOut, Types, FieldTypes
  <2>4. \A i, j \in DOMAIN started' : at[i] < at[j] => i < j
    BY <2>1, <2>3
  <2>5. \A i, j \in DOMAIN started' : at[i] = at[j] => i = j
    BY <2>1, <2>3
  <2> QED BY <2>1, <2>2, <2>4, <2>5 DEF OneByOne, StartOrder, Needs
<1>6. ASSUME NEW t \in Drivers, NEW n \in DOMAIN go[t], ModuleStep(t, n) PROVE StartOrder'
  BY <1>1, <1>4, <1>5, <1>6, StartedChanges, StepsOnlyAdd DEF StepOf, LayingOut
<1>7. CASE UNCHANGED vars
  BY <1>1, <1>7 DEF vars, fields
<1> QED BY <1>2, <1>3, <1>6, <1>7 DEF Next

\* Which goroutines are where, after a step that moves one.
LEMMA AdvanceMoves ==
  ASSUME Types, NEW t \in Drivers, NEW n, NEW from, NEW to \in Places, Advance(t, n, from, to), NEW p, NEW m
  PROVE  /\ m # n => At(p, m)' = At(p, m)
         /\ At(p, n)' \ {t} = At(p, n) \ {t}
         /\ t \in At(p, n)' <=> p = to
         /\ t \in At(p, n) <=> p = from
  BY AdvanceEffect DEF At

LEMMA PlacesKept ==
  ASSUME Types, Shape, NEW t \in Drivers, DriverStep(t) \/ Call(t) \/ Cancel(t),
         NEW n \in Modules, NEW p \in Places \ {"call", "done"}
  PROVE  At(p, n)' = At(p, n)
<1>1. \A u \in Drivers : (n \in DOMAIN go'[u] /\ go'[u][n] = p) <=> (n \in DOMAIN go[u] /\ go[u][n] = p)
  BY HandsOff
<1> QED BY <1>1 DEF At

LEMMA AwakeStep == LayingOut /\ OneByOne /\ [Next]_vars => Awake'
<1> SUFFICES ASSUME LayingOut, OneByOne, [Next]_vars, NEW m \in Modules, mod'[m] = "Running"
             PROVE  IsUp(m)' \/ m \in kept' \/ At("append", m)' # {}
  BY DEF Awake
<1> USE DEF Set
<1>1. Types /\ Shape /\ (mod[m] = "Running" => IsUp(m) \/ m \in kept \/ At("append", m) # {})
  BY DEF LayingOut, OneByOne, Awake
<1>2. ASSUME NEW t \in Drivers, DriverStep(t) \/ Call(t) \/ Cancel(t)
      PROVE  IsUp(m)' \/ m \in kept' \/ At("append", m)' # {}
  BY <1>1, <1>2, HandsOff, PlacesKept DEF IsUp, Places
<1>3. ASSUME NEW n \in Modules, NEW list \in Declared[n], Register(n, list)
      PROVE  IsUp(m)' \/ m \in kept' \/ At("append", m)' # {}
  BY <1>1, <1>3 DEF Register, locals, IsUp, At
<1>4. CASE UNCHANGED vars
  BY <1>1, <1>4 DEF vars, fields, locals, IsUp, At
<1>5. ASSUME NEW t \in Drivers, NEW n \in DOMAIN go[t], ModuleStep(t, n)
      PROVE  IsUp(m)' \/ m \in kept' \/ At("append", m)' # {}
  <2> USE DEF fields
  <2>1. n \in Modules /\ mod \in [Modules -> States]
    BY <1>1 DEF Types, FieldTypes, LocalTypes
  <2>2. CASE InitModule(t, n)
    BY <1>1, <2>1, <2>2, AdvanceMoves DEF InitModule, IsUp, Places
  <2>3. CASE InitRefused(t, n)
    BY <1>1, <2>1, <2>3, AdvanceMoves DEF InitRefused, IsUp, Places
  <2>4. CASE InitSucceeds(t, n)
    BY <1>1, <2>1, <2>4, AdvanceMoves DEF InitSucceeds, IsUp, Places
  <2>5. CASE InitFails(t, n)
    BY <1>1, <2>1, <2>5, AdvanceMoves DEF InitFails, IsUp, Places
  <2>6. CASE RolledBack(t, n)
    BY <1>1, <2>1, <2>6, AdvanceMoves DEF RolledBack, AfterError, IsUp, Places
  <2>7. CASE RecordStarted(t, n)
    <3>1. Range(started') = Range(started) \cup {n}
      BY <1>1, <2>7, AppendRange DEF RecordStarted, Types, FieldTypes
    <3>2. m # n => At("append", m)' = At("append", m)
      BY <1>1, <2>7, AdvanceMoves DEF RecordStarted, Places
    <3> QED BY <1>1, <2>7, <3>1, <3>2 DEF RecordStarted, IsUp
  <2>8. CASE DestroyModule(t, n)
    BY <1>1, <2>1, <2>8, AdvanceMoves DEF DestroyModule, IsUp, Places
  <2>9. CASE DestroyRefused(t, n)
    BY <1>1, <2>1, <2>9, AdvanceMoves DEF DestroyRefused, IsUp, Places
  <2>10. CASE DestroyAbandoned(t, n)
    BY <1>1, <2>1, <2>10, AdvanceMoves DEF DestroyAbandoned, IsUp, Places
  <2>11. CASE DestroyCommits(t, n)
    <3>1. mod[n] = "Destroying" /\ mod' = mod
      BY <2>1, <2>11 DEF DestroyCommits, Advance, LayingOut, Ownership, Handles, Handling
    <3> QED BY <1>1, <2>1, <2>11, <3>1, AdvanceMoves DEF DestroyCommits, IsUp, Places
  <2>12. CASE Destroyed(t, n)
    BY <1>1, <2>1, <2>12, AdvanceMoves DEF Destroyed, IsUp, Places
  <2>13. CASE Forget(t, n)
    <3>1. mod[n] \in Startable \/ n \in kept
      BY <2>13, WhileDescending DEF Forget, Advance, Descending
    <3>2. Range(started') = Range(started) \ {n} /\ mod' = mod /\ kept' = kept
      BY <1>1, <2>13, ForgetEffect DEF Forget
    <3>3. m # n => At("append", m)' = At("append", m)
      BY <1>1, <2>13, AdvanceMoves DEF Forget, Places
    <3> QED BY <1>1, <3>1, <3>2, <3>3, AdvanceMoves DEF IsUp, Startable
  <2> QED BY <1>5, <2>2, <2>3, <2>4, <2>5, <2>6, <2>7, <2>8, <2>9, <2>10, <2>11, <2>12, <2>13 DEF ModuleStep
<1> QED BY <1>2, <1>3, <1>4, <1>5 DEF Next

LEMMA AliveStep == LayingOut /\ OneByOne /\ [Next]_vars => Alive'
<1> SUFFICES ASSUME LayingOut, OneByOne, [Next]_vars, NEW m \in Range(started')
             PROVE  mod'[m] = "Running" \/ \E p \in {"destroy", "release", "forget"} : At(p, m)' # {}
  BY DEF Alive
<1> USE DEF Set
<1>1. Types /\ Shape /\ Ownership /\ mod \in [Modules -> States]
  BY DEF LayingOut, Types, FieldTypes
<1>2. ASSUME m \in Range(started)
      PROVE  /\ m \in Modules
             /\ mod[m] = "Running" \/ \E p \in {"destroy", "release", "forget"} : At(p, m) # {}
  BY <1>1, <1>2 DEF OneByOne, Alive, Types, FieldTypes, Range
<1>3. ASSUME NEW t \in Drivers, DriverStep(t) \/ Call(t) \/ Cancel(t)
      PROVE  mod'[m] = "Running" \/ \E p \in {"destroy", "release", "forget"} : At(p, m)' # {}
  BY <1>1, <1>2, <1>3, HandsOff, PlacesKept DEF Places
<1>4. ASSUME NEW n \in Modules, NEW list \in Declared[n], Register(n, list)
      PROVE  mod'[m] = "Running" \/ \E p \in {"destroy", "release", "forget"} : At(p, m)' # {}
  BY <1>2, <1>4 DEF Register, locals, At
<1>5. CASE UNCHANGED vars
  BY <1>2, <1>5 DEF vars, fields, locals, At
<1>6. ASSUME NEW t \in Drivers, NEW n \in DOMAIN go[t], ModuleStep(t, n)
      PROVE  mod'[m] = "Running" \/ \E p \in {"destroy", "release", "forget"} : At(p, m)' # {}
  <2> USE DEF fields
  <2>1. n \in Modules
    BY <1>1 DEF Types, FieldTypes, LocalTypes
  <2>2. CASE InitModule(t, n)
    <3>1. ~IsUp(n)
      BY <2>2, WhileClimbing DEF InitModule, Advance, Climbing
    <3> QED BY <1>1, <1>2, <2>1, <2>2, <3>1, AdvanceMoves DEF InitModule, IsUp, Places
  <2>3. CASE InitRefused(t, n)
    BY <1>1, <1>2, <2>1, <2>3, AdvanceMoves DEF InitRefused, Places
  <2>4. CASE InitSucceeds(t, n)
    BY <1>1, <1>2, <2>1, <2>4, AdvanceMoves DEF InitSucceeds, Places
  <2>5. CASE InitFails(t, n)
    <3>1. ~IsUp(n)
      BY <2>5, WhileClimbing DEF InitFails, Advance, Climbing
    <3> QED BY <1>1, <1>2, <2>1, <2>5, <3>1, AdvanceMoves DEF InitFails, IsUp, Places
  <2>6. CASE RolledBack(t, n)
    <3>1. ~IsUp(n)
      BY <2>6, WhileClimbing DEF RolledBack, Advance, Climbing
    <3> QED BY <1>1, <1>2, <2>1, <2>6, <3>1, AdvanceMoves DEF RolledBack, AfterError, IsUp, Places
  <2>7. CASE RecordStarted(t, n)
    <3>1. Range(started') = Range(started) \cup {n} /\ mod' = mod
      BY <1>1, <2>7, AppendRange DEF RecordStarted, Types, FieldTypes
    <3>2. mod[n] = "Running"
      BY <2>7, WhileClimbing DEF RecordStarted, Advance, Climbing
    <3>3. m # n => \A p \in Places : At(p, m)' = At(p, m)
      BY <1>1, <2>7, AdvanceMoves DEF RecordStarted, Places
    <3> QED BY <1>2, <3>1, <3>2, <3>3 DEF Places
  <2>8. CASE DestroyModule(t, n)
    BY <1>1, <1>2, <2>1, <2>8, AdvanceMoves DEF DestroyModule, Places
  <2>9. CASE DestroyRefused(t, n)
    BY <1>1, <1>2, <2>1, <2>9, AdvanceMoves DEF DestroyRefused, Places
  <2>10. CASE DestroyAbandoned(t, n)
    BY <1>1, <1>2, <2>1, <2>10, AdvanceMoves DEF DestroyAbandoned, Places
  <2>11. CASE DestroyCommits(t, n)
    BY <1>1, <1>2, <2>1, <2>11, AdvanceMoves DEF DestroyCommits, Places
  <2>12. CASE Destroyed(t, n)
    BY <1>1, <1>2, <2>1, <2>12, AdvanceMoves DEF Destroyed, Places
  <2>13. CASE Forget(t, n)
    <3>1. Range(started') = Range(started) \ {n} /\ mod' = mod
      BY <1>1, <2>13, ForgetEffect DEF Forget
    <3>2. m # n => \A p \in Places : At(p, m)' = At(p, m)
      BY <1>1, <2>13, AdvanceMoves DEF Forget, Places
    <3> QED BY <1>2, <3>1, <3>2 DEF Places
  <2> QED BY <1>6, <2>2, <2>3, <2>4, <2>5, <2>6, <2>7, <2>8, <2>9, <2>10, <2>11, <2>12, <2>13 DEF ModuleStep
<1> QED BY <1>3, <1>4, <1>5, <1>6 DEF Next

LEMMA ClosedStep == LayingOut /\ OneByOne /\ [Next]_vars => Closed'
<1> SUFFICES ASSUME LayingOut, OneByOne, [Next]_vars, mstate' = "Running"
             PROVE  (\A n \in Range(started) : Needs(deps, n) \subseteq Range(started))'
  BY DEF Closed
<1>1. ASSUME mstate = "Running", started' = started, deps' = deps
      PROVE  (\A n \in Range(started) : Needs(deps, n) \subseteq Range(started))'
  BY <1>1 DEF OneByOne, Closed, Needs
<1>2. ASSUME NEW t \in Drivers, StartFinished(t)
      PROVE  (\A n \in Range(started) : Needs(deps, n) \subseteq Range(started))'
  <2>1. pc[t] = "start" /\ todo[t] = {} /\ started' = started /\ deps' = deps
    BY <1>2 DEF StartFinished
  <2>2. Climbing(t) /\ Sorted(t) /\ LayerDone(t) /\ failed[t] = {}
    BY <2>1 DEF OneByOne, Progress, Engaged, Finishing, Up, LayingOut, Shape, Fits
  <2>3. \A n \in DOMAIN rank[t] : IsUp(n)
    BY <2>1, <2>2 DEF Climbing, LayerDone
  <2>4. \A n \in Range(started) : n \in DOMAIN rank[t]
    BY <2>2 DEF Climbing
  <2> QED BY <2>1, <2>2, <2>3, <2>4 DEF Sorted, IsUp, Needs
<1>3. ASSUME NEW t \in Drivers, DriverStep(t) \/ Call(t) \/ Cancel(t)
      PROVE  (\A n \in Range(started) : Needs(deps, n) \subseteq Range(started))'
  <2>1. mstate = "Running" \/ StartFinished(t)
    BY <1>3 DEF fields, DriverStep, Call, StartRefused, BeginStart, BeginStop, Cancel, PlanStart, PlanFails,
       StartUnplannable, InjectContext, StartLayer, LayerStarted, Abort, ClaimStop, NothingToStop, PlanStop, StopLayer,
       LayerStopped, StopAborted, StopFinished
  <2> QED BY <1>1, <1>2, <1>3, <2>1, HandsOff DEF LayingOut
<1>4. ASSUME NEW n \in Modules, NEW list \in Declared[n], Register(n, list)
      PROVE  (\A m \in Range(started) : Needs(deps, m) \subseteq Range(started))'
  <2>1. started' = started /\ mstate' = mstate /\ Range(started) \subseteq DOMAIN deps
    BY <1>4 DEF Register, LayingOut, Types, FieldTypes, Range
  <2>2. \A m \in DOMAIN deps : deps'[m] = deps[m]
    BY <1>4 DEF Register
  <2> QED BY <2>1, <2>2 DEF OneByOne, Closed, Needs
<1>5. ASSUME NEW t \in Drivers, NEW n \in DOMAIN go[t], ModuleStep(t, n)
      PROVE  (\A m \in Range(started) : Needs(deps, m) \subseteq Range(started))'
  <2>1. mstate' = mstate /\ deps' = deps
    BY <1>5 DEF fields, ModuleStep, InitModule, InitRefused, InitSucceeds, InitFails, RolledBack, RecordStarted,
       DestroyModule, DestroyRefused, DestroyAbandoned, DestroyCommits, Destroyed, Forget
  <2>2. ~RecordStarted(t, n)
    BY <2>1, WhileClimbing DEF RecordStarted, Advance
  <2>3. ~Forget(t, n)
    BY <2>1, WhileDescending DEF Forget, Advance
  <2> QED BY <1>1, <1>5, <2>1, <2>2, <2>3, StartedChanges
<1>6. CASE UNCHANGED vars
  BY <1>1, <1>6 DEF vars, fields
<1> QED BY <1>3, <1>4, <1>5, <1>6 DEF Next

-----------------------------------------------------------------------------
(* The driver that makes the step                                          *)

LEMMA LowestIsBelow ==
  ASSUME LayingOut, NEW t \in Drivers
  PROVE  /\ \A n, m \in LowestLayer(t) : rank[t][n] = rank[t][m]
         /\ \A n \in todo[t] \ LowestLayer(t), m \in LowestLayer(t) : rank[t][m] < rank[t][n]
<1>1. \A n \in todo[t] : rank[t][n] \in Int
  BY DEF LayingOut, Types, LocalTypes
<1> QED BY <1>1 DEF LowestLayer

LEMMA HighestIsAbove ==
  ASSUME LayingOut, NEW t \in Drivers
  PROVE  /\ \A n, m \in HighestLayer(t) : rank[t][n] = rank[t][m]
         /\ \A n \in todo[t] \ HighestLayer(t), m \in HighestLayer(t) : rank[t][n] < rank[t][m]
<1>1. \A n \in todo[t] : rank[t][n] \in Int
  BY DEF LayingOut, Types, LocalTypes
<1> QED BY <1>1 DEF HighestLayer

LEMMA StartLayerClimbs ==
  ASSUME LayingOut, OneByOne, NEW t \in Drivers, StartLayer(t)
  PROVE  Climbing(t)' /\ Sorted(t)' /\ mstate' = "Starting" /\ pc'[t] = "starting"
<1> DEFINE layer == LowestLayer(t)
<1>1. pc[t] = "start" /\ Launch(t, layer, "starting") /\ UNCHANGED <<deps, started, mstate, mod, rank, failed>>
  BY DEF StartLayer, fields
<1>2. Climbing(t) /\ Sorted(t) /\ LayerDone(t) /\ failed[t] = {} /\ mstate = "Starting"
  BY <1>1 DEF OneByOne, Progress, Engaged, Finishing, Up, LayingOut, Shape, Fits
<1>3. layer \subseteq todo[t] /\ todo[t] \subseteq DOMAIN rank[t]
  BY LayersFit DEF LayingOut, Types, LocalTypes
<1>7. /\ \A n, m \in layer : rank[t][n] = rank[t][m]
      /\ \A n \in todo[t] \ layer, m \in layer : rank[t][m] < rank[t][n]
  BY LowestIsBelow
<1> HIDE DEF layer
<1>4. /\ DOMAIN go'[t] = layer /\ \A n \in layer : go'[t][n] = "call"
      /\ todo' = [todo EXCEPT ![t] = todo[t] \ layer] /\ pc' = [pc EXCEPT ![t] = "starting"]
  BY <1>1 DEF Launch, Set, Goto, LayingOut, Types, LocalTypes
<1>5. todo'[t] = todo[t] \ layer /\ pc'[t] = "starting"
  BY <1>4 DEF LayingOut, Types, LocalTypes
<1>6. \A n \in DOMAIN rank[t] \ todo[t] : IsUp(n)
  BY <1>2 DEF Climbing, LayerDone
<1>8. \A n : IsUp(n)' <=> IsUp(n)
  BY <1>1 DEF IsUp
<1>9. \A n \in todo[t] : ~IsUp(n)
  BY <1>2 DEF Climbing, IsUp
<1>10. Climbing(t)'
  <2>1. (\A n \in DOMAIN rank[t] \ todo[t] : n \in DOMAIN go[t] \/ IsUp(n))'
    BY <1>1, <1>3, <1>4, <1>5, <1>6, <1>8
  <2>2. (Range(started) \subseteq DOMAIN rank[t] \ todo[t])'
    BY <1>1, <1>2, <1>5 DEF Climbing
  <2>3. (\A n \in DOMAIN go[t] : /\ go[t][n] # "done" => ~IsUp(n)
                                 /\ go[t][n] = "done" => IsUp(n) \/ n \in failed[t]
                                 /\ go[t][n] = "append" => mod[n] = "Running")'
    BY <1>3, <1>4, <1>8, <1>9
  <2>4. (\A n, m \in DOMAIN go[t] : rank[t][n] = rank[t][m])'
    BY <1>1, <1>4, <1>7
  <2>5. (\A n \in todo[t], m \in DOMAIN rank[t] \ todo[t] : rank[t][m] < rank[t][n])'
    BY <1>1, <1>2, <1>5, <1>7 DEF Climbing
  <2>6. (\A n \in DOMAIN go[t], m \in DOMAIN rank[t] \ todo[t] : m \in DOMAIN go[t] \/ rank[t][m] < rank[t][n])'
    BY <1>1, <1>2, <1>3, <1>4, <1>5 DEF Climbing
  <2> QED BY <2>1, <2>2, <2>3, <2>4, <2>5, <2>6 DEF Climbing
<1>11. Sorted(t)'
  BY <1>1, <1>2 DEF Sorted, Needs
<1> QED BY <1>1, <1>2, <1>5, <1>10, <1>11

LEMMA StopLayerDescends ==
  ASSUME LayingOut, OneByOne, NEW t \in Drivers, StopLayer(t)
  PROVE  Remains(t)' /\ Descending(t)' /\ mstate' = "Stopped" /\ pc'[t] = "stopping"
<1> DEFINE layer == HighestLayer(t)
<1>1. /\ pc[t] = "teardown" /\ todo[t] # {} /\ Launch(t, layer, "stopping")
      /\ UNCHANGED <<deps, started, mstate, mod, rank, kept>>
  BY DEF StopLayer, fields
<1>2. Remains(t) /\ Descending(t) /\ LayerDone(t) /\ mstate = "Stopped"
  BY <1>1 DEF OneByOne, Progress, Engaged, Finishing, Down, LayingOut, Shape, Fits
<1>3. layer \subseteq todo[t] /\ todo[t] \subseteq DOMAIN rank[t]
  BY LayersFit DEF LayingOut, Types, LocalTypes
<1>6. /\ \A n, m \in layer : rank[t][n] = rank[t][m]
      /\ \A n \in todo[t] \ layer, m \in layer : rank[t][n] < rank[t][m]
  BY HighestIsAbove
<1> HIDE DEF layer
<1>4. /\ DOMAIN go'[t] = layer /\ \A n \in layer : go'[t][n] = "call"
      /\ todo' = [todo EXCEPT ![t] = todo[t] \ layer] /\ pc' = [pc EXCEPT ![t] = "stopping"]
  BY <1>1 DEF Launch, Set, Goto, LayingOut, Types, LocalTypes
<1>5. todo'[t] = todo[t] \ layer /\ pc'[t] = "stopping"
  BY <1>4 DEF LayingOut, Types, LocalTypes
<1>7. Remains(t)'
  BY <1>1, <1>2, <1>3, <1>4, <1>5 DEF Remains, LayerDone
<1>8. Descending(t)'
  <2>1. (\A n, m \in DOMAIN rank[t] : n \in Needs(deps, m) => rank[t][n] < rank[t][m])'
    BY <1>1, <1>2 DEF Descending, Needs
  <2>2. (\A n, m \in DOMAIN go[t] : rank[t][n] = rank[t][m])'
    BY <1>1, <1>4, <1>6
  <2>3. (\A n \in todo[t], m \in DOMAIN go[t] : rank[t][n] < rank[t][m])'
    BY <1>1, <1>4, <1>5, <1>6
  <2>4. (\A n \in DOMAIN go[t] : go[t][n] = "forget" => mod[n] \in Startable \/ n \in kept)'
    BY <1>4
  <2> QED BY <2>1, <2>2, <2>3, <2>4 DEF Descending
<1> QED BY <1>1, <1>2, <1>5, <1>7, <1>8

LEMMA PlanStopDescends ==
  ASSUME LayingOut, OneByOne, NEW t \in Drivers, PlanStop(t)
  PROVE  Remains(t)' /\ Descending(t)' /\ mstate' = "Stopped" /\ pc'[t] = "teardown"
<1>1. /\ pc[t] = "planStop" /\ rank' = [rank EXCEPT ![t] = StopRank(deps, rank[t])]
      /\ todo' = [todo EXCEPT ![t] = todo[t]] /\ pc' = [pc EXCEPT ![t] = "teardown"]
      /\ UNCHANGED <<deps, started, mstate, mod, go, kept>>
  BY DEF PlanStop, Targets, Set, Goto, fields
<1>2. Remains(t) /\ Snapshot(t) /\ DOMAIN go[t] = {} /\ mstate = "Stopped"
  BY <1>1 DEF OneByOne, Progress, Engaged, Finishing, Down, LayingOut, Shape, Fits
<1>3. rank'[t] = StopRank(deps, rank[t]) /\ todo' = todo /\ pc'[t] = "teardown"
  BY <1>1 DEF LayingOut, Types, LocalTypes
<1>4. DOMAIN rank[t] \subseteq DOMAIN deps /\ \A n \in DOMAIN rank[t] : rank[t][n] \in Int
  BY DEF LayingOut, Types, LocalTypes
<1>5. DOMAIN rank'[t] = DOMAIN rank[t]
  BY <1>3, <1>4, StopRankType DEF LayingOut
<1>6. ASSUME NEW n \in DOMAIN rank[t], NEW m \in DOMAIN rank[t], n \in Needs(deps, m)
      PROVE  rank'[t][n] < rank'[t][m]
  <2>1. CASE Plannable(deps)
    <3>1. StopRank(deps, rank[t]) = [k \in DOMAIN rank[t] |-> IF k \in DOMAIN deps THEN Levelling(deps)[k]
                                                          ELSE rank[t][k] - Cardinality(DOMAIN rank[t])]
      BY <2>1 DEF StopRank
    <3>2. Levelling(deps)[n] < Levelling(deps)[m]
      BY <1>4, <1>6, <2>1, LevellingType
    <3> QED BY <1>3, <1>4, <3>1, <3>2
  <2>2. CASE ~Plannable(deps)
    <3>1. rank'[t] = rank[t]
      BY <1>3, <2>2 DEF StopRank
    <3>2. /\ rank[t][n] \in DOMAIN started /\ started[rank[t][n]] = n
          /\ rank[t][m] \in DOMAIN started /\ started[rank[t][m]] = m
      BY <1>2 DEF Snapshot
    <3>3. \A i, j \in DOMAIN started : started[j] \in Needs(deps, started[i]) => j < i
      BY DEF OneByOne, StartOrder
    <3> QED BY <1>6, <3>1, <3>2, <3>3
  <2> QED BY <2>1, <2>2
<1>7. Descending(t)'
  BY <1>1, <1>2, <1>5, <1>6 DEF Descending
<1>8. Remains(t)'
  BY <1>1, <1>2, <1>3 DEF Remains
<1> QED BY <1>1, <1>2, <1>3, <1>7, <1>8

LEMMA ClimbAdvances ==
  ASSUME LayingOut, OneByOne, NEW t \in Drivers, NEW n, NEW from, NEW to \in Places, Advance(t, n, from, to),
         pc[t] = "starting", from # "done", UNCHANGED <<deps, mstate, pc, rank, todo>>,
         Range(started') \in {Range(started), Range(started) \cup {n}}, failed[t] \subseteq failed'[t],
         \A m \in DOMAIN go[t] \ {n} : mod'[m] = mod[m],
         to = "done" => n \in Range(started') \/ n \in failed'[t],
         to # "done" => n \notin Range(started'),
         to = "append" => mod'[n] = "Running"
  PROVE  Progress(t)'
<1>1. /\ n \in DOMAIN go[t] /\ go[t][n] = from /\ DOMAIN go'[t] = DOMAIN go[t]
      /\ \A m \in DOMAIN go[t] : go'[t][m] = IF m = n THEN to ELSE go[t][m]
  BY AdvanceEffect DEF LayingOut
<1>2. Sorted(t) /\ Climbing(t) /\ mstate = "Starting" /\ n \in DOMAIN rank[t] /\ n \notin todo[t]
  BY <1>1, WhileClimbing
<1>3. Climbing(t)'
  <2>1. (\A m \in DOMAIN rank[t] \ todo[t] : m \in DOMAIN go[t] \/ IsUp(m))'
    BY <1>1, <1>2 DEF Climbing, IsUp
  <2>2. (Range(started) \subseteq DOMAIN rank[t] \ todo[t])'
    BY <1>2 DEF Climbing
  <2>3. (\A m \in DOMAIN go[t] : /\ go[t][m] # "done" => ~IsUp(m)
                                 /\ go[t][m] = "done" => IsUp(m) \/ m \in failed[t]
                                 /\ go[t][m] = "append" => mod[m] = "Running")'
    BY <1>1, <1>2 DEF Climbing, IsUp
  <2>4. (\A m, k \in DOMAIN go[t] : rank[t][m] = rank[t][k])'
    BY <1>1, <1>2 DEF Climbing
  <2>5. (\A m \in todo[t], k \in DOMAIN rank[t] \ todo[t] : rank[t][k] < rank[t][m])'
    BY <1>2 DEF Climbing
  <2>6. (\A m \in DOMAIN go[t], k \in DOMAIN rank[t] \ todo[t] : k \in DOMAIN go[t] \/ rank[t][k] < rank[t][m])'
    BY <1>1, <1>2 DEF Climbing
  <2> QED BY <2>1, <2>2, <2>3, <2>4, <2>5, <2>6 DEF Climbing
<1>4. Sorted(t)'
  BY <1>2 DEF Sorted, Needs
<1>5. pc'[t] = "starting" /\ mstate' = "Starting"
  BY <1>2
<1> QED BY <1>3, <1>4, <1>5 DEF Progress, Up, Down

LEMMA DescendAdvances ==
  ASSUME LayingOut, OneByOne, NEW t \in Drivers, NEW n, NEW from, NEW to \in Places, Advance(t, n, from, to),
         pc[t] = "stopping", from # "done", UNCHANGED <<deps, mstate, pc, rank, todo>>,
         Range(started') = IF to = "done" THEN Range(started) \ {n} ELSE Range(started),
         \A m \in DOMAIN go[t] \ {n} : mod'[m] = mod[m] /\ (m \in kept => m \in kept'),
         to = "forget" => mod'[n] \in Startable \/ n \in kept'
  PROVE  Progress(t)'
<1>1. /\ n \in DOMAIN go[t] /\ go[t][n] = from /\ DOMAIN go'[t] = DOMAIN go[t]
      /\ \A m \in DOMAIN go[t] : go'[t][m] = IF m = n THEN to ELSE go[t][m]
  BY AdvanceEffect DEF LayingOut
<1>2. Remains(t) /\ Descending(t) /\ mstate = "Stopped" /\ n \notin todo[t]
  BY <1>1, WhileDescending DEF LayingOut, Shape, Fits
<1>3. Descending(t)'
  <2>1. (\A m, k \in DOMAIN rank[t] : m \in Needs(deps, k) => rank[t][m] < rank[t][k])'
    BY <1>2 DEF Descending, Needs
  <2>2. (\A m, k \in DOMAIN go[t] : rank[t][m] = rank[t][k])'
    BY <1>1, <1>2 DEF Descending
  <2>3. (\A m \in todo[t], k \in DOMAIN go[t] : rank[t][m] < rank[t][k])'
    BY <1>1, <1>2 DEF Descending
  <2>4. (\A m \in DOMAIN go[t] : go[t][m] = "forget" => mod[m] \in Startable \/ m \in kept)'
    BY <1>1, <1>2 DEF Descending
  <2> QED BY <2>1, <2>2, <2>3, <2>4 DEF Descending
<1>4. Remains(t)'
  BY <1>1, <1>2 DEF Remains
<1>5. pc'[t] = "stopping" /\ mstate' = "Stopped"
  BY <1>2
<1> QED BY <1>3, <1>4, <1>5 DEF Progress, Up, Down

LEMMA ModuleStepProgress ==
  ASSUME LayingOut, Serial, OneByOne, NEW t \in Drivers, NEW n \in DOMAIN go[t], ModuleStep(t, n)
  PROVE  Progress(t)'
<1> USE DEF fields, Set
<1>1. /\ n \in Modules /\ mod \in [Modules -> States] /\ DOMAIN go[t] \subseteq Modules
      /\ failed \in [Drivers -> SUBSET Modules]
  BY DEF LayingOut, Types, FieldTypes, LocalTypes
<1>2. go[t][n] \in {"init", "rollback", "append"} \/ (pc[t] = "starting" /\ go[t][n] # "done") =>
        pc[t] = "starting" /\ Climbing(t)
  BY WhileClimbing
<1>3. go[t][n] \in {"destroy", "release", "forget"} \/ (pc[t] = "stopping" /\ go[t][n] # "done") =>
        pc[t] = "stopping" /\ Descending(t)
  BY WhileDescending
<1>4. CASE InitModule(t, n)
  <2>1. pc[t] = "starting" /\ go[t][n] = "call" /\ Climbing(t)
    BY <1>2, <1>4 DEF InitModule, Advance
  <2> QED BY <1>1, <1>4, <2>1, ClimbAdvances DEF InitModule, Climbing, IsUp, Places
<1>5. CASE InitRefused(t, n)
  <2>1. pc[t] = "starting" /\ go[t][n] = "call" /\ Climbing(t)
    BY <1>2, <1>5 DEF InitRefused, Advance
  <2> QED BY <1>1, <1>5, <2>1, ClimbAdvances DEF InitRefused, Climbing, IsUp, Places
<1>6. CASE InitSucceeds(t, n)
  <2>1. pc[t] = "starting" /\ go[t][n] = "init" /\ Climbing(t)
    BY <1>2, <1>6 DEF InitSucceeds, Advance
  <2> QED BY <1>1, <1>6, <2>1, ClimbAdvances DEF InitSucceeds, Climbing, IsUp, Places
<1>7. CASE InitFails(t, n)
  <2>1. pc[t] = "starting" /\ go[t][n] = "init" /\ Climbing(t)
    BY <1>2, <1>7 DEF InitFails, Advance
  <2> QED BY <1>1, <1>7, <2>1, ClimbAdvances DEF InitFails, Climbing, IsUp, Places
<1>8. CASE RolledBack(t, n)
  <2>1. pc[t] = "starting" /\ go[t][n] = "rollback" /\ Climbing(t)
    BY <1>2, <1>8 DEF RolledBack, Advance
  <2> QED BY <1>1, <1>8, <2>1, ClimbAdvances DEF RolledBack, AfterError, Climbing, IsUp, Places
<1>9. CASE RecordStarted(t, n)
  <2>1. pc[t] = "starting" /\ go[t][n] = "append" /\ Climbing(t)
    BY <1>2, <1>9 DEF RecordStarted, Advance
  <2>2. Range(started') = Range(started) \cup {n}
    BY <1>9, AppendRange DEF RecordStarted, LayingOut, Types, FieldTypes
  <2> QED BY <1>1, <1>9, <2>1, <2>2, ClimbAdvances DEF RecordStarted, Places
<1>10. CASE DestroyModule(t, n)
  <2>1. pc[t] = "stopping" /\ go[t][n] = "call"
    BY <1>10 DEF DestroyModule, Advance
  <2> QED BY <1>1, <1>10, <2>1, DescendAdvances DEF DestroyModule, Places
<1>11. CASE DestroyRefused(t, n)
  <2>1. pc[t] = "stopping" /\ go[t][n] = "call" /\ mod[n] # "Running"
    BY <1>11 DEF DestroyRefused, Advance
  <2>2. n \in Range(started)
    BY <2>1, WhileDescending DEF Remains
  <2>3. PICK u \in Drivers : n \in DOMAIN go[u] /\ go[u][n] \in {"destroy", "release", "forget"}
    BY <2>1, <2>2 DEF OneByOne, Alive, At
  <2>4. u = t
    BY <2>1, <2>3, BusyIsEngaged DEF Serial, LayingOut
  <2> QED BY <2>1, <2>3, <2>4
<1>12. CASE DestroyAbandoned(t, n)
  <2>1. pc[t] = "stopping" /\ go[t][n] = "destroy"
    BY <1>3, <1>12 DEF DestroyAbandoned, Advance
  <2> QED BY <1>1, <1>12, <2>1, DescendAdvances DEF DestroyAbandoned, Places
<1>13. CASE DestroyCommits(t, n)
  <2>1. pc[t] = "stopping" /\ go[t][n] = "destroy"
    BY <1>3, <1>13 DEF DestroyCommits, Advance
  <2> QED BY <1>1, <1>13, <2>1, DescendAdvances DEF DestroyCommits, Places
<1>14. CASE Destroyed(t, n)
  <2>1. pc[t] = "stopping" /\ go[t][n] = "release"
    BY <1>3, <1>14 DEF Destroyed, Advance
  <2> QED BY <1>1, <1>14, <2>1, DescendAdvances DEF Destroyed, Places, Startable
<1>15. CASE Forget(t, n)
  <2>1. pc[t] = "stopping" /\ go[t][n] = "forget"
    BY <1>3, <1>15 DEF Forget, Advance
  <2>2. Range(started') = Range(started) \ {n}
    BY <1>15, ForgetEffect DEF LayingOut
  <2> QED BY <1>1, <1>15, <2>1, <2>2, DescendAdvances DEF Forget, Places
<1> QED BY <1>4, <1>5, <1>6, <1>7, <1>8, <1>9, <1>10, <1>11, <1>12, <1>13, <1>14, <1>15 DEF ModuleStep

LEMMA DriverStepProgress ==
  ASSUME LayingOut, OneByOne, NEW t \in Drivers, DriverStep(t) \/ Call(t) \/ Cancel(t), Engaged(t)'
  PROVE  Progress(t)'
<1> USE DEF fields, Set, Goto
<1>1. /\ pc \in [Drivers -> Points] /\ DOMAIN rank = Drivers /\ todo \in [Drivers -> SUBSET DOMAIN deps]
      /\ DOMAIN go = Drivers /\ aborting \in [Drivers -> BOOLEAN] /\ failed \in [Drivers -> SUBSET Modules]
      /\ canceled \in [Drivers -> BOOLEAN] /\ started \in Seq(DOMAIN deps)
  BY DEF LayingOut, Types, FieldTypes, LocalTypes
<1>2. Engaged(t) => Progress(t)
  BY DEF OneByOne
<1>3. Fits(t)
  BY DEF LayingOut, Shape
<1>4. ASSUME UNCHANGED <<deps, started, mstate, mod, kept, aborting>>, pc'[t] = pc[t], rank'[t] = rank[t], todo'[t] = todo[t],
             go'[t] = go[t], failed'[t] = failed[t]
      PROVE  Progress(t)'
  <2>1. Engaged(t)' <=> Engaged(t)
    BY <1>4 DEF Engaged, Finishing, LayerDone
  <2>2. /\ Sorted(t)' <=> Sorted(t)
        /\ Remains(t)' <=> Remains(t)
        /\ Snapshot(t)' <=> Snapshot(t)
    BY <1>4 DEF Sorted, Remains, Snapshot, Needs
  <2>3. Climbing(t)' <=> Climbing(t)
    BY <1>4 DEF Climbing, IsUp
  <2>4. Descending(t)' <=> Descending(t)
    BY <1>4 DEF Descending, Needs
  <2> QED BY <1>2, <1>4, <2>1, <2>2, <2>3, <2>4 DEF Progress
<1>5. CASE StartRefused(t) \/ Cancel(t)
  BY <1>1, <1>4, <1>5 DEF StartRefused, Cancel
<1>6. CASE BeginStart(t)
  <2>1. started' = <<>> /\ mstate' = "Starting" /\ pc'[t] = "plan" /\ aborting' = aborting
    BY <1>1, <1>6 DEF BeginStart, MayStart
  <2> QED BY <2>1 DEF Progress, Up, Down
<1>7. CASE BeginStop(t)
  <2>1. pc'[t] = "stop" /\ aborting'[t] = FALSE
    BY <1>1, <1>3, <1>7 DEF BeginStop, Fits, Down
  <2> QED BY <2>1 DEF Progress, Up, Down
<1>8. CASE PlanStart(t)
  <2>1. /\ pc[t] = "plan" /\ pc'[t] = "inject" /\ rank'[t] = Levelling(deps) /\ todo'[t] = DOMAIN deps
        /\ UNCHANGED <<deps, started, mstate>> /\ Plannable(deps)
    BY <1>1, <1>8 DEF PlanStart
  <2>2. Progress(t)
    BY <1>2, <2>1 DEF Engaged, Finishing
  <2>3. Sorted(t)' /\ todo'[t] = DOMAIN rank'[t]
    BY <2>1, LevellingType DEF Sorted
  <2> QED BY <2>1, <2>2, <2>3 DEF Progress, Up, Down
<1>9. CASE PlanFails(t)
  <2>1. pc[t] = "plan" /\ pc'[t] = "unplannable" /\ UNCHANGED <<started, mstate>>
    BY <1>1, <1>9 DEF PlanFails
  <2>2. Progress(t)
    BY <1>2, <2>1 DEF Engaged, Finishing
  <2> QED BY <2>1, <2>2 DEF Progress, Up, Down
<1>10. CASE StartUnplannable(t) \/ StartFinished(t) \/ NothingToStop(t) \/ StopAborted(t) \/ StopFinished(t)
  <2>1. pc'[t] = "idle"
    BY <1>1, <1>10 DEF StartUnplannable, StartFinished, NothingToStop, StopAborted, StopFinished, Return
  <2> QED BY <2>1 DEF Engaged
<1>11. CASE InjectContext(t)
  <2>1. /\ pc[t] = "inject" /\ pc'[t] = "start"
        /\ UNCHANGED <<deps, started, mstate, mod, rank, todo, go, failed>>
    BY <1>1, <1>11 DEF InjectContext
  <2>2. Progress(t) /\ DOMAIN go[t] = {}
    BY <1>2, <1>3, <2>1 DEF Engaged, Finishing, Fits
  <2>3. Sorted(t) /\ todo[t] = DOMAIN rank[t] /\ started = <<>> /\ mstate = "Starting"
    BY <2>1, <2>2 DEF Progress
  <2>4. Range(started) = {}
    BY <2>3 DEF Range
  <2>5. Climbing(t)'
    BY <2>1, <2>2, <2>3, <2>4 DEF Climbing
  <2>6. Sorted(t)'
    BY <2>1, <2>3 DEF Sorted, Needs
  <2> QED BY <2>1, <2>3, <2>5, <2>6 DEF Progress, Up, Down
<1>12. CASE StartLayer(t)
  <2>1. Climbing(t)' /\ Sorted(t)' /\ mstate' = "Starting" /\ pc'[t] = "starting"
    BY <1>12, StartLayerClimbs
  <2> QED BY <2>1 DEF Progress, Up, Down
<1>13. CASE LayerStarted(t)
  <2>1. /\ pc[t] = "starting" /\ pc'[t] = "start"
        /\ UNCHANGED <<deps, started, mstate, mod, rank, todo, go, failed>>
    BY <1>1, <1>13 DEF LayerStarted
  <2>2. Sorted(t) /\ Climbing(t) /\ mstate = "Starting"
    BY <1>2, <2>1 DEF Engaged, Finishing, Progress, Up
  <2>3. Climbing(t)'
    BY <2>1, <2>2 DEF Climbing, IsUp
  <2>4. Sorted(t)'
    BY <2>1, <2>2 DEF Sorted, Needs
  <2> QED BY <2>1, <2>2, <2>3, <2>4 DEF Progress, Up, Down
<1>14. CASE Abort(t)
  <2>1. pc[t] \in Up /\ pc'[t] = "stop" /\ mstate' = mstate
    BY <1>1, <1>14 DEF Abort, Up
  <2>2. mstate = "Starting"
    BY <1>2, <2>1 DEF Engaged, Finishing, Progress, Up
  <2> QED BY <2>1, <2>2 DEF Progress, Up, Down
<1>15. CASE ClaimStop(t)
  <2>1. /\ pc[t] = "stop" /\ pc'[t] = "planStop" /\ mstate' = "Stopped" /\ started # <<>> /\ started' = started
        /\ go' = go /\ todo'[t] = Range(started)
        /\ rank'[t] = [n \in Range(started) |-> CHOOSE i \in DOMAIN started : started[i] = n]
    BY <1>1, <1>15 DEF ClaimStop, Unclaimed
  <2>2. DOMAIN go[t] = {}
    BY <1>3, <2>1 DEF Fits
  <2>3. Remains(t)'
    BY <2>1, <2>2 DEF Remains
  <2>4. Snapshot(t)'
    <3>1. \A n \in Range(started) : rank'[t][n] \in DOMAIN started /\ started[rank'[t][n]] = n
      BY <2>1, SnapshotType DEF LayingOut
    <3> QED BY <2>1, <3>1 DEF Snapshot
  <2> QED BY <2>1, <2>3, <2>4 DEF Progress, Up, Down
<1>16. CASE PlanStop(t)
  <2>1. Remains(t)' /\ Descending(t)' /\ mstate' = "Stopped" /\ pc'[t] = "teardown"
    BY <1>16, PlanStopDescends
  <2> QED BY <2>1 DEF Progress, Up, Down
<1>17. CASE StopLayer(t)
  <2>1. Remains(t)' /\ Descending(t)' /\ mstate' = "Stopped" /\ pc'[t] = "stopping"
    BY <1>17, StopLayerDescends
  <2> QED BY <2>1 DEF Progress, Up, Down
<1>18. CASE LayerStopped(t)
  <2>1. /\ pc[t] = "stopping" /\ pc'[t] = "teardown"
        /\ UNCHANGED <<deps, started, mstate, mod, rank, todo, go, kept>>
    BY <1>1, <1>18 DEF LayerStopped
  <2>2. Engaged(t)
    BY <2>1 DEF Engaged, Finishing, LayerDone
  <2>3. Remains(t) /\ Descending(t) /\ mstate = "Stopped"
    BY <1>2, <2>1, <2>2 DEF Progress, Down
  <2>4. Descending(t)'
    BY <2>1, <2>3 DEF Descending, Needs
  <2>5. Remains(t)'
    BY <2>1, <2>3 DEF Remains
  <2> QED BY <2>1, <2>3, <2>4, <2>5 DEF Progress, Up, Down
<1> QED BY <1>5, <1>6, <1>7, <1>8, <1>9, <1>10, <1>11, <1>12, <1>13, <1>14, <1>15, <1>16, <1>17, <1>18
        DEF DriverStep, Call

LEMMA RegisterProgress ==
  ASSUME LayingOut, OneByOne, NEW n \in Modules, NEW list \in Declared[n], Register(n, list),
         NEW t \in Drivers, Engaged(t)'
  PROVE  Progress(t)'
<1>1. UNCHANGED <<started, mstate, mod, pc, rank, todo, go, failed, aborting, kept>>
  BY DEF Register, locals
<1>2. Engaged(t) /\ Progress(t)
  BY <1>1 DEF Engaged, Finishing, LayerDone, OneByOne
<1>3. DOMAIN rank[t] \subseteq DOMAIN deps /\ \A m \in DOMAIN deps : deps'[m] = deps[m]
  BY DEF Register, LayingOut, Types, LocalTypes
<1>4. \A m \in DOMAIN rank[t] : Needs(deps, m)' = Needs(deps, m)
  BY <1>3 DEF Needs
<1>5. Sorted(t)' <=> Sorted(t)
  BY <1>1, <1>4 DEF Sorted
<1>6. Climbing(t)' <=> Climbing(t)
  BY <1>1 DEF Climbing, IsUp
<1>7. Remains(t)' <=> Remains(t)
  BY <1>1 DEF Remains
<1>8. Snapshot(t)' <=> Snapshot(t)
  BY <1>1 DEF Snapshot
<1>9. Descending(t)' <=> Descending(t)
  BY <1>1, <1>4 DEF Descending
<1> QED BY <1>1, <1>2, <1>5, <1>6, <1>7, <1>8, <1>9 DEF Progress

LEMMA StutterProgress ==
  ASSUME OneByOne, UNCHANGED vars, NEW t \in Drivers, Engaged(t)'
  PROVE  Progress(t)'
<1>1. UNCHANGED <<deps, started, mstate, mod, pc, rank, todo, go, failed, aborting, kept>>
  BY DEF vars, fields, locals
<1>2. Engaged(t) /\ Progress(t)
  BY <1>1 DEF Engaged, Finishing, LayerDone, OneByOne
<1>3. /\ Sorted(t)' <=> Sorted(t)
      /\ Remains(t)' <=> Remains(t)
      /\ Snapshot(t)' <=> Snapshot(t)
  BY <1>1 DEF Sorted, Remains, Snapshot, Needs
<1>4. Climbing(t)' <=> Climbing(t)
  BY <1>1 DEF Climbing, IsUp
<1>5. Descending(t)' <=> Descending(t)
  BY <1>1 DEF Descending, Needs
<1> QED BY <1>1, <1>2, <1>3, <1>4, <1>5 DEF Progress

LEMMA OneByOneStep == LayingOut /\ Serial /\ Serial' /\ OneByOne /\ [Next]_vars => OneByOne'
<1> SUFFICES ASSUME LayingOut, Serial, Serial', OneByOne, [Next]_vars PROVE OneByOne'
  OBVIOUS
<1>1. StartOrder' /\ Awake' /\ Alive' /\ Closed'
  BY OrderStep, AwakeStep, AliveStep, ClosedStep
<1>2. ASSUME NEW t \in Drivers, StepOf(t), NEW u \in Drivers, Engaged(u)' PROVE Progress(u)'
  <2>1. CASE u # t
    BY <1>2, <2>1, ProgressOfOthers
  <2>2. CASE u = t
    BY <1>2, <2>2, ModuleStepProgress, DriverStepProgress DEF StepOf
  <2> QED BY <2>1, <2>2
<1>3. ASSUME NEW u \in Drivers, Engaged(u)' PROVE Progress(u)'
  BY <1>2, <1>3, StepsAreOfOne, RegisterProgress, StutterProgress
<1> QED BY <1>1, <1>3 DEF OneByOne

LEMMA InitIsOneByOne == Init => OneByOne
<1> SUFFICES ASSUME Init PROVE OneByOne
  OBVIOUS
<1>1. \A t \in Drivers : ~Engaged(t)
  BY DEF Init, Engaged
<1>2. started = <<>> /\ mstate = "Created" /\ \A n \in Modules : mod[n] = "Created"
  BY DEF Init
<1>3. Range(started) = {} /\ DOMAIN started = {}
  BY <1>2 DEF Range
<1> QED BY <1>1, <1>2, <1>3 DEF OneByOne, StartOrder, Awake, Alive, Closed

\* What Start has brought up, and Stop has left to tear down, is what m.started
\* lists, in the order of the layers.
THEOREM Serially == Spec /\ []Serial => []OneByOne
  BY InitIsOneByOne, Invariance, OneByOneStep, PTL DEF Spec

-----------------------------------------------------------------------------
(* What follows for the modules                                            *)

\* Whoever has something to do with a module is engaged, so it is the one that is.
LEMMA OnlyOneActs ==
  ASSUME LayingOut, Serial, NEW t \in Drivers, Engaged(t), NEW u \in Drivers, NEW n \in DOMAIN go[u], go[u][n] # "done"
  PROVE  u = t
  BY BusyIsEngaged DEF LayingOut, Serial

\* A module that is not at rest is in somebody's hands, or stays up.
LEMMA NotAtRest ==
  ASSUME LayingOut, OneByOne, NEW n \in Modules, mod[n] \notin Startable, n \notin kept
  PROVE  \/ IsUp(n)
         \/ \E t \in Drivers : n \in DOMAIN go[t] /\ go[t][n] \in Handling \cup {"append"}
<1>1. mod[n] \in {"Running", "Initializing", "Destroying"}
  BY DEF LayingOut, Types, FieldTypes, States, Startable
<1>2. CASE mod[n] = "Running"
  BY <1>2 DEF OneByOne, Awake, At
<1>3. CASE mod[n] # "Running"
  BY <1>1, <1>3 DEF LayingOut, Ownership, Handles
<1> QED BY <1>2, <1>3

\* When nobody is engaged and nothing is listed, nothing is up but what refused to go.
LEMMA AllAtRest ==
  LayingOut /\ OneByOne /\ started = <<>> /\ (\A t \in Drivers : ~Engaged(t)) =>
    \A n \in Modules : ~IsUp(n) /\ (mod[n] \in Startable \/ n \in kept)
<1> SUFFICES ASSUME LayingOut, OneByOne, started = <<>>, \A t \in Drivers : ~Engaged(t), NEW n \in Modules
             PROVE  ~IsUp(n) /\ (mod[n] \in Startable \/ n \in kept)
  OBVIOUS
<1>1. ~IsUp(n)
  BY DEF IsUp, Range
<1>2. \A t \in Drivers : n \in DOMAIN go[t] => go[t][n] = "done"
  BY BusyIsEngaged DEF LayingOut
<1> QED BY <1>1, <1>2, NotAtRest DEF Handling

LEMMA InitsAfterDependencies == LayingOut /\ Serial /\ OneByOne => StartsAfterDependencies
<1> SUFFICES ASSUME LayingOut, Serial, OneByOne, NEW n \in DOMAIN deps, NEW t \in At("init", n), NEW d \in Needs(deps, n)
             PROVE  mod[d] = "Running"
  BY DEF StartsAfterDependencies
<1>1. t \in Drivers /\ n \in DOMAIN go[t] /\ go[t][n] = "init"
  BY DEF At
<1>2. pc[t] = "starting" /\ Engaged(t) /\ Sorted(t) /\ Climbing(t) /\ n \in DOMAIN rank[t] /\ n \notin todo[t]
  BY <1>1, WhileClimbing
<1>3. d \in DOMAIN rank[t] /\ rank[t][d] < rank[t][n] /\ rank[t][d] \in Int /\ rank[t][n] \in Int
  BY <1>1, <1>2 DEF Sorted, LayingOut, Types, LocalTypes
<1>4. d \notin todo[t] /\ d \notin DOMAIN go[t]
  BY <1>1, <1>2, <1>3 DEF Climbing
<1>5. IsUp(d)
  BY <1>2, <1>3, <1>4 DEF Climbing
<1>6. SUFFICES ASSUME NEW u \in Drivers, d \in DOMAIN go[u], go[u][d] \in {"destroy", "release", "forget"} PROVE FALSE
  BY <1>5 DEF OneByOne, Alive, IsUp, At
<1>7. u = t
  BY <1>1, <1>2, <1>6, OnlyOneActs
<1> QED BY <1>4, <1>6, <1>7

LEMMA DestroysBeforeDependencies == LayingOut /\ Serial /\ OneByOne => StopsBeforeDependencies
<1> SUFFICES ASSUME LayingOut, Serial, OneByOne, NEW n \in DOMAIN deps, NEW m \in DOMAIN deps,
                    NEW t \in At("destroy", n) \cup At("release", n), n \in Needs(deps, m),
                    mod[m] \notin Startable, m \notin kept
             PROVE  FALSE
  BY DEF StopsBeforeDependencies
<1>1. t \in Drivers /\ n \in DOMAIN go[t] /\ go[t][n] \in {"destroy", "release"}
  BY DEF At
<1>2. pc[t] = "stopping" /\ Engaged(t) /\ Remains(t) /\ Descending(t) /\ n \in DOMAIN rank[t]
  BY <1>1, WhileDescending
<1>3. m \in Modules /\ todo[t] \subseteq DOMAIN rank[t] /\ DOMAIN go[t] \subseteq DOMAIN rank[t]
      /\ \A k \in DOMAIN rank[t] : rank[t][k] \in Int
  BY <1>1 DEF LayingOut, Types, FieldTypes, LocalTypes
<1>4. m \notin DOMAIN go[t] /\ m \notin todo[t]
  <2>1. m \in DOMAIN rank[t] => rank[t][n] < rank[t][m]
    BY <1>2 DEF Descending
  <2>2. m \in DOMAIN go[t] => rank[t][n] = rank[t][m]
    BY <1>1, <1>2 DEF Descending
  <2>3. m \in todo[t] => rank[t][m] < rank[t][n]
    BY <1>1, <1>2 DEF Descending
  <2> QED BY <1>2, <1>3, <2>1, <2>2, <2>3
<1>5. ~IsUp(m)
  BY <1>2, <1>4 DEF Remains, IsUp
<1>6. PICK u \in Drivers : m \in DOMAIN go[u] /\ go[u][m] \in Handling \cup {"append"}
  BY <1>3, <1>5, NotAtRest
<1>7. u = t
  BY <1>1, <1>2, <1>6, OnlyOneActs DEF Handling
<1> QED BY <1>4, <1>6, <1>7

\* Two modules of which one needs the other are never in the same layer.
LEMMA TornDownInTurn == LayingOut /\ Serial /\ OneByOne => TeardownsAreOrdered
<1> SUFFICES ASSUME LayingOut, Serial, OneByOne, NEW n \in DOMAIN deps, NEW m \in DOMAIN deps, n \in Needs(deps, m),
                    mod[n] = "Destroying", mod[m] = "Destroying"
             PROVE  FALSE
  BY DEF TeardownsAreOrdered
<1>1. n \in Modules /\ m \in Modules
  BY DEF LayingOut, Types, FieldTypes
<1>2. PICK t \in Drivers : Handles(t, n)
  BY <1>1 DEF LayingOut, Ownership
<1>3. PICK u \in Drivers : Handles(u, m)
  BY <1>1 DEF LayingOut, Ownership
<1>4. n \in DOMAIN go[t] /\ go[t][n] # "done" /\ m \in DOMAIN go[u] /\ go[u][m] # "done"
  BY <1>2, <1>3 DEF Handles, Handling
<1>5. u = t /\ Engaged(t) /\ pc[t] \in {"starting", "stopping"}
  BY <1>4, BusyIsEngaged, OnlyOneActs DEF LayingOut
<1>6. Progress(t) /\ n \in DOMAIN rank[t] /\ m \in DOMAIN rank[t] /\ rank[t][n] \in Int /\ rank[t][m] \in Int
  BY <1>4, <1>5 DEF OneByOne, LayingOut, Types, LocalTypes
<1>7. rank[t][n] = rank[t][m]
  BY <1>4, <1>5, <1>6 DEF Progress, Up, Down, Climbing, Descending
<1>8. rank[t][n] < rank[t][m]
  BY <1>5, <1>6 DEF Progress, Up, Down, Sorted, Descending
<1> QED BY <1>6, <1>7, <1>8

LEMMA ListedOnce == OneByOne => StartedOnce
  BY DEF OneByOne, StartOrder, StartedOnce

LEMMA ListedAreUp == LayingOut /\ OneByOne => StartedAreUp
<1> SUFFICES ASSUME LayingOut, OneByOne, NEW n \in DOMAIN deps, IsUp(n), mod[n] # "Running", At("forget", n) = {}
             PROVE  mod[n] = "Destroying"
  BY DEF StartedAreUp
<1>1. PICK p \in {"destroy", "release"} : At(p, n) # {}
  BY DEF OneByOne, Alive, IsUp
<1>2. PICK t \in Drivers : n \in DOMAIN go[t] /\ go[t][n] = p
  BY <1>1 DEF At
<1>3. n \in Modules
  BY DEF LayingOut, Types, FieldTypes
<1> QED BY <1>2, <1>3 DEF LayingOut, Ownership, Handles, Handling

LEMMA AllThereWhenRunning == LayingOut /\ OneByOne => RunningMeansComplete
<1> SUFFICES ASSUME LayingOut, OneByOne, mstate = "Running", \A t \in Drivers : pc[t] = "idle", NEW n \in Range(started)
             PROVE  mod[n] = "Running" /\ \A d \in Needs(deps, n) : IsUp(d)
  BY DEF RunningMeansComplete
<1>1. \A t \in Drivers : DOMAIN go[t] = {}
  BY DEF LayingOut, Shape, Fits
<1>2. mod[n] = "Running"
  BY <1>1 DEF OneByOne, Alive, At
<1>3. Needs(deps, n) \subseteq Range(started)
  BY DEF OneByOne, Closed
<1> QED BY <1>2, <1>3 DEF IsUp

LEMMA AcceptedStartFindsNothing ==
  LayingOut /\ OneByOne /\ [Next]_vars =>
    (mstate # "Starting" /\ mstate' = "Starting" => \A n \in Modules : mod[n] \in Startable \/ n \in kept)
<1> SUFFICES ASSUME LayingOut, OneByOne, [Next]_vars, mstate # "Starting", mstate' = "Starting",
                    NEW n \in Modules, mod[n] \notin Startable, n \notin kept
             PROVE  FALSE
  OBVIOUS
<1>1. PICK t \in Drivers : BeginStart(t)
  <2>1. ASSUME NEW t \in Drivers, DriverStep(t) \/ Call(t) \/ Cancel(t) PROVE BeginStart(t)
    BY <2>1 DEF fields, Call, StartRefused, BeginStop, Cancel, DriverStep, PlanStart, PlanFails, StartUnplannable,
       InjectContext, StartLayer, LayerStarted, StartFinished, Abort, ClaimStop, NothingToStop, PlanStop, StopLayer,
       LayerStopped, StopAborted, StopFinished
  <2>2. ASSUME NEW t \in Drivers, NEW m \in DOMAIN go[t], ModuleStep(t, m) PROVE FALSE
    BY <2>2 DEF fields, ModuleStep, InitModule, InitRefused, InitSucceeds, InitFails, RolledBack, RecordStarted,
       DestroyModule, DestroyRefused, DestroyAbandoned, DestroyCommits, Destroyed, Forget
  <2>3. ~UNCHANGED vars /\ \A m \in Modules : \A list \in Declared[m] : ~Register(m, list)
    BY DEF vars, fields, Register
  <2> QED BY <2>1, <2>2, <2>3 DEF Next
<1>2. started = <<>>
  BY <1>1 DEF BeginStart, MayStart
<1>3. Range(started) = {}
  BY <1>2 DEF Range
<1>4. PICK u \in Drivers : n \in DOMAIN go[u] /\ go[u][n] \in Handling \cup {"append"}
  BY <1>3, NotAtRest DEF IsUp
<1>5. go[u][n] \in {"destroy", "release"}
  BY <1>4, WhileClimbing DEF Handling
<1>6. Remains(u)
  BY <1>4, <1>5, WhileDescending
<1> QED BY <1>3, <1>4, <1>5, <1>6 DEF Remains

\* The goroutines of a layer record no module twice, and no module that is up
\* already.
THEOREM RecordedOnce == Spec /\ []Serial => []StartedOnce
  BY ListedOnce, Serially, PTL

\* A layer starts when the layers below it are up: everything a module depends on
\* is running by the time the module initializes.
THEOREM DependenciesFirst == Spec /\ []Serial => []StartsAfterDependencies
  BY InitsAfterDependencies, Invariance, Serially, PTL

\* Layers are torn down from the top, whether stopLayers plans them or falls back to
\* the order of start: nothing that depends on a module is up, unless it refused to
\* go, when that module is torn down.
THEOREM DependentsFirst == Spec /\ []Serial => []StopsBeforeDependencies
  BY DestroysBeforeDependencies, Invariance, Serially, PTL

\* While calls do not overlap, the statement of the Readme is true: the teardown of a
\* module is over before that of a module it depends on begins.  The run two_stops
\* shows what becomes of it when they do.
THEOREM TeardownsInTurn == Spec /\ []Serial => []TeardownsAreOrdered
  BY TornDownInTurn, Invariance, Serially, PTL

\* What m.started lists is up: Stop takes a module off the list when it is down.
THEOREM StartedIsUp == Spec /\ []Serial => []StartedAreUp
  BY ListedAreUp, Invariance, Serially, PTL

\* No module runs that m.started does not list, but for one that is just being
\* recorded and one that refused its teardown: a later Stop finds the rest.
THEOREM UpIsStarted == Spec /\ []Serial => []RunningAreStarted
<1>1. LayingOut /\ OneByOne => RunningAreStarted
  BY DEF LayingOut, Types, FieldTypes, OneByOne, Awake, RunningAreStarted
<1> QED BY <1>1, Invariance, Serially, PTL

\* When Start has returned and the manager is Running, what is up is closed under
\* dependency.
THEOREM RunningIsComplete == Spec /\ []Serial => []RunningMeansComplete
  BY AllThereWhenRunning, Invariance, Serially, PTL

\* beginStart lets a Start in only when every module is down that did not refuse to
\* go.
THEOREM StartsClean == Spec /\ []Serial => StartsFromNothing
  BY AcceptedStartFindsNothing, Invariance, Serially, PTL DEF Spec, StartsFromNothing

-----------------------------------------------------------------------------
(* One call at a time                                                      *)

\* At most one driver is inside a Start or Stop.
Alone == \A t, u \in Drivers : pc[t] # "idle" /\ pc[u] # "idle" => t = u

\* When a Stop is past its last layer, nothing is listed.
Emptied == \A t \in Drivers : Finishing(t) => started = <<>>

LEMMA AloneIsSerial == Alone => Serial
  BY DEF Alone, Serial, Engaged

LEMMA EmptyRange ==
  ASSUME NEW S, NEW s \in Seq(S), Range(s) = {}
  PROVE  s = <<>>
<1>1. DOMAIN s = 1..Len(s) /\ Len(s) \in Nat
  OBVIOUS
<1>2. 1 \notin DOMAIN s
  <2>1. \A i \in DOMAIN s : s[i] \in Range(s)
    BY DEF Range
  <2> QED BY <2>1
<1> QED BY <1>1, <1>2

\* A Stop that comes to its end has nothing left on the list.
LEMMA FinishesEmpty ==
  ASSUME LayingOut, LayingOut', Serial, OneByOne, NEW t \in Drivers, StepOf(t), ~Finishing(t), Finishing(t)'
  PROVE  started' = <<>>
<1> SUFFICES ASSUME ~Remains(t)' PROVE FALSE
  <2>1. ASSUME Remains(t)' PROVE started' = <<>>
    <3>1. Range(started') = {} /\ started' \in Seq(DOMAIN deps')
      BY <2>1 DEF Finishing, LayerDone, Remains, LayingOut, Types, FieldTypes
    <3> QED BY <3>1, EmptyRange
  <2> QED BY <2>1
<1>1. pc \in [Drivers -> Points] /\ DOMAIN go = Drivers
  BY DEF LayingOut, Types, LocalTypes
<1>2. ~\E n \in DOMAIN go[t] : ModuleStep(t, n)
  BY ModuleStepProgress DEF Progress, Finishing, Down
<1>3. ~PlanStop(t) /\ ~StopLayer(t)
  BY PlanStopDescends, StopLayerDescends
<1>4. ~LayerStopped(t) /\ ~StartRefused(t) /\ ~Cancel(t)
  BY DEF LayerStopped, StartRefused, Cancel, Finishing, LayerDone
<1>5. pc'[t] \in {"idle", "plan", "stop", "inject", "unplannable", "start", "starting", "planStop"}
  BY <1>1, <1>2, <1>3, <1>4 DEF StepOf, DriverStep, Call, BeginStart, BeginStop, PlanStart, PlanFails, StartUnplannable,
     InjectContext, StartLayer, LayerStarted, StartFinished, Abort, ClaimStop, NothingToStop, StopAborted,
     StopFinished, Return, Launch, Goto, Set
<1> QED BY <1>5 DEF Finishing

LEMMA EmptiedStep ==
  LayingOut /\ LayingOut' /\ Alone /\ Alone' /\ OneByOne /\ Emptied /\ [Next]_vars => Emptied'
<1> SUFFICES ASSUME LayingOut, LayingOut', Alone, Alone', OneByOne, Emptied, [Next]_vars,
                    NEW t \in Drivers, Finishing(t)'
             PROVE  started' = <<>>
  BY DEF Emptied
<1> USE DEF fields, locals
<1>1. ASSUME started' = started, Finishing(t) PROVE started' = <<>>
  BY <1>1 DEF Emptied
<1>2. CASE UNCHANGED <<started, pc, todo, go>>
  <2>1. Finishing(t)
    BY <1>2 DEF Finishing, LayerDone
  <2> QED BY <1>1, <1>2, <2>1
<1>3. ASSUME NEW n \in Modules, NEW list \in Declared[n], Register(n, list) PROVE started' = <<>>
  BY <1>2, <1>3 DEF Register
<1>4. ASSUME NEW u \in Drivers, NEW n \in DOMAIN go[u], ModuleStep(u, n) PROVE started' = <<>>
  <2>1. go[u][n] # "done" /\ pc' = pc
    BY <1>4, ModuleStepNotDone DEF ModuleStep, InitModule, InitRefused, InitSucceeds, InitFails, RolledBack, RecordStarted,
       DestroyModule, DestroyRefused, DestroyAbandoned, DestroyCommits, Destroyed, Forget
  <2>2. u = t /\ ~Finishing(t)
    BY <2>1, BusyIsEngaged DEF LayingOut, Finishing, Alone, Engaged
  <2> QED BY <1>4, <2>2, AloneIsSerial, FinishesEmpty DEF StepOf
<1>5. ASSUME NEW u \in Drivers, DriverStep(u) \/ Call(u) \/ Cancel(u) PROVE started' = <<>>
  <2>1. started' = started
    BY <1>5, HandsOff DEF LayingOut
  <2>2. CASE u # t
    <3>1. Spares(t)
      BY <1>5, <2>2, OthersSpared DEF StepOf, LayingOut
    <3>2. Finishing(t)
      BY <3>1 DEF Spares, Finishing, LayerDone
    <3> QED BY <1>1, <2>1, <3>2
  <2>3. CASE u = t
    BY <1>1, <1>5, <2>1, <2>3, AloneIsSerial, FinishesEmpty DEF StepOf
  <2> QED BY <2>2, <2>3
<1>6. CASE UNCHANGED vars
  BY <1>2, <1>6 DEF vars
<1> QED BY <1>3, <1>4, <1>5, <1>6 DEF Next

LEMMA CompleteStopLeavesNothing ==
  ASSUME LayingOut, Alone, OneByOne, Emptied, [Next]_vars,
         NEW t \in Drivers, pc[t] = "teardown", pc'[t] = "idle", outcome'[t] # "aborted"
  PROVE  started = <<>> /\ \A n \in Modules : mod[n] \in Startable \/ n \in kept
<1> USE DEF fields, locals
<1>1. pc \in [Drivers -> Points] /\ DOMAIN outcome = Drivers
  BY DEF LayingOut, Types, LocalTypes
<1>2. StopFinished(t)
  <2>1. ASSUME NEW u \in Drivers, StepOf(u) PROVE u = t
    <3>1. u # t => Spares(t)
      BY <2>1, OthersSpared DEF LayingOut
    <3> QED BY <3>1 DEF Spares
  <2>2. ASSUME NEW n \in DOMAIN go[t], ModuleStep(t, n) PROVE FALSE
    BY <2>2 DEF ModuleStep, InitModule, InitRefused, InitSucceeds, InitFails, RolledBack, RecordStarted,
       DestroyModule, DestroyRefused, DestroyAbandoned, DestroyCommits, Destroyed, Forget
  <2>3. ~Call(t) /\ ~Cancel(t)
    BY DEF Call, StartRefused, BeginStart, BeginStop, Cancel
  <2>4. DriverStep(t) => StopFinished(t)
    BY <1>1 DEF DriverStep, PlanStart, PlanFails, StartUnplannable, InjectContext, StartLayer, LayerStarted, StartFinished,
       Abort, ClaimStop, NothingToStop, PlanStop, StopLayer, LayerStopped, StopAborted, Return, Launch, Goto, Set
  <2>5. ~UNCHANGED vars /\ \A n \in Modules : \A list \in Declared[n] : ~Register(n, list)
    BY DEF vars, Register
  <2> QED BY <2>1, <2>2, <2>3, <2>4, <2>5, StepsAreOfOne DEF StepOf
<1>3. LayerDone(t) /\ todo[t] = {}
  BY <1>2 DEF StopFinished, LayingOut, Shape, Fits
<1>4. started = <<>>
  BY <1>3 DEF Finishing, Emptied
<1>5. ASSUME NEW n \in Modules, mod[n] \notin Startable, n \notin kept PROVE FALSE
  <2>1. Range(started) = {}
    BY <1>4 DEF Range
  <2>2. PICK u \in Drivers : n \in DOMAIN go[u] /\ go[u][n] \in Handling \cup {"append"}
    BY <1>5, <2>1, NotAtRest DEF IsUp
  <2>3. u = t
    BY <2>2, BusyIsEngaged DEF Handling, LayingOut, Alone
  <2> QED BY <1>3, <2>2, <2>3 DEF LayerDone, Handling
<1> QED BY <1>4, <1>5

\* A Stop that is alone and was not cut short has emptied m.started, and left up only
\* what refused.
THEOREM StopsClean == Spec /\ []Alone => StopLeavesNothing
<1>1. Init => Emptied
  BY DEF Init, Emptied
<1>2. Spec /\ []Alone => []Serial
  BY AloneIsSerial, PTL
<1>3. Spec /\ []Alone => []Emptied
  BY <1>1, <1>2, EmptiedStep, Invariance, Serially, PTL DEF Spec
<1>4. LayingOut /\ Alone /\ OneByOne /\ Emptied /\ [Next]_vars =>
        \A t \in Drivers : pc[t] = "teardown" /\ pc'[t] = "idle" /\ outcome'[t] # "aborted" =>
          started = <<>> /\ \A n \in Modules : mod[n] \in Startable \/ n \in kept
  BY CompleteStopLeavesNothing
<1> QED BY <1>2, <1>3, <1>4, Invariance, Serially, PTL DEF Spec, StopLeavesNothing

-----------------------------------------------------------------------------
(* Callers that cannot overlap                                             *)

\* A single driver, which waits for each call to return, never overlaps its calls.
THEOREM OneDriver ==
  ASSUME \A t, u \in Drivers : t = u
  PROVE  Spec => []Alone /\ []Serial
<1>1. Alone
  BY DEF Alone
<1> QED BY <1>1, AloneIsSerial, PTL

\* The state that beginStart looks at tells of every call but a Stop just begun.
LEMMA StartFindsNobodyEngaged ==
  ASSUME LayingOut, OneByOne, MayStart, NEW t \in Drivers, pc[t] = "stop" => aborting[t]
  PROVE  ~Engaged(t)
<1>1. mstate # "Starting" /\ started = <<>>
  BY DEF MayStart
<1>2. Range(started) = {}
  BY <1>1 DEF Range
<1> SUFFICES ASSUME Engaged(t) PROVE FALSE
  OBVIOUS
<1>3. Progress(t) /\ pc[t] \in Points /\ pc[t] # "idle"
  BY DEF OneByOne, Engaged, LayingOut, Types, LocalTypes
<1>4. pc[t] \in {"teardown", "stopping"}
  BY <1>1, <1>3 DEF Progress, Points, Up, Down, Snapshot
<1>5. Remains(t)
  BY <1>3, <1>4 DEF Progress, Down
<1> QED BY <1>2, <1>4, <1>5 DEF Remains, Engaged, Finishing, LayerDone

\* While nobody calls Stop, only a Start that rolls back tears anything down.
OnlyRollsBack == \A t \in Drivers : pc[t] \in Down \cup {"stop"} => aborting[t]

LEMMA StartsKeepSerial ==
  ASSUME Stoppers = {}
  PROVE  LayingOut /\ Serial /\ OneByOne /\ OnlyRollsBack /\ [Next]_vars => Serial' /\ OnlyRollsBack'
<1> SUFFICES ASSUME LayingOut, Serial, OneByOne, OnlyRollsBack, [Next]_vars PROVE Serial' /\ OnlyRollsBack'
  OBVIOUS
<1> USE DEF fields, locals
<1>1. CASE UNCHANGED <<pc, todo, go, aborting>>
  BY <1>1 DEF Serial, OnlyRollsBack, Engaged, Finishing, LayerDone
<1>2. ASSUME NEW n \in Modules, NEW list \in Declared[n], Register(n, list) PROVE Serial' /\ OnlyRollsBack'
  BY <1>1, <1>2 DEF Register
<1>3. ASSUME NEW t \in Drivers, StepOf(t) PROVE Serial' /\ OnlyRollsBack'
  <2>1. \A u \in Drivers \ {t} : Spares(u)
    BY <1>3, OthersSpared DEF LayingOut
  <2>2. pc \in [Drivers -> Points] /\ aborting \in [Drivers -> BOOLEAN]
    BY DEF LayingOut, Types, LocalTypes
  <2>3. pc'[t] \in Down \cup {"stop"} => aborting'[t]
    <3>1. CASE \E n \in DOMAIN go[t] : ModuleStep(t, n)
      <4>1. pc' = pc /\ aborting' = aborting
        BY <3>1 DEF ModuleStep, InitModule, InitRefused, InitSucceeds, InitFails, RolledBack, RecordStarted,
           DestroyModule, DestroyRefused, DestroyAbandoned, DestroyCommits, Destroyed, Forget
      <4> QED BY <4>1 DEF OnlyRollsBack
    <3>2. CASE DriverStep(t)
      BY <2>2, <3>2 DEF OnlyRollsBack, Down, DriverStep, PlanStart, PlanFails, StartUnplannable, InjectContext, StartLayer,
         LayerStarted, StartFinished, Abort, ClaimStop, NothingToStop, PlanStop, StopLayer, LayerStopped, StopAborted,
         StopFinished, Return, Launch, Goto, Set
    <3>3. CASE Call(t) \/ Cancel(t)
      BY <2>2, <3>3 DEF OnlyRollsBack, Down, Call, StartRefused, BeginStart, BeginStop, Cancel, Goto, Set
    <3> QED BY <1>3, <3>1, <3>2, <3>3 DEF StepOf
  <2>4. OnlyRollsBack'
    BY <2>1, <2>3 DEF OnlyRollsBack, Spares
  <2>5. ~BeginStop(t)
    BY DEF BeginStop
  <2>6. BeginStart(t) => \A u \in Drivers : ~Engaged(u)
    BY StartFindsNobodyEngaged DEF BeginStart, OnlyRollsBack
  <2> QED BY <1>3, <2>4, <2>5, <2>6, SerialKept
<1>4. CASE UNCHANGED vars
  BY <1>1, <1>4 DEF vars
<1> QED BY <1>2, <1>3, <1>4, StepsAreOfOne

\* While nobody calls Stop, the check of state in beginStart keeps any number of
\* Starts apart, those that roll back included.
THEOREM StartsOnly ==
  ASSUME Stoppers = {}
  PROVE  Spec => []Serial /\ []StartIsExclusive
<1>1. Init => Serial /\ OneByOne /\ OnlyRollsBack
  <2> SUFFICES ASSUME Init PROVE Serial /\ OneByOne /\ OnlyRollsBack
    OBVIOUS
  <2>1. \A t \in Drivers : ~Engaged(t) /\ pc[t] = "idle"
    BY DEF Init, Engaged
  <2>2. OneByOne
    BY InitIsOneByOne
  <2> QED BY <2>1, <2>2 DEF Serial, OnlyRollsBack, Down
<1>2. LayingOut /\ Serial /\ OneByOne /\ OnlyRollsBack /\ [Next]_vars => Serial' /\ OnlyRollsBack' /\ OneByOne'
  BY StartsKeepSerial, OneByOneStep
<1>3. LayingOut /\ Serial => StartIsExclusive
  BY DEF LayingOut, Serial, StartIsExclusive, BringsUp, Engaged, Finishing
<1> QED BY <1>1, <1>2, <1>3, Invariance, PTL DEF Spec

=============================================================================
