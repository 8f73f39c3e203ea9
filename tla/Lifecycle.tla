------------------------------- MODULE Lifecycle -------------------------------
(***************************************************************************)
(* What a module of appmod promises to whoever drives it: the state        *)
(* machine of state.go together with the compensation promise of           *)
(* AddCleanup.  There are no hooks, contexts or locks here, only           *)
(*                                                                         *)
(*   - the published state,                                                *)
(*   - which caller holds the module, and how far its operation has got,   *)
(*   - the resources that running start hooks acquired and that nothing    *)
(*     has released yet.                                                   *)
(*                                                                         *)
(* A resource is the number of the AddCleanup call that registered its     *)
(* release, so a larger number was acquired later.                         *)
(***************************************************************************)
EXTENDS Integers

CONSTANTS Callers,      \* goroutines that may call Init and Destroy
          NoCaller      \* "nobody holds the module": not a caller

VARIABLES state,        \* what State() reports
          holder,       \* the caller whose operation is in progress
          stage,        \* how far that operation has got
          due           \* resources acquired and not yet released

vars == <<state, holder, stage, due>>

States    == {"Created", "Initializing", "Running", "Destroying", "Destroyed", "Failed"}
Startable == {"Created", "Destroyed", "Failed"}

Init == /\ state = "Created"
        /\ holder = NoCaller
        /\ stage = "none"
        /\ due = {}

Move(c, from, to, s) == /\ holder = c
                        /\ stage = from
                        /\ stage' = to
                        /\ state' = s

-----------------------------------------------------------------------------
BeginInit(c) == /\ holder = NoCaller
                /\ state \in Startable
                /\ state' = "Initializing"
                /\ holder' = c
                /\ stage' = "start"
                /\ UNCHANGED due

\* A start hook acquires r, after everything acquired before it.
Acquire(c, r) == /\ holder = c
                 /\ stage = "start"
                 /\ \A q \in due : q < r
                 /\ due' = due \cup {r}
                 /\ UNCHANGED <<state, holder, stage>>

FinishInit(c) == /\ Move(c, "start", "none", "Running")
                 /\ holder' = NoCaller
                 /\ UNCHANGED due

BeginRollback(c) == /\ Move(c, "start", "rollback", "Destroying")
                    /\ UNCHANGED <<holder, due>>

\* Releases run latest first, and only past the point of no return.
Release(c, r) == /\ holder = c
                 /\ stage \in {"rollback", "release"}
                 /\ r \in due
                 /\ \A q \in due : q <= r
                 /\ due' = due \ {r}
                 /\ UNCHANGED <<state, holder, stage>>

FinishRollback(c) == /\ due = {}
                     /\ Move(c, "rollback", "none", "Failed")
                     /\ holder' = NoCaller
                     /\ UNCHANGED due

BeginDestroy(c) == /\ holder = NoCaller
                   /\ state = "Running"
                   /\ state' = "Destroying"
                   /\ holder' = c
                   /\ stage' = "stop"
                   /\ UNCHANGED due

\* A refused teardown gives the module back with everything it holds.
AbandonDestroy(c) == /\ Move(c, "stop", "none", "Running")
                     /\ holder' = NoCaller
                     /\ UNCHANGED due

CommitDestroy(c) == /\ Move(c, "stop", "release", "Destroying")
                    /\ UNCHANGED <<holder, due>>

FinishDestroy(c) == /\ due = {}
                    /\ Move(c, "release", "none", "Destroyed")
                    /\ holder' = NoCaller
                    /\ UNCHANGED due

Next == \E c \in Callers :
          \/ BeginInit(c) \/ FinishInit(c) \/ BeginRollback(c) \/ FinishRollback(c)
          \/ BeginDestroy(c) \/ AbandonDestroy(c) \/ CommitDestroy(c) \/ FinishDestroy(c)
          \/ \E r \in due' \ due : Acquire(c, r)
          \/ \E r \in due : Release(c, r)

Spec == Init /\ [][Next]_vars
=============================================================================
