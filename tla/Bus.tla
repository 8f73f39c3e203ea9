---------------------------------- MODULE Bus ----------------------------------
(***************************************************************************)
(* hubmod (adapters/hubmod/hubmod.go): modules that own a hub, and modules *)
(* that take the hub from the registry in a start hook and subscribe to it *)
(* with SubscribeModule.                                                   *)
(*                                                                         *)
(* Every module is a BaseAppModule under a Manager that one goroutine      *)
(* drives: a user starts once the hub it needs is running, and a hub goes  *)
(* down once Stop is done with its users, those that refused to go down    *)
(* and are still subscribed included (Manager, stopLayer).  A user may be  *)
(* restarted on its own, and is dropped from the list and recorded again   *)
(* as if Stop and Start had done it.  msghub is external: a hub that was   *)
(* closed stays closed.                                                    *)
(***************************************************************************)
EXTENDS Registry, Integers

CONSTANTS Hubs,         \* hub modules, each with a hub of its own
          Users,        \* modules that subscribe
          Need,         \* the hub module each user depends on
          Publishing,   \* hub modules without the option WithoutRegistry
          MaxLives      \* bound: how often a hub module is started

ASSUME BusAssumption == /\ Nothing \notin Hubs
                        /\ Hubs \cap Users = {}
                        /\ Need \in [Users -> Hubs]
                        /\ Publishing \subseteq Hubs
                        /\ MaxLives \in Nat

VARIABLES services,     \* Registry.services
          mod,          \* State of every module
          pc,           \* where the Init or Destroy of every module is
          revoking,     \* hub modules whose constructor's cleanup is registered
          undo,         \* hubs whose subscription a cleanup of the user closes
          subs,         \* subscriptions of every user to every hub that it has not closed
          closed,       \* hubs that are closed
          listed,       \* users in m.started: those Stop still has to tear down
          lives         \* number of starts of every hub module

vars == <<services, mod, pc, revoking, undo, subs, closed, listed, lives>>
bus  == <<services, revoking, undo, subs, closed, lives>>

Contract  == "*msghub.Hub"
Startable == {"Created", "Destroyed", "Failed"}
States    == Startable \cup {"Initializing", "Running", "Destroying"}

Init == /\ services = Empty({Contract})
        /\ mod = [n \in Hubs \cup Users |-> "Created"]
        /\ pc = [n \in Hubs \cup Users |-> "idle"]
        /\ revoking = Publishing
        /\ undo = [u \in Users |-> {}]
        /\ subs = [u \in Users |-> [h \in Hubs |-> 0]]
        /\ closed = {}
        /\ listed = {}
        /\ lives = [h \in Hubs |-> 0]

\* The operation in progress on n moves on; n enters state s.
Move(n, from, to, s) == /\ pc[n] = from
                        /\ pc' = [pc EXCEPT ![n] = to]
                        /\ mod' = [mod EXCEPT ![n] = s]

-----------------------------------------------------------------------------
(* What a hub module and a user share (BaseAppModule)                      *)

\* startLayer records what came up.
Recorded(n) == listed \cup ({n} \cap Users)

\* stopLayer drops a module "whether or not Destroy succeeded".
Forgotten(n) == listed \ {n}

Runs(n) == /\ Move(n, "finish", "idle", "Running")
           /\ listed' = Recorded(n)
           /\ UNCHANGED bus

\* A start hook fails: Provide is refused, Require finds no hub, the hub is closed,
\* it is a hook of somebody else, or the context is canceled.
Fails(n) == /\ \E point \in {"provide", "require", "finish"} : Move(n, point, "rollback", "Destroying")
            /\ UNCHANGED <<bus, listed>>

\* A BeforeDestroy hook fails: n is up, with its cleanups unrun, and no longer listed.
Stays(n) == /\ Move(n, "teardown", "idle", "Running")
            /\ listed' = Forgotten(n)
            /\ UNCHANGED bus

\* The step in which the cleanups of n run, on either way down.
Releases(n) == \/ Move(n, "rollback", "failed", "Destroying")
               \/ Move(n, "teardown", "destroyed", "Destroying")

IsDown(n) == /\ \/ /\ Move(n, "failed", "idle", "Failed")
                   /\ UNCHANGED listed
                \/ /\ Move(n, "destroyed", IF n \in Hubs THEN "shutdown" ELSE "idle", "Destroyed")
                   /\ listed' = Forgotten(n)
             /\ UNCHANGED bus

-----------------------------------------------------------------------------
(* A hub module (NewModule)                                                *)

InitHub(h) == /\ mod[h] \in Startable
              /\ lives[h] < MaxLives
              /\ lives' = [lives EXCEPT ![h] = @ + 1]
              /\ Move(h, "idle", "provide", "Initializing")
              /\ UNCHANGED <<services, revoking, undo, subs, closed, listed>>

NotProvided(h) == services  \* mutant: the hook does nothing

Provided(h) == Provide(services, Contract, h)

ProvideHub(h) == /\ h \in Publishing
                 /\ Providable(services, Contract, h)
                 /\ services' = Provided(h)
                 /\ Move(h, "provide", "finish", "Initializing")
                 /\ UNCHANGED <<revoking, undo, subs, closed, listed, lives>>

KeepHub(h) == /\ h \notin Publishing
              /\ Move(h, "provide", "finish", "Initializing")
              /\ UNCHANGED <<bus, listed>>

Undeclared(h) == {}  \* mutant: users do not declare the dependency

Dependents(h) == {u \in Users : Need[u] = h}

\* Stop comes to the layer of the hub when it is done with the layers above it.
DestroyHub(h) == /\ mod[h] = "Running"
                 /\ \A u \in Dependents(h) : u \notin listed /\ pc[u] = "idle"
                 /\ Move(h, "idle", "teardown", "Destroying")
                 /\ UNCHANGED <<bus, listed>>

StillProvided(h) == services  \* mutant: no cleanup

\* The cleanup of the constructor, if no earlier teardown has used it up.
Revoked(h) == IF h \in revoking THEN Revoke(services, Contract) ELSE services

RevokeHub(h) == /\ Releases(h)
                /\ services' = Revoked(h)
                /\ revoking' = revoking \ {h}
                /\ UNCHANGED <<undo, subs, closed, listed, lives>>

\* The context of the teardown is canceled before the AfterDestroy hook.
SkipShutdown(h) == /\ Move(h, "shutdown", "idle", mod[h])
                   /\ UNCHANGED <<bus, listed>>

\* Drain, if the module drains, may time out: Close follows in any case.
Drained(h) == /\ Move(h, "shutdown", "close", mod[h])
              /\ UNCHANGED <<bus, listed>>

CloseHub(h) == /\ Move(h, "close", "idle", mod[h])
               /\ closed' = closed \cup {h}
               /\ UNCHANGED <<services, revoking, undo, subs, listed, lives>>

-----------------------------------------------------------------------------
(* A module that subscribes                                                *)

InitUser(u) == /\ mod[u] \in Startable
               /\ mod[Need[u]] = "Running"
               /\ Move(u, "idle", "require", "Initializing")
               /\ UNCHANGED <<bus, listed>>

HandleDropped(u, h) == undo[u]  \* mutant: msghub.Subscribe, without the cleanup

Tied(u, h) == undo[u] \cup {h}

\* A start hook: Require, then SubscribeModule.
SubscribeModule(u) == \E h \in Hubs \ closed :
                        /\ services[Contract] = h
                        /\ subs' = [subs EXCEPT ![u][h] = @ + 1]
                        /\ undo' = [undo EXCEPT ![u] = Tied(u, h)]
                        /\ Move(u, "require", "finish", "Initializing")
                        /\ UNCHANGED <<services, revoking, closed, listed, lives>>

DestroyUser(u) == /\ mod[u] = "Running"
                  /\ Move(u, "idle", "teardown", "Destroying")
                  /\ UNCHANGED <<bus, listed>>

StillTied(u) == undo[u]  \* mutant: the cleanups are not taken off the list

Untied(u) == {}

\* The cleanups: sub.Close() for every subscription of this life.
Unsubscribe(u) == /\ Releases(u)
                  /\ subs' = [subs EXCEPT ![u] = [h \in Hubs |-> IF h \in undo[u] THEN @[h] - 1 ELSE @[h]]]
                  /\ undo' = [undo EXCEPT ![u] = Untied(u)]
                  /\ UNCHANGED <<services, revoking, closed, listed, lives>>

-----------------------------------------------------------------------------
Shared(n) == Runs(n) \/ Fails(n) \/ Stays(n) \/ IsDown(n)

HubStep(h) == \/ InitHub(h) \/ ProvideHub(h) \/ KeepHub(h) \/ DestroyHub(h)
              \/ RevokeHub(h) \/ SkipShutdown(h) \/ Drained(h) \/ CloseHub(h)

UserStep(u) == InitUser(u) \/ SubscribeModule(u) \/ DestroyUser(u) \/ Unsubscribe(u)

Next == \/ \E n \in Hubs \cup Users : Shared(n)
        \/ \E h \in Hubs : HubStep(h)
        \/ \E u \in Users : UserStep(u)

Spec == Init /\ [][Next]_vars

-----------------------------------------------------------------------------
(* Properties                                                              *)

\* The type of every variable; no subscription is closed twice.
TypeOK == /\ services \in [{Contract} -> Hubs \cup {Nothing}]
          /\ mod \in [Hubs \cup Users -> States]
          /\ revoking \subseteq Hubs
          /\ undo \in [Users -> SUBSET Hubs]
          /\ subs \in [Users -> [Hubs -> Nat]]
          /\ closed \subseteq Hubs
          /\ listed \subseteq Users
          /\ lives \in [Hubs -> 0..MaxLives]

\* A user is subscribed once while it runs and not at all while it is down, also
\* after a start that failed half way, a refused teardown, and any number of
\* restarts (SubscribeModule: "a module that is stopped and started again is not
\* subscribed twice").
SubscribedOnce ==
  \A u \in Users :
    /\ mod[u] = "Running" => \E h \in Hubs : /\ subs[u][h] = 1
                                             /\ \A g \in Hubs \ {h} : subs[u][g] = 0
    /\ mod[u] \in Startable => \A h \in Hubs : subs[u][h] = 0

\* A user that refused its last teardown: up, or trying again, and not listed.
Refused(u) == u \notin listed /\ (mod[u] = "Running" \/ pc[u] = "teardown")

\* The subscribers of a closed hub are users that refused to go down: those Stop
\* forgets, closes the hub, and they run on with a subscription to it, although the
\* hub is to be closed "after every module that publishes to it has already stopped"
\* (hubmod.go, Module).  No other user ever has one, whatever fails or is retried:
\* not one that is listed, that is starting or rolling back, or that is down.
OpenWhileUsed == \A u \in Users, h \in closed : subs[u][h] = 0 \/ Refused(u)

\* A user that declares the dependency finds the hub of the module it depends on
\* (Require: "the provider's AfterStart has run by then").
RequireFinds == \A u \in Users : pc[u] = "require" => services[Contract] = Need[u]

\* The registry never leads to a hub that is being shut down, or that was
\* (Readme.md of hubmod: "the registry entry is already revoked by then").
RevokedBeforeShutdown ==
  \A h \in Hubs : pc[h] \in {"shutdown", "close"} \/ h \in closed => services[Contract] # h
=============================================================================
