------------------------------- MODULE Bus_proofs -------------------------------
(***************************************************************************)
(* What holds of hubs and their subscribers for every number of both, and  *)
(* every number of restarts.                                               *)
(*                                                                         *)
(* Orderly holds in every configuration: where the operation of a module   *)
(* is fixes its state, the subscriptions of a user are exactly those its   *)
(* cleanups will close, and a user that is starting, or that Stop still    *)
(* has to tear down, finds the hub module it depends on running; one that  *)
(* refused its teardown may not.  The registry needs more: Readme.md asks for     *)
(* WithoutRegistry on all hubs but one (OnePublished), and a hub module    *)
(* is not meant to be started again (MaxLives).                            *)
(***************************************************************************)
EXTENDS Bus, TLAPS

All == Hubs \cup Users

Points == {"idle", "provide", "require", "finish", "rollback", "teardown",
           "failed", "destroyed", "shutdown", "close"}

\* The state that the point of an operation fixes.
Agrees(point, state) ==
  /\ point = "idle" => state \in Startable \cup {"Running"}
  /\ point \in {"provide", "require", "finish"} => state = "Initializing"
  /\ point \in {"rollback", "failed", "teardown", "destroyed"} => state = "Destroying"
  /\ point \in {"shutdown", "close"} => state = "Destroyed"

StateAt(n) == Agrees(pc[n], mod[n])

\* The points of the operations of a hub module, and of a module that subscribes.
PointsOf(n) == IF n \in Hubs THEN Points \ {"require"} ELSE Points \ {"provide", "shutdown", "close"}

Places == /\ pc \in [All -> Points]
          /\ \A n \in All : StateAt(n) /\ pc[n] \in PointsOf(n)

\* A user is subscribed once to each hub its cleanups will leave, and to no other.
Paired == \A u \in Users, h \in Hubs : subs[u][h] = IF h \in undo[u] THEN 1 ELSE 0

\* A user that has come past its start hook is tied to one hub, one that has not, or
\* that has run its cleanups, to none.
IsTied(u)  == \E h \in Hubs : undo[u] = {h}
InUse(u)   == pc[u] \in {"finish", "teardown"} \/ mod[u] = "Running"

\* A user that Start is bringing up, or rolling back, or that Stop has still to take down.
Engaged(u) == u \in listed \/ pc[u] \in {"require", "finish", "rollback", "failed"}

TiedInUse == \A u \in Users : /\ InUse(u) => IsTied(u)
                              /\ ~InUse(u) /\ pc[u] # "rollback" => undo[u] = {}

\* Users wait for their hub module to come up, and it waits until Stop is done with
\* them; of a user that refused its teardown, and was forgotten, nothing is said.
HubsOutlive == \A u \in Users : Engaged(u) => mod[Need[u]] = "Running"

\* Only a hub module that publishes has a cleanup that revokes.
OnlyPublishersRevoke == revoking \subseteq Publishing

Orderly == TypeOK /\ Places /\ Paired /\ TiedInUse /\ HubsOutlive /\ OnlyPublishersRevoke

LEMMA InitOrderly == Init => Orderly
<1> SUFFICES ASSUME Init PROVE Orderly
  OBVIOUS
<1>1. TypeOK
  BY BusAssumption DEF Init, TypeOK, Empty, States, Startable
<1>2. Places
  BY BusAssumption DEF Init, Places, StateAt, Agrees, PointsOf, All, Points, Startable
<1>3. Paired
  BY DEF Init, Paired
<1>4. TiedInUse
  BY DEF Init, TiedInUse, InUse
<1>5. HubsOutlive
  BY DEF Init, HubsOutlive, Engaged
<1>6. OnlyPublishersRevoke
  BY DEF Init, OnlyPublishersRevoke
<1> QED BY <1>1, <1>2, <1>3, <1>4, <1>5, <1>6 DEF Orderly

LEMMA TypeStep == TypeOK /\ Places /\ Paired /\ Next => TypeOK'
<1> SUFFICES ASSUME TypeOK, Places, Paired, Next PROVE TypeOK'
  OBVIOUS
<1> USE BusAssumption DEF TypeOK, Move, bus, States, Startable, All, Recorded, Forgotten
<1>1. ASSUME NEW n \in All, Shared(n) PROVE TypeOK'
  BY <1>1 DEF Shared, Runs, Fails, Stays, IsDown
<1>2. ASSUME NEW h \in Hubs, InitHub(h) \/ ProvideHub(h) \/ KeepHub(h) \/ DestroyHub(h) PROVE TypeOK'
  <2>1. CASE InitHub(h)
    <3>1. lives[h] + 1 \in 0..MaxLives
      BY <2>1 DEF InitHub
    <3> QED BY <2>1, <3>1 DEF InitHub
  <2>2. CASE ProvideHub(h)
    BY <2>2 DEF ProvideHub, Provided, Provide
  <2>3. CASE KeepHub(h) \/ DestroyHub(h)
    BY <2>3 DEF KeepHub, DestroyHub
  <2> QED BY <1>2, <2>1, <2>2, <2>3
<1>3. ASSUME NEW h \in Hubs, RevokeHub(h) PROVE TypeOK'
  BY <1>3 DEF RevokeHub, Releases, Revoked, Revoke
<1>4. ASSUME NEW h \in Hubs, SkipShutdown(h) \/ Drained(h) \/ CloseHub(h) PROVE TypeOK'
  BY <1>4 DEF SkipShutdown, Drained, CloseHub
<1>5. ASSUME NEW u \in Users, InitUser(u) \/ DestroyUser(u) PROVE TypeOK'
  BY <1>5 DEF InitUser, DestroyUser
<1>6. ASSUME NEW u \in Users, SubscribeModule(u) PROVE TypeOK'
  BY <1>6 DEF SubscribeModule, Tied
<1>7. ASSUME NEW u \in Users, Unsubscribe(u) PROVE TypeOK'
  <2>1. \A h \in Hubs : h \in undo[u] => subs[u][h] = 1
    BY DEF Paired
  <2>2. [h \in Hubs |-> IF h \in undo[u] THEN subs[u][h] - 1 ELSE subs[u][h]] \in [Hubs -> Nat]
    BY <2>1
  <2> QED BY <1>7, <2>2 DEF Unsubscribe, Untied, Releases
<1> QED BY <1>1, <1>2, <1>3, <1>4, <1>5, <1>6, <1>7 DEF Next, HubStep, UserStep

LEMMA MovePlaces ==
  ASSUME TypeOK, Places, NEW n \in All, NEW from, NEW to \in PointsOf(n), NEW s,
         Move(n, from, to, s), Agrees(to, s)
  PROVE  Places'
<1>1. pc' = [pc EXCEPT ![n] = to] /\ mod' = [mod EXCEPT ![n] = s] /\ to \in Points
  BY DEF Move, PointsOf
<1>2. pc' \in [All -> Points]
  BY <1>1 DEF Places
<1>3. ASSUME NEW m \in All PROVE Agrees(pc'[m], mod'[m]) /\ pc'[m] \in PointsOf(m)
  <2>1. CASE m = n
    BY <1>1, <2>1 DEF TypeOK, Places, All
  <2>2. CASE m # n
    BY <1>1, <2>2 DEF TypeOK, Places, StateAt, All
  <2> QED BY <2>1, <2>2
<1>4. \A m \in All : StateAt(m)' <=> Agrees(pc'[m], mod'[m])
  BY DEF StateAt
<1>5. \A m \in All : PointsOf(m)' = PointsOf(m)
  BY DEF PointsOf
<1> QED BY <1>2, <1>3, <1>4, <1>5 DEF Places

LEMMA PlacesStep == TypeOK /\ Places /\ Next => Places'
<1> SUFFICES ASSUME TypeOK, Places, Next PROVE Places'
  OBVIOUS
<1> USE BusAssumption DEF Startable, All, Points, PointsOf, Agrees
<1>1. ASSUME NEW n \in All, Runs(n) PROVE Places'
  BY <1>1, MovePlaces DEF Runs
<1>2. ASSUME NEW n \in All, Fails(n) PROVE Places'
  BY <1>2, MovePlaces DEF Fails
<1>3. ASSUME NEW n \in All, Stays(n) PROVE Places'
  BY <1>3, MovePlaces DEF Stays
<1>4. ASSUME NEW n \in All, IsDown(n) PROVE Places'
  <2>1. CASE Move(n, "failed", "idle", "Failed")
    BY <2>1, MovePlaces
  <2>2. CASE Move(n, "destroyed", IF n \in Hubs THEN "shutdown" ELSE "idle", "Destroyed")
    BY <2>2, MovePlaces
  <2> QED BY <1>4, <2>1, <2>2 DEF IsDown
<1>5. ASSUME NEW n \in All, Releases(n) PROVE Places'
  <2>1. CASE Move(n, "rollback", "failed", "Destroying")
    BY <2>1, MovePlaces
  <2>2. CASE Move(n, "teardown", "destroyed", "Destroying")
    BY <2>2, MovePlaces
  <2> QED BY <1>5, <2>1, <2>2 DEF Releases
<1>6. ASSUME NEW h \in Hubs, InitHub(h) PROVE Places'
  BY <1>6, MovePlaces DEF InitHub
<1>7. ASSUME NEW h \in Hubs, ProvideHub(h) \/ KeepHub(h) PROVE Places'
  BY <1>7, MovePlaces DEF ProvideHub, KeepHub
<1>8. ASSUME NEW h \in Hubs, DestroyHub(h) PROVE Places'
  BY <1>8, MovePlaces DEF DestroyHub
<1>9. ASSUME NEW h \in Hubs, SkipShutdown(h) \/ Drained(h) \/ CloseHub(h) PROVE Places'
  <2>1. mod[h] = "Destroyed"
    BY <1>9 DEF SkipShutdown, Drained, CloseHub, Move, Places, StateAt
  <2>2. CASE SkipShutdown(h)
    BY <2>1, <2>2, MovePlaces DEF SkipShutdown
  <2>3. CASE Drained(h)
    BY <2>1, <2>3, MovePlaces DEF Drained
  <2>4. CASE CloseHub(h)
    BY <2>1, <2>4, MovePlaces DEF CloseHub
  <2> QED BY <1>9, <2>2, <2>3, <2>4
<1>10. ASSUME NEW u \in Users, InitUser(u) PROVE Places'
  BY <1>10, MovePlaces DEF InitUser
<1>11. ASSUME NEW u \in Users, SubscribeModule(u) PROVE Places'
  BY <1>11, MovePlaces DEF SubscribeModule
<1>12. ASSUME NEW u \in Users, DestroyUser(u) PROVE Places'
  BY <1>12, MovePlaces DEF DestroyUser
<1> QED
  BY <1>1, <1>2, <1>3, <1>4, <1>5, <1>6, <1>7, <1>8, <1>9, <1>10, <1>11, <1>12
  DEF Next, Shared, HubStep, UserStep, RevokeHub, Unsubscribe

\* The effect of a step on the subscriptions.
LEMMA SubscriptionsStep ==
  ASSUME TypeOK, Next
  PROVE  \/ UNCHANGED <<subs, undo>>
         \/ \E u \in Users : SubscribeModule(u) \/ Unsubscribe(u)
BY DEF Next, Shared, Runs, Fails, Stays, IsDown, HubStep, UserStep, bus, InitHub, ProvideHub, KeepHub, DestroyHub, RevokeHub,
   SkipShutdown, Drained, CloseHub, InitUser, DestroyUser

LEMMA PairedStep == Orderly /\ Next => Paired'
<1> SUFFICES ASSUME Orderly, Next PROVE Paired'
  OBVIOUS
<1>1. TypeOK /\ Places /\ Paired /\ TiedInUse
  BY DEF Orderly
<1>2. CASE UNCHANGED <<subs, undo>>
  BY <1>1, <1>2 DEF Paired
<1>3. ASSUME NEW u \in Users, SubscribeModule(u) PROVE Paired'
  <2>1. pc[u] = "require" /\ mod[u] = "Initializing"
    BY <1>1, <1>3 DEF SubscribeModule, Move, Places, StateAt, Agrees, PointsOf, All
  <2>2. undo[u] = {}
    BY <1>1, <2>1 DEF TiedInUse, InUse
  <2>3. PICK h \in Hubs : /\ subs' = [subs EXCEPT ![u][h] = @ + 1]
                          /\ undo' = [undo EXCEPT ![u] = undo[u] \cup {h}]
    BY <1>3 DEF SubscribeModule, Tied
  <2>4. undo'[u] = {h} /\ \A v \in Users \ {u} : undo'[v] = undo[v]
    BY <1>1, <2>2, <2>3 DEF TypeOK
  <2>5. /\ \A v \in Users \ {u}, g \in Hubs : subs'[v][g] = subs[v][g]
        /\ \A g \in Hubs : subs'[u][g] = IF g = h THEN subs[u][g] + 1 ELSE subs[u][g]
    BY <1>1, <2>3 DEF TypeOK
  <2>6. \A g \in Hubs : subs[u][g] = 0
    BY <1>1, <2>2 DEF Paired
  <2> QED BY <1>1, <2>4, <2>5, <2>6 DEF Paired
<1>4. ASSUME NEW u \in Users, Unsubscribe(u) PROVE Paired'
  <2>1. undo' = [undo EXCEPT ![u] = {}]
    BY <1>4 DEF Unsubscribe, Untied
  <2>2. subs' = [subs EXCEPT ![u] = [h \in Hubs |-> IF h \in undo[u] THEN subs[u][h] - 1 ELSE subs[u][h]]]
    BY <1>1, <1>4 DEF Unsubscribe, TypeOK
  <2>3. \A g \in Hubs : subs'[u][g] = 0
    BY <1>1, <2>2 DEF TypeOK, Paired
  <2>4. \A v \in Users \ {u}, g \in Hubs : subs'[v][g] = subs[v][g]
    BY <1>1, <2>2 DEF TypeOK
  <2> QED BY <1>1, <2>1, <2>3, <2>4 DEF Paired, TypeOK
<1> QED BY <1>1, <1>2, <1>3, <1>4, SubscriptionsStep

LEMMA TiedStep == Orderly /\ Next => TiedInUse'
<1> SUFFICES ASSUME Orderly, Next, NEW u \in Users
             PROVE  /\ InUse(u)' => IsTied(u)'
                    /\ ~InUse(u)' /\ pc'[u] # "rollback" => undo'[u] = {}
  BY DEF TiedInUse
<1>1. /\ TypeOK /\ Places /\ TiedInUse
      /\ DOMAIN pc = All /\ DOMAIN mod = All /\ DOMAIN undo = Users
      /\ u \in All /\ u \notin Hubs /\ StateAt(u) /\ pc[u] \in Points
      /\ InUse(u) => IsTied(u)
      /\ ~InUse(u) /\ pc[u] # "rollback" => undo[u] = {}
  BY BusAssumption DEF Orderly, TypeOK, Places, TiedInUse, All
<1>2. CASE UNCHANGED <<pc[u], mod[u], undo[u]>>
  BY <1>1, <1>2 DEF InUse, IsTied
<1>3. CASE Shared(u)
  <2>1. undo' = undo
    BY <1>3 DEF Shared, Runs, Fails, Stays, IsDown, bus
  <2>2. CASE Runs(u) \/ Stays(u)
    BY <1>1, <2>1, <2>2 DEF Runs, Stays, Move, InUse, IsTied
  <2>3. CASE Fails(u)
    BY <1>1, <2>1, <2>3 DEF Fails, Move, InUse, IsTied, StateAt, Agrees, PointsOf
  <2>4. CASE IsDown(u)
    BY <1>1, <2>1, <2>4 DEF IsDown, Move, InUse, IsTied, StateAt, Agrees, PointsOf
  <2> QED BY <1>3, <2>2, <2>3, <2>4 DEF Shared
<1>4. CASE SubscribeModule(u)
  BY <1>1, <1>4 DEF SubscribeModule, Tied, Move, InUse, IsTied, StateAt, Agrees, PointsOf
<1>5. CASE Unsubscribe(u)
  BY <1>1, <1>5 DEF Unsubscribe, Untied, Releases, Move, InUse, IsTied, StateAt, Agrees, PointsOf
<1>6. CASE InitUser(u) \/ DestroyUser(u)
  BY <1>1, <1>6 DEF InitUser, DestroyUser, bus, Move, InUse, IsTied, StateAt, Agrees, PointsOf, Startable
<1>8. ASSUME NEW n \in All \ {u}, Shared(n) PROVE UNCHANGED <<pc[u], mod[u], undo[u]>>
  BY <1>1, <1>8 DEF Shared, Runs, Fails, Stays, IsDown, Move, bus
<1>9. ASSUME NEW h \in Hubs, HubStep(h) PROVE UNCHANGED <<pc[u], mod[u], undo[u]>>
  BY <1>1, <1>9 DEF HubStep, bus, InitHub, ProvideHub, KeepHub, DestroyHub, RevokeHub, Releases, SkipShutdown, Drained,
     CloseHub, Move
<1>10. ASSUME NEW v \in Users \ {u}, UserStep(v) PROVE UNCHANGED <<pc[u], mod[u], undo[u]>>
  BY <1>1, <1>10 DEF UserStep, bus, InitUser, SubscribeModule, DestroyUser, Unsubscribe, Releases, Move
<1> QED BY <1>2, <1>3, <1>4, <1>5, <1>6, <1>8, <1>9, <1>10 DEF Next, All, UserStep

LEMMA OutliveStep == Orderly /\ Next => HubsOutlive'
<1> SUFFICES ASSUME Orderly, Next, NEW u \in Users, Engaged(u)' PROVE mod'[Need[u]] = "Running"
  BY DEF HubsOutlive
<1> DEFINE h == Need[u]
<1>1. /\ TypeOK /\ DOMAIN pc = All /\ DOMAIN mod = All
      /\ u \in All /\ u \notin Hubs /\ h \in Hubs /\ h \in All
      /\ StateAt(u) /\ StateAt(h) /\ pc[u] \in PointsOf(u) /\ pc[h] \in Points
      /\ Engaged(u) => mod[h] = "Running"
  BY BusAssumption DEF Orderly, TypeOK, Places, HubsOutlive, All
<1> HIDE DEF h
<1>2. CASE ~Engaged(u)
  <2>1. u \notin listed /\ pc[u] \in {"idle", "teardown", "destroyed"}
    BY <1>1, <1>2 DEF Engaged, PointsOf, Points
  <2>2. ~(pc'[u] = pc[u] /\ (u \in listed' <=> u \in listed))
    BY <1>2 DEF Engaged
  <2>3. \A n \in All \ {u} : ~Shared(n)
    BY <1>1, <2>2 DEF Shared, Runs, Fails, Stays, IsDown, Move, Recorded, Forgotten
  <2>4. \A n \in Hubs : ~HubStep(n)
    BY <1>1, <2>2 DEF HubStep, InitHub, ProvideHub, KeepHub, DestroyHub, RevokeHub, Releases, SkipShutdown, Drained,
       CloseHub, Move
  <2>5. \A n \in Users \ {u} : ~UserStep(n)
    BY <1>1, <2>2 DEF UserStep, InitUser, SubscribeModule, DestroyUser, Unsubscribe, Releases, Move
  <2>6. ~Shared(u)
    BY <1>1, <2>1 DEF Engaged, Shared, Runs, Fails, Stays, IsDown, Move, Forgotten
  <2>7. UserStep(u)
    BY <2>3, <2>4, <2>5, <2>6 DEF Next, All
  <2>8. InitUser(u)
    BY <1>1, <2>1, <2>7 DEF Engaged, UserStep, Move, SubscribeModule, DestroyUser, Unsubscribe, Releases
  <2> QED BY <1>1, <2>8 DEF h, InitUser, Move
<1>3. CASE Engaged(u)
  <2>1. mod[h] = "Running" /\ pc[h] = "idle"
    BY <1>1, <1>3 DEF StateAt, Agrees, PointsOf, Points
  <2>2. ~DestroyHub(h)
    BY <1>3, <1>1 DEF DestroyHub, Dependents, Engaged, h
  <2>3. ASSUME NEW n \in All, Shared(n) PROVE mod'[h] = "Running"
    BY <1>1, <2>1, <2>3 DEF Shared, Runs, Fails, Stays, IsDown, Move
  <2>4. ASSUME NEW n \in Hubs, HubStep(n) PROVE mod'[h] = "Running"
    BY <1>1, <2>1, <2>2, <2>4 DEF HubStep, InitHub, ProvideHub, KeepHub, DestroyHub, RevokeHub, Releases, SkipShutdown,
       Drained, CloseHub, Move, Startable
  <2>5. ASSUME NEW n \in Users, UserStep(n) PROVE mod'[h] = "Running"
    BY <1>1, <2>1, <2>5, BusAssumption DEF UserStep, InitUser, SubscribeModule, DestroyUser, Unsubscribe, Releases, Move
  <2> QED BY <2>3, <2>4, <2>5 DEF Next, All, h
<1> QED BY <1>2, <1>3

LEMMA RevokingShrinks == Next => revoking' \subseteq revoking
BY DEF Next, Shared, Runs, Fails, Stays, IsDown, HubStep, UserStep, bus, InitHub, ProvideHub, KeepHub, DestroyHub, RevokeHub,
   SkipShutdown, Drained, CloseHub, InitUser, DestroyUser, SubscribeModule, Unsubscribe

\* A user that Start is bringing up or rolling back, or that is listed for teardown, has
\* its hub module running; its subscriptions are those its cleanups will close.
THEOREM OrderlyAlways == Spec => []Orderly
<1>1. Orderly /\ [Next]_vars => Orderly'
  <2>1. CASE Next
    BY <2>1, TypeStep, PlacesStep, PairedStep, TiedStep, OutliveStep, RevokingShrinks DEF Orderly, OnlyPublishersRevoke
  <2>2. CASE UNCHANGED vars
    BY <2>2 DEF vars, Orderly, TypeOK, Places, StateAt, Agrees, PointsOf, Paired, TiedInUse, InUse, IsTied, HubsOutlive, Engaged,
       OnlyPublishersRevoke
  <2> QED BY <2>1, <2>2
<1> QED BY <1>1, InitOrderly, PTL DEF Spec

\* Every variable has its type: no start of a hub module beyond the bound, and no
\* cleanup that closes a subscription twice.
THEOREM TypeCorrect == Spec => []TypeOK
<1>1. Orderly => TypeOK
  BY DEF Orderly
<1> QED BY <1>1, OrderlyAlways, PTL

\* SubscribeModule ties the subscription to this life of the module: after any number
\* of restarts, failed starts and refused teardowns a user that runs is subscribed
\* once, and one that is down is not.
THEOREM OnceWhileRunning == Spec => []SubscribedOnce
<1>1. Orderly => SubscribedOnce
  <2> SUFFICES ASSUME Orderly, NEW u \in Users
               PROVE  /\ mod[u] = "Running" => \E h \in Hubs : /\ subs[u][h] = 1
                                                               /\ \A g \in Hubs \ {h} : subs[u][g] = 0
                      /\ mod[u] \in Startable => \A h \in Hubs : subs[u][h] = 0
    BY DEF SubscribedOnce
  <2>1. Paired /\ (InUse(u) => IsTied(u)) /\ (~InUse(u) /\ pc[u] # "rollback" => undo[u] = {}) /\ StateAt(u)
    BY DEF Orderly, TiedInUse, Places, All
  <2>2. CASE mod[u] = "Running"
    BY <2>1, <2>2 DEF InUse, IsTied, Paired, Startable
  <2>3. CASE mod[u] \in Startable
    <3>1. ~InUse(u) /\ pc[u] # "rollback"
      BY <2>1, <2>3 DEF InUse, StateAt, Agrees, PointsOf, Startable
    <3> QED BY <2>1, <2>3, <3>1 DEF Paired, Startable
  <2> QED BY <2>2, <2>3
<1> QED BY <1>1, OrderlyAlways, PTL

-----------------------------------------------------------------------------
(* The registry, with one hub module that publishes                        *)

OnePublished(p) == p \in Hubs /\ Publishing = {p} /\ \A u \in Users : Need[u] = p

\* What the registry leads to, and what users got from it.
Published(p) == /\ services[Contract] \in {p, Nothing}
                /\ pc[p] \in {"finish", "teardown"} \/ mod[p] = "Running" => services[Contract] = p
                /\ \A u \in Users : undo[u] \subseteq {p}

\* Once the hub is closed, only users that refused their teardown are tied to it.
Deserted(p) == p \in closed => \A u \in Users : undo[u] = {} \/ Refused(u)

\* A user that refused its teardown stays among those until it runs its cleanups.
LEMMA RefusedStays ==
  ASSUME Orderly, Next, NEW u \in Users, undo[u] = {} \/ Refused(u), undo'[u] \in {undo[u], {}}
  PROVE  undo'[u] = {} \/ Refused(u)'
<1>1. CASE undo[u] = {}
  BY <1>1
<1>2. CASE Refused(u)
  <2>1. /\ DOMAIN pc = All /\ DOMAIN mod = All /\ DOMAIN undo = Users
        /\ u \in All /\ u \notin Hubs /\ u \notin listed
        /\ StateAt(u) /\ pc[u] \in Points
    BY <1>2, BusAssumption DEF Orderly, TypeOK, Places, Refused, All
  <2>2. \/ pc[u] = "idle" /\ mod[u] = "Running"
        \/ pc[u] = "teardown" /\ mod[u] = "Destroying"
    BY <1>2, <2>1 DEF StateAt, Agrees, Points, Refused, Startable
  <2>3. ASSUME NEW n \in All, Shared(n) PROVE Refused(u)'
    <3>1. CASE n = u
      BY <2>1, <2>2, <2>3, <3>1 DEF Shared, Runs, Fails, Stays, IsDown, Move, Forgotten, Refused
    <3>2. CASE n # u
      BY <2>1, <2>2, <2>3, <3>2, <1>2 DEF Shared, Runs, Fails, Stays, IsDown, Move, Recorded, Forgotten, Refused
    <3> QED BY <3>1, <3>2
  <2>4. ASSUME NEW h \in Hubs, HubStep(h) PROVE Refused(u)'
    BY <1>2, <2>1, <2>4 DEF HubStep, InitHub, ProvideHub, KeepHub, DestroyHub, RevokeHub, Releases, SkipShutdown, Drained,
       CloseHub, Move, Refused
  <2>5. ASSUME NEW v \in Users \ {u}, UserStep(v) PROVE Refused(u)'
    BY <1>2, <2>1, <2>5 DEF UserStep, InitUser, SubscribeModule, DestroyUser, Unsubscribe, Releases, Move, Refused
  <2>6. CASE DestroyUser(u)
    BY <1>2, <2>1, <2>2, <2>6 DEF DestroyUser, Move, Refused
  <2>7. CASE Unsubscribe(u)
    BY <2>1, <2>7 DEF Unsubscribe, Untied
  <2>8. ~InitUser(u) /\ ~SubscribeModule(u)
    BY <2>1, <2>2 DEF InitUser, SubscribeModule, Move, Startable
  <2> QED BY <2>3, <2>4, <2>5, <2>6, <2>7, <2>8 DEF Next, UserStep, All
<1> QED BY <1>1, <1>2

LEMMA PublishedStep ==
  ASSUME NEW p, OnePublished(p)
  PROVE  Orderly /\ Published(p) /\ [Next]_vars => Published(p)'
<1> SUFFICES ASSUME Orderly, Published(p), [Next]_vars PROVE Published(p)'
  OBVIOUS
<1>1. /\ TypeOK /\ DOMAIN pc = All /\ DOMAIN mod = All /\ DOMAIN undo = Users /\ DOMAIN services = {Contract}
      /\ p \in Hubs /\ p \in All /\ p \notin Users /\ Publishing = {p} /\ p # Nothing
      /\ StateAt(p) /\ pc[p] \in Points
      /\ \A u \in Users : u \in All
  BY BusAssumption DEF Orderly, TypeOK, Places, OnePublished, All
<1>2. CASE UNCHANGED vars
  BY <1>2 DEF vars, Published
<1>3. CASE Next
  <2>1. ASSUME NEW n \in All, Shared(n) PROVE Published(p)'
    <3>1. UNCHANGED bus
      BY <2>1 DEF Shared, Runs, Fails, Stays, IsDown
    <3>2. pc'[p] \in {"finish", "teardown"} \/ mod'[p] = "Running" => pc[p] \in {"finish", "teardown"} \/ mod[p] = "Running"
      BY <1>1, <2>1 DEF Shared, Runs, Fails, Stays, IsDown, Move
    <3> QED BY <3>1, <3>2 DEF bus, Published
  <2>2. ASSUME NEW h \in Hubs, InitHub(h) \/ DestroyHub(h) \/ SkipShutdown(h) \/ Drained(h) PROVE Published(p)'
    <3>1. UNCHANGED <<services, undo, closed>>
      BY <2>2 DEF InitHub, DestroyHub, SkipShutdown, Drained, bus
    <3>2. pc'[p] \in {"finish", "teardown"} \/ mod'[p] = "Running" => pc[p] \in {"finish", "teardown"} \/ mod[p] = "Running"
      BY <1>1, <2>2 DEF InitHub, DestroyHub, SkipShutdown, Drained, Move, bus
    <3> QED BY <3>1, <3>2 DEF Published
  <2>3. ASSUME NEW h \in Hubs, ProvideHub(h) PROVE Published(p)'
    <3>1. h = p
      BY <1>1, <2>3 DEF ProvideHub
    <3> QED BY <1>1, <2>3, <3>1 DEF ProvideHub, Provided, Provide, Published
  <2>4. ASSUME NEW h \in Hubs, KeepHub(h) PROVE Published(p)'
    BY <1>1, <2>4 DEF KeepHub, bus, Move, Published
  <2>5. ASSUME NEW h \in Hubs, RevokeHub(h) PROVE Published(p)'
    <3>1. UNCHANGED <<undo, closed>>
      BY <2>5 DEF RevokeHub
    <3>2. CASE h = p
      <4>1. pc'[p] \notin {"finish", "teardown"} /\ mod'[p] # "Running"
        BY <1>1, <2>5, <3>2 DEF RevokeHub, Releases, Move
      <4>2. services'[Contract] \in {p, Nothing}
        BY <1>1, <2>5, <3>2 DEF RevokeHub, Revoked, Revoke, Published
      <4> QED BY <3>1, <4>1, <4>2 DEF Published
    <3>3. CASE h # p
      <4>1. h \notin revoking /\ services' = services
        BY <1>1, <2>5, <3>3 DEF RevokeHub, Revoked, Orderly, OnlyPublishersRevoke
      <4>2. UNCHANGED <<pc[p], mod[p]>>
        BY <1>1, <2>5, <3>3 DEF RevokeHub, Releases, Move
      <4> QED BY <3>1, <4>1, <4>2 DEF Published
    <3> QED BY <3>2, <3>3
  <2>6. ASSUME NEW h \in Hubs, CloseHub(h) PROVE Published(p)'
    <3>1. /\ UNCHANGED <<services, undo>>
          /\ pc'[p] \in {"finish", "teardown"} \/ mod'[p] = "Running" => pc[p] \in {"finish", "teardown"} \/ mod[p] = "Running"
      BY <1>1, <2>6 DEF CloseHub, Move
    <3> QED BY <3>1 DEF Published
  <2>7. ASSUME NEW u \in Users, UserStep(u) PROVE Published(p)'
    <3>1. UNCHANGED <<services, closed, pc[p], mod[p]>>
      BY <1>1, <2>7 DEF UserStep, bus, InitUser, SubscribeModule, DestroyUser, Unsubscribe, Releases, Move
    <3>2. CASE SubscribeModule(u)
      <4>1. PICK h \in Hubs \ closed : services[Contract] = h /\ undo' = [undo EXCEPT ![u] = undo[u] \cup {h}]
        BY <3>2 DEF SubscribeModule, Tied
      <4>2. h = p
        BY <1>1, <4>1, BusAssumption DEF Published
      <4> QED BY <1>1, <3>1, <4>1, <4>2 DEF Published
    <3>3. CASE Unsubscribe(u)
      BY <1>1, <3>1, <3>3 DEF Unsubscribe, Untied, Published
    <3>4. CASE InitUser(u) \/ DestroyUser(u)
      BY <3>1, <3>4 DEF InitUser, DestroyUser, bus, Published
    <3> QED BY <2>7, <3>2, <3>3, <3>4 DEF UserStep
  <2> QED BY <1>3, <2>1, <2>2, <2>3, <2>4, <2>5, <2>6, <2>7 DEF Next, HubStep, All
<1> QED BY <1>2, <1>3

\* The hub is closed when no user is engaged with it, and nobody subscribes to it after.
LEMMA DesertedStep ==
  ASSUME NEW p, OnePublished(p)
  PROVE  Orderly /\ Published(p) /\ Deserted(p) /\ [Next]_vars => Deserted(p)'
<1>1. CASE UNCHANGED vars
  BY <1>1 DEF vars, Deserted, Refused
<1>2. ASSUME Orderly, Published(p), Deserted(p), Next, p \in closed', NEW u \in Users
      PROVE  undo'[u] = {} \/ Refused(u)'
  <2>1. /\ DOMAIN pc = All /\ DOMAIN mod = All /\ DOMAIN undo = Users
        /\ p \in Hubs /\ p \in All /\ u \in All /\ StateAt(p)
    BY <1>2, BusAssumption DEF Orderly, TypeOK, Places, OnePublished, All
  <2>2. CASE p \in closed
    <3>1. \A v \in Users : ~SubscribeModule(v)
      BY <1>2, <2>2, BusAssumption DEF SubscribeModule, Published
    <3>2. undo'[u] \in {undo[u], {}}
      <4>1. UNCHANGED undo \/ \E v \in Users : Unsubscribe(v)
        BY <1>2, <3>1, SubscriptionsStep DEF Orderly
      <4> QED BY <2>1, <4>1 DEF Unsubscribe, Untied
    <3> QED BY <1>2, <2>2, <3>2, RefusedStays DEF Deserted
  <2>3. CASE p \notin closed
    <3>1. CloseHub(p)
      BY <1>2, <2>3 DEF Next, Shared, Runs, Fails, Stays, IsDown, HubStep, UserStep, bus, InitHub, ProvideHub, KeepHub,
         DestroyHub, RevokeHub, SkipShutdown, Drained, CloseHub, InitUser, DestroyUser, SubscribeModule, Unsubscribe
    <3>2. mod[Need[u]] # "Running"
      BY <2>1, <3>1 DEF CloseHub, Move, StateAt, Agrees, OnePublished
    <3>3. ~Engaged(u)
      BY <1>2, <3>2 DEF Orderly, HubsOutlive
    <3>4. undo[u] = {} \/ Refused(u)
      BY <1>2, <3>3 DEF Orderly, TiedInUse, InUse, Engaged, Refused
    <3>5. undo' = undo
      BY <3>1 DEF CloseHub
    <3> QED BY <1>2, <3>4, <3>5, RefusedStays
  <2> QED BY <2>2, <2>3
<1> QED BY <1>1, <1>2 DEF Deserted

LEMMA PublishedAlways ==
  ASSUME NEW p, OnePublished(p)
  PROVE  Spec => [](Orderly /\ Published(p) /\ Deserted(p))
<1>1. Init => Published(p) /\ Deserted(p)
  BY BusAssumption DEF Init, Published, Deserted, Empty, Startable, OnePublished
<1> QED BY <1>1, PublishedStep, DesertedStep, OrderlyAlways, PTL DEF Spec

\* A hub is closed when its subscribers have left it, or have refused to: of those that
\* are subscribed to a closed hub, in this life of it or an earlier one, every one
\* refused its last teardown and was forgotten by Stop, as OpenWhileUsed says.
THEOREM ClosedWhenUnused ==
  ASSUME NEW p, OnePublished(p)
  PROVE  Spec => []OpenWhileUsed
<1>1. Orderly /\ Published(p) /\ Deserted(p) => OpenWhileUsed
  BY DEF Orderly, TypeOK, Paired, Published, Deserted, OpenWhileUsed
<1> QED BY <1>1, PublishedAlways, PTL

\* Require in the start hook of a user: the hub module has provided its hub, and
\* nobody has revoked it, whatever life each of them is in.
THEOREM FindsItsHub ==
  ASSUME NEW p, OnePublished(p)
  PROVE  Spec => []RequireFinds
<1>1. Orderly /\ Published(p) => RequireFinds
  BY DEF Orderly, HubsOutlive, Engaged, OnePublished, Published, RequireFinds
<1> QED BY <1>1, PublishedAlways, PTL

-----------------------------------------------------------------------------
(* The registry, with hub modules that are started once                    *)

\* What the cleanup of the constructor owes, in the only life of a hub module.
FirstLife == \A h \in Hubs :
  /\ lives[h] = 0 => pc[h] = "idle" /\ mod[h] \in Startable
  /\ h \in Publishing \ revoking => /\ lives[h] = 1
                                    /\ pc[h] \notin {"provide", "finish", "rollback", "teardown"}
                                    /\ mod[h] # "Running"
  /\ services[Contract] = h => /\ h \in revoking
                               /\ pc[h] \in {"finish", "rollback", "teardown"} \/ mod[h] = "Running"
  /\ h \in closed => lives[h] = 1 /\ pc[h] = "idle" /\ mod[h] \in Startable

\* A step of another module leaves what FirstLife says of h alone.
LEMMA OthersLeaveAlone ==
  ASSUME Orderly, Next, NEW h \in Hubs, ~Shared(h), ~HubStep(h)
  PROVE  /\ UNCHANGED <<pc[h], mod[h], lives[h]>>
         /\ services'[Contract] = h => services[Contract] = h
         /\ h \in revoking' <=> h \in revoking
         /\ h \in closed' <=> h \in closed
<1>1. /\ DOMAIN pc = All /\ DOMAIN mod = All /\ DOMAIN lives = Hubs /\ DOMAIN services = {Contract}
      /\ h \in All /\ h \notin Users /\ h # Nothing
  BY BusAssumption DEF Orderly, TypeOK, Places, All
<1>2. CASE \E n \in All : Shared(n)
  BY <1>1, <1>2 DEF Shared, Runs, Fails, Stays, IsDown, bus, Move
<1>3. CASE \E n \in Hubs : HubStep(n)
  <2>1. PICK n \in Hubs \ {h} : HubStep(n)
    BY <1>3
  <2>2. CASE InitHub(n) \/ KeepHub(n) \/ DestroyHub(n) \/ SkipShutdown(n) \/ Drained(n) \/ CloseHub(n)
    BY <1>1, <2>2 DEF InitHub, KeepHub, DestroyHub, SkipShutdown, Drained, CloseHub, bus, Move
  <2>3. CASE ProvideHub(n)
    BY <1>1, <2>3 DEF ProvideHub, Provided, Provide, Move
  <2>4. CASE RevokeHub(n)
    BY <1>1, <2>4 DEF RevokeHub, Revoked, Revoke, Releases, Move
  <2> QED BY <2>1, <2>2, <2>3, <2>4 DEF HubStep
<1>4. CASE \E u \in Users : UserStep(u)
  BY <1>1, <1>4 DEF UserStep, bus, InitUser, SubscribeModule, DestroyUser, Unsubscribe, Releases, Move
<1> QED BY <1>2, <1>3, <1>4 DEF Next, All

LEMMA FirstLifeStep ==
  ASSUME MaxLives = 1
  PROVE  Orderly /\ FirstLife /\ [Next]_vars => FirstLife'
<1> SUFFICES ASSUME Orderly, FirstLife, Next, NEW h \in Hubs
             PROVE  /\ lives'[h] = 0 => pc'[h] = "idle" /\ mod'[h] \in Startable
                    /\ h \in Publishing \ revoking' => /\ lives'[h] = 1
                                                       /\ pc'[h] \notin {"provide", "finish", "rollback", "teardown"}
                                                       /\ mod'[h] # "Running"
                    /\ services'[Contract] = h => /\ h \in revoking'
                                                  /\ pc'[h] \in {"finish", "rollback", "teardown"} \/ mod'[h] = "Running"
                    /\ h \in closed' => lives'[h] = 1 /\ pc'[h] = "idle" /\ mod'[h] \in Startable
  BY DEF vars, FirstLife
<1>1. /\ DOMAIN pc = All /\ DOMAIN mod = All /\ DOMAIN lives = Hubs /\ DOMAIN services = {Contract}
      /\ h \in All /\ h # Nothing /\ StateAt(h) /\ pc[h] \in Points \ {"require"} /\ lives[h] \in 0..1
      /\ services[Contract] = h => h \in Publishing
  BY BusAssumption DEF Orderly, TypeOK, Places, PointsOf, OnlyPublishersRevoke, FirstLife, All
<1>2. /\ lives[h] = 0 => pc[h] = "idle" /\ mod[h] \in Startable
      /\ h \in Publishing \ revoking => /\ lives[h] = 1
                                        /\ pc[h] \notin {"provide", "finish", "rollback", "teardown"}
                                        /\ mod[h] # "Running"
      /\ services[Contract] = h => /\ h \in revoking
                                   /\ pc[h] \in {"finish", "rollback", "teardown"} \/ mod[h] = "Running"
      /\ h \in closed => lives[h] = 1 /\ pc[h] = "idle" /\ mod[h] \in Startable
  BY DEF FirstLife
<1>3. CASE ~Shared(h) /\ ~HubStep(h)
  <2>1. /\ UNCHANGED <<pc[h], mod[h], lives[h]>>
        /\ services'[Contract] = h => services[Contract] = h
        /\ h \in revoking' <=> h \in revoking
        /\ h \in closed' <=> h \in closed
    BY <1>3, OthersLeaveAlone
  <2> QED BY <1>2, <2>1
<1>4. CASE Shared(h)
  <2>1. UNCHANGED <<services, revoking, closed, lives>>
    BY <1>4 DEF Shared, Runs, Fails, Stays, IsDown, bus
  <2>2. CASE Runs(h) \/ Stays(h)
    BY <1>1, <1>2, <2>1, <2>2 DEF Runs, Stays, Move, StateAt, Agrees, PointsOf, Startable
  <2>3. CASE Fails(h)
    BY <1>1, <1>2, <2>1, <2>3 DEF Fails, Move, StateAt, Agrees, PointsOf, Startable
  <2>4. CASE IsDown(h)
    BY <1>1, <1>2, <2>1, <2>4 DEF IsDown, Move, StateAt, Agrees, PointsOf, Startable
  <2> QED BY <1>4, <2>2, <2>3, <2>4 DEF Shared
<1>5. CASE InitHub(h)
  <2>1. lives[h] = 0 /\ lives'[h] = 1 /\ pc'[h] = "provide" /\ mod'[h] = "Initializing"
    BY <1>1, <1>5 DEF InitHub, Move
  <2>2. UNCHANGED <<services, revoking, closed>>
    BY <1>5 DEF InitHub
  <2> QED BY <1>1, <1>2, <2>1, <2>2 DEF Startable
<1>6. CASE ProvideHub(h)
  BY <1>1, <1>2, <1>6 DEF ProvideHub, Provided, Provide, Move, StateAt, Agrees, PointsOf, Startable
<1>7. CASE KeepHub(h) \/ DestroyHub(h) \/ SkipShutdown(h) \/ Drained(h)
  BY <1>1, <1>2, <1>7 DEF KeepHub, DestroyHub, SkipShutdown, Drained, bus, Move, StateAt, Agrees, PointsOf, Startable
<1>8. CASE RevokeHub(h)
  BY <1>1, <1>2, <1>8 DEF RevokeHub, Revoked, Revoke, Releases, Move, StateAt, Agrees, PointsOf, Startable
<1>9. CASE CloseHub(h)
  BY <1>1, <1>2, <1>9 DEF CloseHub, Move, StateAt, Agrees, PointsOf, Startable
<1> QED BY <1>3, <1>4, <1>5, <1>6, <1>7, <1>8, <1>9 DEF HubStep

\* The registry entry is gone before the hub is drained and closed, and does not come
\* back, with any number of hub modules that publish, as long as none is started
\* again: the cleanup that revokes is registered by the constructor, once.
THEOREM RevokedInTime ==
  ASSUME MaxLives = 1
  PROVE  Spec => []RevokedBeforeShutdown
<1>1. Init => FirstLife
  BY BusAssumption DEF Init, FirstLife, Empty, Startable, All
<1>2. Orderly /\ FirstLife => RevokedBeforeShutdown
  <2> SUFFICES ASSUME Orderly, FirstLife, NEW h \in Hubs, pc[h] \in {"shutdown", "close"} \/ h \in closed,
                      services[Contract] = h
               PROVE  FALSE
    BY DEF RevokedBeforeShutdown
  <2> QED BY DEF FirstLife, Orderly, Places, StateAt, Agrees, PointsOf, Startable, All
<1> QED BY <1>1, <1>2, FirstLifeStep, OrderlyAlways, PTL DEF Spec

=============================================================================
