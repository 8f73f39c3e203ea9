------------------------------ MODULE Dependencies ------------------------------
(***************************************************************************)
(* The dependency graph of a Manager and what it means to lay it out.      *)
(*                                                                         *)
(* A graph is a function deps from the registered names to the list of     *)
(* names each was registered with; a list may repeat a name or name a      *)
(* module nobody registered.                                               *)
(*                                                                         *)
(* The layers of Manager.plan are given by the level of every module: the  *)
(* first layer is level 1, and a module sits right above the highest of    *)
(* the modules it needs.  Planner shows that the loop of plan computes     *)
(* exactly this, and reports a cycle exactly when there is no such level.  *)
(***************************************************************************)
EXTENDS Integers, Sequences, FiniteSets, Functions

Needs(deps, n) == Range(deps[n])

\* validateDeps
AllKnown(deps) == \A n \in DOMAIN deps : Needs(deps, n) \subseteq DOMAIN deps

Levels(deps) == [DOMAIN deps -> 1..Cardinality(DOMAIN deps)]

IsLevelling(deps, level) ==
  \A n \in DOMAIN deps :
    /\ \A d \in Needs(deps, n) : level[d] < level[n]
    /\ level[n] = 1 \/ \E d \in Needs(deps, n) : level[n] = level[d] + 1

Plannable(deps) == /\ AllKnown(deps)
                   /\ \E level \in Levels(deps) : IsLevelling(deps, level)

Levelling(deps) == CHOOSE level \in Levels(deps) : IsLevelling(deps, level)

\* stopLayers: the rank of every started module; teardown goes from the highest
\* rank down.  position is the place of each in the order of their start.
StopRank(deps, position) ==
  IF Plannable(deps)
  THEN [n \in DOMAIN position |-> IF n \in DOMAIN deps
                                  THEN Levelling(deps)[n]
                                  ELSE position[n] - Cardinality(DOMAIN position)]
  ELSE position
=============================================================================
