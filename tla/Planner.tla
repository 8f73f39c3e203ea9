-------------------------------- MODULE Planner --------------------------------
(***************************************************************************)
(* Manager.plan (manager.go): validation of the graph, then Kahn's         *)
(* algorithm, a layer at a time.  The whole of it runs under m.mu; a step  *)
(* here is one iteration of a loop, for the sake of its invariant.         *)
(***************************************************************************)
EXTENDS Dependencies

CONSTANTS Graphs        \* the graphs that may have been registered

ASSUME GraphAssumption ==
  \A g \in Graphs : /\ IsFiniteSet(DOMAIN g)
                    /\ \A n \in DOMAIN g : g[n] \in Seq(Range(g[n]))

VARIABLES deps,       \* m.nodes
          indeg,      \* dependencies each module still waits for, repeats counted
          layers,     \* the layers so far; the last one is being processed
          current,    \* the modules of the last layer still to be processed
          next,       \* the layer being collected
          processed,  \* how many modules have been processed
          result      \* "none" while planning, then the layers or the error

vars == <<deps, indeg, layers, current, next, processed, result>>

Occurrences(g, n, d) == {i \in DOMAIN g[n] : g[n][i] = d}
Sources(g) == {n \in DOMAIN g : Len(g[n]) = 0}

Listed(n) == Cardinality(Needs(deps, n))  \* mutant: a repeated dependency is expected once

InDegree(n) == Len(deps[n])

Init == /\ deps \in Graphs
        /\ indeg = [n \in DOMAIN deps |-> InDegree(n)]
        /\ layers = <<>>
        /\ current = {}
        /\ next = Sources(deps)
        /\ processed = 0
        /\ result = "none"

RejectUnknown == /\ result = "none"
                 /\ layers = <<>>
                 /\ ~AllKnown(deps)
                 /\ result' = "ErrUnknownDependency"
                 /\ UNCHANGED <<deps, indeg, layers, current, next, processed>>

\* The head of the outer loop: the collected layer becomes the current one.
OpenLayer == /\ result = "none"
             /\ AllKnown(deps)
             /\ current = {}
             /\ next # {}
             /\ layers' = Append(layers, next)
             /\ current' = next
             /\ next' = {}
             /\ UNCHANGED <<deps, indeg, processed, result>>

CountOnce(m, n) == IF n \in Needs(deps, m) THEN 1 ELSE 0  \* mutant: a repeated dependency counts once

CountAll(m, n) == IF n \in Needs(deps, m) THEN indeg[m] ELSE 0  \* mutant: one dependency is enough

\* How often dependents lists m under n.
Count(m, n) == Cardinality(Occurrences(deps, m, n))

\* One module of the current layer: every list naming it waits for that much less.
Process(n) == /\ n \in current
              /\ current' = current \ {n}
              /\ processed' = processed + 1
              /\ indeg' = [m \in DOMAIN deps |-> indeg[m] - Count(m, n)]
              /\ next' = next \cup {m \in DOMAIN deps : indeg[m] # 0 /\ indeg'[m] = 0}
              /\ UNCHANGED <<deps, layers, result>>

AllProcessed == processed = Cardinality(DOMAIN deps)  \* mutant: waits for the modules of a cycle

NoLayerLeft == next = {}

Finish == /\ result = "none"
          /\ AllKnown(deps)
          /\ current = {}
          /\ NoLayerLeft
          /\ result' = IF processed = Cardinality(DOMAIN deps)
                       THEN "layers" ELSE "ErrDependencyCycle"
          /\ UNCHANGED <<deps, indeg, layers, current, next, processed>>

Next == RejectUnknown \/ OpenLayer \/ (\E n \in current : Process(n)) \/ Finish

Spec == Init /\ [][Next]_vars

FairSpec == Spec /\ WF_vars(Next)

-----------------------------------------------------------------------------
(* Properties                                                              *)

\* The type of every variable; a module still waits for at most what it lists.
TypeOK == /\ indeg \in [DOMAIN deps -> Nat]
          /\ layers \in Seq(SUBSET DOMAIN deps)
          /\ current \subseteq DOMAIN deps
          /\ next \subseteq DOMAIN deps
          /\ processed \in Nat
          /\ result \in {"none", "layers", "ErrUnknownDependency", "ErrDependencyCycle"}

\* The number of the layer a module was put in.
LayerOf(n) == CHOOSE i \in DOMAIN layers : n \in layers[i]

\* What plan returns, against the definition: the layers are the levels, and an
\* error is reported exactly for the graphs that have none.
PlanIsCorrect ==
  /\ result = "layers" => /\ Plannable(deps)
                          /\ [n \in DOMAIN deps |-> LayerOf(n)] = Levelling(deps)
                          /\ \A i \in DOMAIN layers : layers[i] # {}
                          /\ \A i, j \in DOMAIN layers : i # j => layers[i] \cap layers[j] = {}
  /\ result = "ErrUnknownDependency" => ~AllKnown(deps)
  /\ result = "ErrDependencyCycle" => AllKnown(deps) /\ ~Plannable(deps)

\* A module is never in a layer before, or beside, a module it depends on: the
\* modules of a layer may be started concurrently.
LayersAreIndependent ==
  \A i \in DOMAIN layers : \A n \in layers[i] : \A d \in Needs(deps, n) :
    \E j \in 1..(i - 1) : d \in layers[j]

\* plan comes to an end, also when the graph has a cycle.
Terminates == <>(result # "none")
=============================================================================
