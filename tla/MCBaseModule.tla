----------------------------- MODULE MCBaseModule -----------------------------
(* Instances of BaseModule for TLC: values for its function-valued constants *)
(* and the symmetry of its callers.                                          *)
EXTENDS BaseModule, TLC

\* The two most distant 8-bit priorities; any other hook is in between.
FarPriority == [h \in Hooks |-> CASE h = "first" -> -128 [] h = "last" -> 127 [] OTHER -> 0]
ZeroPriority == [h \in Hooks |-> 0]

\* Bounds on the hooks of a phase.
OneEach == [p \in Phases |-> 1]
MostBeforeStart == [p \in Phases |-> IF p = "BeforeStart" THEN 2 ELSE IF p = "AfterDestroy" THEN 0 ELSE 1]

\* Hooks are named after themselves, but for the anonymous one.
OwnName == [h \in Hooks |-> IF h = "nameless" THEN Anonymous ELSE h]
CallerSymmetry == Permutations(Callers)
=============================================================================
