------------------------------- MODULE MCPlanner -------------------------------
(* Instances of Planner for TLC. *)
EXTENDS Planner, SequencesExt

\* Every graph of three modules with lists of at most two names, one of which
\* nobody registers: repeats, self-dependencies, unknown names, cycles.
Lists(S) == UNION {[1..k -> S] : k \in 0..2}
WildGraphs == [{"a", "b", "c"} -> Lists({"a", "b", "c", "ghost"})]

\* Every graph of four modules without repeats, self-dependencies and unknown names.
Four == {"a", "b", "c", "d"}
PlainGraphs == {g \in [Four -> {SetToSeq(S) : S \in SUBSET Four}] :
                  \A n \in Four : n \notin Range(g[n])}

NoGraph == {<<>>}
AllGraphs == WildGraphs \cup PlainGraphs \cup NoGraph
=============================================================================
