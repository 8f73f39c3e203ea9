--------------------------------- MODULE MCBus ---------------------------------
(* Instances of Bus for TLC. *)
EXTENDS Bus

\* Every user depends on the hub that is published.
NeedMain == [u \in Users |-> "main"]
=============================================================================
