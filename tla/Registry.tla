-------------------------------- MODULE Registry --------------------------------
(***************************************************************************)
(* Registry (registry.go): what the critical sections of Provide, Require  *)
(* and Revoke do to the map of services.                                   *)
(***************************************************************************)

CONSTANT Nothing        \* no implementation: a nil one, or no entry

\* NewRegistry
Empty(Contracts) == [t \in Contracts |-> Nothing]

\* Require finds an implementation.
Found(services, t) == services[t] # Nothing

\* Provide accepts impl: it is not nil, and nobody has provided t.
Providable(services, t, impl) == impl # Nothing /\ ~Found(services, t)

Provide(services, t, impl) == [services EXCEPT ![t] = impl]

\* Revoke removes the entry of t, whoever provided it.
Revoke(services, t) == [services EXCEPT ![t] = Nothing]
=============================================================================
