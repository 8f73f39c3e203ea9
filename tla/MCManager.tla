------------------------------- MODULE MCManager -------------------------------
(* Instances of Manager for TLC: small graphs.                             *)
EXTENDS Manager, TLC

db == "db"
api == "api"
web == "web"
job == "job"

Chain == db :> <<>> @@ api :> <<db>>
Fork == db :> <<>> @@ api :> <<db>> @@ web :> <<db>>

Nothing == [n \in Modules |-> {}]

\* job may be registered late: sanely, into a cycle, or on top of a module nobody registers.
LateJob == [n \in Modules |-> IF n = job THEN {<<api>>, <<job>>, <<"ghost">>} ELSE {}]

DriverSymmetry == Permutations(Drivers)
=============================================================================
