-------------------------------- MODULE MCAppRun --------------------------------
(* Instances of AppRun for TLC. *)
EXTENDS AppRun, TLC

db == "db"
api == "api"
web == "web"

Fork == db :> <<>> @@ api :> <<db>> @@ web :> <<db>>

Nothing == [n \in Modules |-> {}]
=============================================================================
