\* Two hubs, one of them published, that live once; users that come and go.
SPECIFICATION Spec
CONSTANTS
  Nothing = Nothing
  Hubs = {"main", "metrics"}
  Users = {"u1", "u2"}
  Need <- NeedMain
  Publishing = {"main"}
  MaxLives = 1
CHECK_DEADLOCK FALSE
INVARIANTS
  TypeOK
  SubscribedOnce
  OpenWhileUsed
  RequireFinds
  RevokedBeforeShutdown
