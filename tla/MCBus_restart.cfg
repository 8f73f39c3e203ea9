\* A hub module that is started a second time.
SPECIFICATION Spec
CONSTANTS
  Nothing = Nothing
  Hubs = {"main"}
  Users = {"u1"}
  Need <- NeedMain
  Publishing = {"main"}
  MaxLives = 2
CHECK_DEADLOCK FALSE
INVARIANTS
  RevokedBeforeShutdown
