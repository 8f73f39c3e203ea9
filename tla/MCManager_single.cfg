\* One driver; starts and teardowns fail, or are interrupted; job may be
\* registered at any time.
SPECIFICATION FairSpec
CONSTANTS
  Drivers = {d}
  Starters = {d}
  Stoppers = {d}
  NoDriver = NoDriver
  Modules = {"db", "api", "web", "job"}
  Declared <- LateJob
  Initial <- Fork
  FailingStart = {"db", "api", "web", "job"}
  FailingStop = {"api", "job"}
  Watching = {"web"}
  Interruptible = {"db"}
CHECK_DEADLOCK FALSE
INVARIANTS
  TypeOK
  StartedOnce
  InjectedBeforeInit
  StartsAfterDependencies
  StopsBeforeDependencies
  StartedAreUp
  RunningAreStarted
  RunningMeansComplete
PROPERTIES
  StartsFromNothing
  StopLeavesNothing
  CallsReturn
