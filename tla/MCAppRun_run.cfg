\* r runs the application, s is the goroutine of its shutdown, x calls Start at
\* any time; api may hang in its teardown and web may fail to start.
SPECIFICATION RunFairSpec
CONSTANTS
  Drivers = {r, x, s}
  Starters = {r, x}
  Stoppers = {s}
  Runner = r
  Hook = s
  NoDriver = NoDriver
  HasTimeout = TRUE
  Hanging = {"api"}
  Checkers = {"api"}
  Modules = {"db", "api", "web"}
  Declared <- Nothing
  Initial <- Fork
  FailingStart = {"web"}
  FailingStop = {"db"}
  Watching = {}
  Interruptible = {}
CHECK_DEADLOCK FALSE
INVARIANTS
  RunTypeOK
  RunningAreStarted
  StopsBeforeDependencies
  ProbesUpOrEnding
PROPERTIES
  StartsFromNothing
  RunStopsEverything
  TimeoutNames
  ShutdownIsBounded
