\* One goroutine starts, stops and starts again.
SPECIFICATION Spec
CONSTANTS
  Drivers = {d}
  Starters = {d}
  Stoppers = {d}
  NoDriver = NoDriver
  Modules = {"db", "api"}
  Declared <- Nothing
  Initial <- Chain
  FailingStart = {}
  FailingStop = {}
  Watching = {}
  Interruptible = {}
CHECK_DEADLOCK FALSE
INVARIANTS
  RunningIsNotEnding
