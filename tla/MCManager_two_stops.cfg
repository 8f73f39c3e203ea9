\* One goroutine starts and stops, another one stops.
SPECIFICATION Spec
CONSTANTS
  Drivers = {d1, d2}
  Starters = {d1}
  Stoppers = {d1, d2}
  NoDriver = NoDriver
  Modules = {"db", "api"}
  Declared <- Nothing
  Initial <- Chain
  FailingStart = {}
  FailingStop = {}
  Watching = {}
  Interruptible = {}
CHECK_DEADLOCK FALSE
INVARIANTS
  TeardownsAreOrdered
