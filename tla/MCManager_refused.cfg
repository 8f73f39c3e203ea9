\* One goroutine starts and stops; a hook of api may fail the teardown.
SPECIFICATION Spec
CONSTANTS
  Drivers = {d}
  Starters = {d}
  Stoppers = {d}
  NoDriver = NoDriver
  Modules = {"db", "api"}
  Declared <- Nothing
  Initial <- Chain
  FailingStart = {}
  FailingStop = {"api"}
  Watching = {}
  Interruptible = {}
CHECK_DEADLOCK FALSE
INVARIANTS
  StartedIsTruthful
