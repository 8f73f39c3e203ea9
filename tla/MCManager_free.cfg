\* Two goroutines, each free to Start and Stop at any time.
SPECIFICATION Spec
CONSTANTS
  Drivers = {d1, d2}
  Starters = {d1, d2}
  Stoppers = {d1, d2}
  NoDriver = NoDriver
  Modules = {"db", "api"}
  Declared <- Nothing
  Initial <- Chain
  FailingStart = {"api"}
  FailingStop = {}
  Watching = {}
  Interruptible = {}
SYMMETRY DriverSymmetry
CHECK_DEADLOCK FALSE
INVARIANTS
  AnnouncedFirst
PROPERTIES
  KeepsContracts
