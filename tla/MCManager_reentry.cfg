\* A Stop arrives while a Start is in progress, and a second Start follows it.
SPECIFICATION Spec
CONSTANTS
  Drivers = {d1, d2}
  Starters = {d1, d2}
  Stoppers = {d2}
  NoDriver = NoDriver
  Modules = {"db", "api"}
  Declared <- Nothing
  Initial <- Chain
  FailingStart = {}
  FailingStop = {}
  Watching = {}
  Interruptible = {}
CHECK_DEADLOCK FALSE
INVARIANTS
  StartIsExclusive
