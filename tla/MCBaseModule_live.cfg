\* One caller, under the fairness of FairSpec; hooks of extreme priorities, one
\* without Run and without a name.
SPECIFICATION FairSpec
CONSTANTS
  Callers = {c1}
  NoCaller = NoCaller
  Hooks = {"first", "last", "nameless"}
  Priority <- FarPriority
  NameOf <- OwnName
  Anonymous = "anonymous"
  Runnable = {"first", "last"}
  MaxHooks <- MostBeforeStart
  MaxCleanups = 1
CHECK_DEADLOCK FALSE
INVARIANTS
  PriorityOrder
PROPERTIES
  CallsReturn
  Settles
