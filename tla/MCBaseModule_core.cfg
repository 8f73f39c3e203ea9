\* Two callers against one module; one hook at most in every phase.
SPECIFICATION Spec
CONSTANTS
  Callers = {c1, c2}
  NoCaller = NoCaller
  Hooks = {"h"}
  Priority <- ZeroPriority
  NameOf <- OwnName
  Anonymous = "anonymous"
  Runnable = {"h"}
  MaxHooks <- OneEach
  MaxCleanups = 2
SYMMETRY CallerSymmetry
CHECK_DEADLOCK FALSE
INVARIANTS
  TypeOK
  ExclusiveUserCode
  CleanupConservation
  NothingOwedWhenDown
PROPERTIES
  InitAtomic
  RetryKeepsCleanups
  ImplementsLifecycle
