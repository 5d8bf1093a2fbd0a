CONSTANTS
  j1 = j1
  j2 = j2
  Jobs = {j1, j2}
  Passive = {j1, j2}
  Noop = {j2}
  Idempotent = {j1}
  ExitClasses <- OneClass
  Requests <- AllRequests
  MaxRequests = 2
  MaxPending = 1
  MaxCrashes = 1
SPECIFICATION Spec
INVARIANTS
  IInv
  StartedOnce
  FraggedJobIsOver
PROPERTIES
  OverChangesOnlyUnderLock
  ImplementsJobPromise
CONSTRAINT OneAtATime
ACTION_CONSTRAINT FewRequests
CHECK_DEADLOCK FALSE
