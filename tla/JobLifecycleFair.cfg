CONSTANTS
  j1 = j1
  j2 = j2
  Jobs = {j1}
  Passive = {j1}
  Noop = {}
  Idempotent = {}
  ExitClasses <- OneClass
  Requests <- KillRequests
  MaxRequests = 1
  MaxPending = 1
  MaxCrashes = 0
SPECIFICATION FairSpec
PROPERTIES
  KilledJobEnds
  ToldEndIsRecorded
  ToLaunchIsTreated
CHECK_DEADLOCK FALSE
