CONSTANTS
  n1 = n1
  j1 = j1
  Nodes = {n1}
  Jobs = {j1}
  Besteffort = {}
  AdminStates = {"Absent"}
  CheckOccupied = TRUE
  DeadSwitch = TRUE
  MaxActs = 1
  SchedulerTimeout = 1
  MinTime = 1
  VillainsTimeout = 1
  NodesTimeout = 1
  Notifications = {"Qdel", "ChState"}
SPECIFICATION FairSpec
INVARIANTS
  LeonBeforeScheduling
PROPERTIES
  MetaschedRunsUnlessStuck
  RequestsAreTreated
  QdelIsServed
  PulledOutJobsEnd
