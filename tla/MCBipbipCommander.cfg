CONSTANTS
  Jobs <- MCJobs
  Commands <- MCCommands
  JobOf <- MCJobOf
  MaxProcs = 1
SPECIFICATION FairSpec
INVARIANTS
  OneProcessPerJob
  NoWorkWhileBlocked
PROPERTIES
  SentIsExecuted
  ImplementsJobCommands
CHECK_DEADLOCK FALSE
