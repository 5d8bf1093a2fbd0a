CONSTANTS
  Submitters = {"s1", "s2"}
  Requests <- AllRequests
  EventTypes = {"PROLOGUE_ERROR"}
  Meddling = TRUE
  MaxJobs = 3
SPECIFICATION FairSpec
INVARIANTS
  RowsAreComplete
PROPERTIES
  StartsAfterWhatItAwaits
  SubmittedIsTreated
CHECK_DEADLOCK FALSE
