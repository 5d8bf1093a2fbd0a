CONSTANTS
  Resources = {1, 2, 3, 4}
  Levels <- MCLevels
  MaxTime = 27
  Week = 6
  Period = 18
  Hour = 5
  Now = 6
  Window = 18
  Security = 1
  JobTypes = {"besteffort"}
  Scenarios <- MCScenarios
SPECIFICATION Spec
INVARIANTS
  PlacesAreSound
  QuotasAreKept
PROPERTIES
  NobodyWaitsForNothing
CHECK_DEADLOCK FALSE
