CONSTANTS
  booked1 = booked1
  booked2 = booked2
  container1 = container1
  j1 = j1
  j2 = j2
  j3 = j3
  Jobs = {j1, j2, j3}
  Resources = {1, 2}
  MaxTime = 8
  Security = 1
  Now = 2
  Requests <- SomeRequests
  Schedules <- SoundLoads
SPECIFICATION Spec
INVARIANTS
  SlotsAreSound
  NoDoubleBooking
  InnerWithinContainer
PROPERTIES
  ImplementsTimetable
SYMMETRY JobsAreAlike
CHECK_DEADLOCK FALSE
