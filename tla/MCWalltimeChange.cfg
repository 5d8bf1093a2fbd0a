CONSTANTS
  first = first
  batch = batch
  reserved = reserved
  outer = outer
  inner = inner
  Jobs = {first, batch, reserved, outer, inner}
  Sharing <- Pairs
  Reservations = {reserved, outer}
  Besteffort = {}
  InnerOf <- InOuter
  Sites <- AllSites
  SuspendedFor <- InnerSuspended
  Security = 1
  MaxIncrease = 3
  MinForChange = 1
  ApplyTime = 1
  Increment = 2
  MayForce = TRUE
  MayDelay = TRUE
  EnabledThere = "YES"
  EnabledHere = "yes"
  Amounts <- SomeAmounts
  Askers = {"user"}
  Horizon = 6
  MaxRequests = 2
  MaxCrashes = 1
SPECIFICATION Spec
INVARIANTS
  GrantsAreBounded
PROPERTIES
  LaterJobsAreKept
  InnerEndsWithin
CHECK_DEADLOCK FALSE
