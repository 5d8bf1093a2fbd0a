CONSTANTS
  n1 = n1
  n2 = n2
  Addresses = {n1, n2}
  Groups <- TwoGroups
  Members <- Overlap
  MinIdle <- KeepOne
  WakeTimeouts <- Timeouts
  WindowTimeout = 0
  WindowSize = 1
  InitStates = {"Alive"}
  MaxInbox = 1
  MaxOrders = 2
  MaxPool = 1
  MaxEvents = 1
SPECIFICATION HulotFairSpec
INVARIANTS
  RegisterIsSound
PROPERTIES
  CommandsGoOn
CHECK_DEADLOCK FALSE
