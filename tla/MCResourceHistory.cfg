SPECIFICATION Spec
CONSTANTS
  r1 = r1
  r2 = r2
  r3 = r3
  j1 = j1
  n1 = n1
  n2 = n2
  Resources = {r1, r2, r3}
  HostOf <- MCHostOf
  Installed <- MCInstalled
  Jobs = {j1}
  Uses <- MCUses
  Cosystem = {}
  Uptos <- MCUptos
  Timeout = 1
  Admins = {a1, a2}
  a1 = a1
  a2 = a2
  MaxClock = 3
  MaxActs = 3
INVARIANTS
  HistoryIsKept
  CommandsHold
PROPERTIES
  StepsAreFounded
CONSTRAINT FewActs
SYMMETRY MCSymmetry
