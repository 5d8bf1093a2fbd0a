SPECIFICATION Spec
CONSTANTS
  j1 = j1
  j2 = j2
  u1 = u1
  Jobs = {j1, j2}
  Users = {u1}
  UserOf <- MCUserOf
  NbResources <- MCNbResources
  Walltime <- MCWalltime
  WindowSize = 2
  Dates = {3, 4, 5, 6}
  MaxDeletions = 2
  MaxKills = 2
INVARIANT TableIsExact
