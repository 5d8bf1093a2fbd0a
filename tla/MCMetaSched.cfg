CONSTANTS
  r1 = r1
  r2 = r2
  first = first
  second = second
  plain = plain
  extra = extra
  Resources = {r1, r2}
  First = r1
  Failing = {r1}
  Asleep = {}
  Jobs = {first, second, plain, extra}
  Queue <- TheQueue
  Width <- TheWidth
  Walltime <- TheWalltime
  ResaStart <- TheResaStart
  Early = {plain, first}
  MaxJobs = 3
  Security = 2
  WaitTimeout = 2
  KillBefore = 0
  Horizon = 5
  MaxFaults = 1
SPECIFICATION Spec
INVARIANTS
  OneJobPerResource
  GanttIsSound
  GrantedIsPlanned
PROPERTIES
  RoundAnswers
