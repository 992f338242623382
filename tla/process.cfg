\* One host, three days, two processes on it, a clock set back, a hanging request.
SPECIFICATION FairSpec
CONSTANTS
  Instances = {i1}
  Requests = {r1}
  DayLength = 4
  RunAt = 2
  MaxLag = 1
  DrainTicks = 2
  MaxDays = 3
  MaxStarts = 2
  MaxSetBacks = 1
INVARIANTS
  NoDayLeftOut
  SettledOncePerInstance
  DrainedBeforeClosing
PROPERTY
  ShutdownCompletes
