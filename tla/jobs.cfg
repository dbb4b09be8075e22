CONSTANTS
  Procs = {a, b}
  None = None
  Interval = 2
  Offset = 1
  RunOnBoot = FALSE
  Late = 3
  MaxRestarts = 1
  MaxFaults = 1
SPECIFICATION FairSpec
INVARIANTS TypeOK SlotsRunOnce RequestKept
PROPERTIES StartsKeepSchedule JobRuns RequestServed
