SPECIFICATION FairSpec
CONSTANTS
  Day = 3
  Interval = 2
  Retry = 1
  MaxAuth = 1
  Named = 2
  NeedsLookup = FALSE
  Shared = 0
  Faults <- NoFaults
  MaxTime = 5
  MaxSignIns = 3
INVARIANTS TypeOK RollingBudget CountedAtRest RetryFindsBudget StateAtRest
PROPERTIES UnattendedSpacing ScheduleServed StopEndsProcess
CHECK_DEADLOCK TRUE
