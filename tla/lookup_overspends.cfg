SPECIFICATION Spec
CONSTANTS
  Day = 3
  Interval = 2
  Retry = 1
  MaxAuth = 1
  Named = 1
  NeedsLookup = TRUE
  Shared = 1
  Faults <- NoFaults
  MaxTime = 5
  MaxSignIns = 3
INVARIANT RollingBudget
