SPECIFICATION Spec
CONSTANTS
  Day = 2
  Interval = 2
  Retry = 1
  MaxAuth = 1
  Named = 1
  NeedsLookup = TRUE
  Shared = 0
  Faults <- Disasters
  MaxTime = 2
  MaxSignIns = 2
INVARIANTS ChargedOnce PromptKept
