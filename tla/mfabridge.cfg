SPECIFICATION FairSpec
CONSTANTS
  PollGap = 1
  RetryGap = 0
  MfaTimeout = 2
  MaxQueue = 2
  MaxSent = 2
  Faults <- Tolerated
INVARIANTS TypeOK VerdictAwaited SuccessRetracted EarlyCodeUsed HeldCodeIsFresh
PROPERTIES EarlyCodeKept NoSecondReport PromptEnds VerdictArrives
