SPECIFICATION Spec
CONSTANTS
  PollGap = 1
  RetryGap = 0
  MfaTimeout = 2
  MaxQueue = 2
  MaxSent = 2
  Faults <- Blips
INVARIANT SuccessMeansAccepted
