SPECIFICATION Spec
CONSTANTS
  Number <- Numbers
  Parts <- Lists
  MinInterval = 3600
  Defaults <- StandardNumbers
  Limit = 45
  TickGap = 3
  LoopGap = 1
  Message = 3
  Request = 1
  Ending = 1
  Pause = 1
  Burst = 2
  Runs = 3
  Probe = 3
  Retries = 3
  StartPeriod = 3
  Lower <- Environment
  Upper <- CapitalEnvironment
  Files <- Volumes
  Faults <- AllFaults
INVARIANTS TypeOK BeaconFresh NeverCondemned
PROPERTY HangReported
