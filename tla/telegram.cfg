SPECIFICATION Spec
CONSTANTS
  Codes <- MCCodes
  Instances <- Two
  Name <- Names
  Chat <- SameChat
  Senders <- Trusted
  Messages <- Sent
  Interval = 2
  UrgentInterval = 1
  Backoff = 1
  MaxUpdates = 2
  MaxTaken = 1
  Events <- Exposed
INVARIANTS TypeOK Delivered OneTaker HelpUnderstood CommandLatency UrgentLatency
PROPERTY FeedKept
