SPECIFICATION Spec
CONSTANTS
  MaxReauths = 1
  KillPoints <- AllKills
  MayRaise = FALSE
PROPERTY DiscardMeansFinished
