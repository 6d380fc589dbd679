SPECIFICATION Spec
CONSTANTS
  MaxReauths = 3
  KillPoints <- ReauthKills
  MayRaise = TRUE
INVARIANTS TypeOK OldFilesSurvive TornCopyNotAlone FailureRestores SuccessStays UntouchedRecovered
PROPERTY ReauthKept
