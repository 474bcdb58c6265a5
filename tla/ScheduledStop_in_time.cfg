SPECIFICATION Spec
CONSTANTS
  Modes <- OnlyAfterCurrent
  Requests <- AllRequests
  SongLength = 2
  TrimAckWait = 1
  PauseLead = 0
  EndGrace = 1
  VerifyWindow = 1
  FadeWait = 0
  FadeTicks = 1
  Loud = 1
  RedeliverAfter = 2
  MaxArms = 1
  MaxRequests = 1
  MaxLosses = 0
  MaxDisturbed = 1
  Taps = TRUE
INVARIANT TypeOK
PROPERTY NeverEarly
CHECK_DEADLOCK FALSE
