SPECIFICATION LiveSpec
CONSTANTS
  Modes <- BothModes
  Requests <- AllRequests
  SongLength = 1
  TrimAckWait = 1
  PauseLead = 0
  EndGrace = 1
  VerifyWindow = 1
  FadeWait = 1
  FadeTicks = 1
  Loud = 1
  RedeliverAfter = 2
  MaxArms = 1
  MaxRequests = 1
  MaxLosses = 1
  MaxDisturbed = 1
  Taps = FALSE
PROPERTIES Verdict MusicStops
CHECK_DEADLOCK FALSE
