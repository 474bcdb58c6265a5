SPECIFICATION Spec
CONSTANTS
  phone = phone
  pc = pc
  song = song
  none = none
  nothing = nothing
  Devices <- OnlyPhone
  Phone <- phone
  Items <- OneSong
  Nothing <- nothing
  None <- none
  Postable <- AgentStarts
  Reports <- Playing
  RedeliverAfter = 1
  StaleAfter = 1
  PollTimeout = 0
  Capacity = 2
  MaxSeq = 3
  MaxThreads = 1
  Restarts = TRUE
INVARIANTS TypeOK AtMostOneStartSlips
PROPERTIES OnlyAPendingClaimRevives IsAMailbox
CHECK_DEADLOCK FALSE
