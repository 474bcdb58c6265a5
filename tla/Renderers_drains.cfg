SPECIFICATION LiveSpec
CONSTANTS
  phone = phone
  pc = pc
  song = song
  none = none
  nothing = nothing
  Devices <- OnlyPhone
  Phone <- phone
  Items <- OneSong
  Nothing <- nothing
  None <- none
  Postable <- AgentStarts
  Reports <- NoReports
  RedeliverAfter = 1
  StaleAfter = 1
  PollTimeout = 1
  Capacity = 3
  MaxSeq = 2
  MaxThreads = 0
  Restarts = TRUE
  Memory <- Remember2
  MaxInbox = 2
  Losses = TRUE
  Kills = FALSE
  Brisk <- OnlyPhone
PROPERTY Drains
CHECK_DEADLOCK FALSE
