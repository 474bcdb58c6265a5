SPECIFICATION RSpec
CONSTANTS
  phone = phone
  pc = pc
  song = song
  none = none
  nothing = nothing
  Devices <- OnlyPhone
  Phone <- phone
  Items <- OneSong
  Nothing <- nothing
  None <- none
  Postable <- AgentStarts
  Reports <- NoReports
  RedeliverAfter = 1
  StaleAfter = 1
  PollTimeout = 0
  Capacity = 3
  MaxSeq = 2
  MaxThreads = 0
  Restarts = TRUE
  Memory <- Remember2
  MaxInbox = 2
  Losses = TRUE
  Kills = TRUE
  Brisk <- Nobody
INVARIANTS AckIsTruthful RunsOnce
CHECK_DEADLOCK FALSE
