SPECIFICATION RSpec
CONSTANTS
  phone = phone
  pc = pc
  song = song
  none = none
  nothing = nothing
  Devices <- PhoneAndPc
  Phone <- phone
  Items <- OneSong
  Nothing <- nothing
  None <- none
  Postable <- NoPosts
  Reports <- NoReports
  RedeliverAfter = 1
  StaleAfter = 2
  PollTimeout = 0
  Capacity = 2
  MaxSeq = 4
  MaxThreads = 1
  Restarts = TRUE
  Memory <- Remember1
  MaxInbox = 1
  Losses = TRUE
  Kills = FALSE
  Brisk <- PhoneAndPc
INVARIANTS NoDuet
CONSTRAINT NotCrossed
CHECK_DEADLOCK FALSE
