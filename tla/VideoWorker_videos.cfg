SPECIFICATION LiveSpec
CONSTANTS
  Jobs = {1}
  Workers = {w1, w2}
  Clips = 2
  MaxRetries = 1
  MaxDeaths = 1
INVARIANTS TypeOK NobodyAbandoned CancelStopsAfterClip
PROPERTY JobsEnd
CHECK_DEADLOCK FALSE
