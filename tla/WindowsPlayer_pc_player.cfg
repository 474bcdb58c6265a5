SPECIFICATION LiveSpec
CONSTANTS
  MaxQueue = 2
  MaxStarts = 3
  MaxTimers = 2
  MaxCommands = 3
INVARIANTS TypeOK OneEndOneAdvance PauseSilences FadeIsTheLastTimers
PROPERTIES OverlapEnds SleepComes
CHECK_DEADLOCK FALSE
