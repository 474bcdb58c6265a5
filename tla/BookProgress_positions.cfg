SPECIFICATION Spec
CONSTANTS
  MaxTime = 5
  MaxCalls = 2
INVARIANTS TypeOK SyncedWasStored ResumeTakesNewer
PROPERTY PcKeepsNewer
CHECK_DEADLOCK FALSE
