SPECIFICATION Spec
CONSTANTS
  a1 = a1
  a2 = a2
  b1 = b1
  b2 = b2
  song = song
  NoTrack = NoTrack
  Tracks <- FourTracks
  Lanes <- TwoLanes
  TracksOf <- TwoAndOne
  Song <- song
  Others <- JustB
  Cues <- OneCue
  Ahead = 2
  RefillAt = 2
  Window = 1
  Chunk = 1
  MaxQueue = 5
  MaxEvents = 2
SYMMETRY WithinLane
INVARIANTS TypeOK NoTwice PauseTakesHold NeverTooDeep
CHECK_DEADLOCK FALSE
