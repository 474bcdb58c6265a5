SPECIFICATION LiveSpec
CONSTANTS
  Songs = 2
  MaxArms = 1
  MaxHeld = 2
  MaxRestarts = 1
INVARIANTS
  TypeOK
PROPERTIES
  NeverCutsTheSong
  PausesOnceEach
  NoStrayPause
  OutroPauses
CHECK_DEADLOCK FALSE
