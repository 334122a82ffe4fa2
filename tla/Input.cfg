SPECIFICATION FairSpec
CONSTANTS
  MaxKeys = 2
  MaxMoves = 1
  RingSize = 4
  Scancodes <- Keys
  Devices = {"pad", "absent"}
INVARIANTS StatusStillTrue
PROPERTIES BringUpEnds KeyServed
