SPECIFICATION Spec
CONSTANTS
  WORD = 4096
  Base = 1024
  RegionSize = 128
  Sizes = {8, 20, 32}
INVARIANTS TypeOK GrantsDisjoint DoubleFreeCaught
CHECK_DEADLOCK FALSE
