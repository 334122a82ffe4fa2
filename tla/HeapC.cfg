SPECIFICATION FairSpec
CONSTANTS
  WORD = 4096
  SIZE_T = 65536
  RegionSize = 112
  Sizes = {0, 8, 20, 32}
  StaleRealloc = FALSE
INVARIANTS TypeOK Tiling MagicExact ListExact Coalesced WalkSound StatsExact FreeIsPoisoned
PROPERTIES LiveUntouched CallReturns ReallocReturnsLive ImplementsAllocator
