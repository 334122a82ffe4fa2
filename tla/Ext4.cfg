SPECIFICATION Spec
CONSTANTS
  GroupCount = 2
  BlocksPerGroup = 4
  InodesPerGroup = 4
  FirstIno = 3
  RootMax = 1
  LeafCap = 2
  DirMax = 2
  DirSlots = 1
  Fixes = {"bind", "lookup"}
  MaxTrackedSeqs = 2
  Paths <- MCPaths
  Contents <- MCContents
  SizeOf <- MCSizeOf
  WriteCap = 2
  Volumes <- MCVolumes
  MaxCalls = 3
  MaxCuts = 2
CONSTRAINT Explored
INVARIANTS
  VolumeConsistent
  ReadBack
  CountsExact
  NothingLeaked
  ReplaySound
  MountRecovers
