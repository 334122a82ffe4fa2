SPECIFICATION Spec
CONSTANTS
  RAMFS_MAX_FILES = 2
  Names = {"a", "b", "c", "long"}
  LongNames = {"long"}
  Chars = {"p", "q"}
  Contents <- MCContents
  Rooms = {0, 1, 2}
  MemSize = 5
INVARIANT BlocksOwned
PROPERTY ImplementsFileStore
