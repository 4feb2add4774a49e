\* Check before mark: a full filter is never replaced.
CONSTANTS
  HashBits = 8
  TopBlock2 = 1
  MinFilter2 = 1
  HashCount = 2
  Hashes = {0, 2, 4, 6}
  MallocFails = FALSE
SPECIFICATION FairUseSpec
PROPERTIES
  ResizesWhenFull
