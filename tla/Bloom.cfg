\* Marks in any order, filters of 2, 4 and 8 bits, malloc may fail.
CONSTANTS
  HashBits = 8
  TopBlock2 = 1
  MinFilter2 = 1
  HashCount = 2
  Hashes = {0, 1, 2, 4, 6, 10, 28, 76}
  MallocFails = TRUE
SPECIFICATION Spec
INVARIANTS
  TypeOK
  NoFalseNegatives
  ChainGrowsByOne
  AssertionHolds
PROPERTIES
  OnlyFrontChanges
