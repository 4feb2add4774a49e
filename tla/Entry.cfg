\* Every seed of seven bits, every built-in type, every way to fail.
CONSTANTS
  WordBits = 8
  Period = 7
  Mantissa = 7
  SmallCeil = 4
  SmallBits = 3
  MediumCeil = 8
  MediumBits = 4
  SpecialBits = 2
  IndexBits = 3
  CharBits = 2
  ArrayCeil = 2
  MemoryCeil = 8
  Garbage = {0, 1}
  DefaultSeed = 37
  LaterSeeds = {77}
  MaxTrials = 2
  Cases = "all"
  Seeds <- MCSeeds
  Stream <- MCStream
  Types <- MCTypes
  Configs <- MCConfigs
SPECIFICATION Spec
INVARIANTS
  EntryTypeOK
  BitsAreStream
  InstanceOfSeed
  LimitsKept
  ChoiceBelowCeil
  InsideArray
  AllFreed
