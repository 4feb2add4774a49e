\* Hooks that may halt or fail at any point but gen_args_pre, tactics that go in
\* circles, a filter that may be mistaken and marks that may be lost; two
\* arguments, one autoshrunk, and one always seed.
CONSTANTS
  Arity = 2
  Vals = {0, 1}
  Null = Null
  DeadEnd = DeadEnd
  NoMore = NoMore
  ShrinkError = ShrinkError
  AllocSkip = AllocSkip
  AllocError = AllocError
  AutoArgs = {1}
  Basic = {2}
  MaxTactics = 1
  HasBloom = TRUE
  FalsePositives = TRUE
  Others = {"PASS", "SKIP", "ERROR"}
  Tactics = "wild"
  Trials = 2
  Seeds = {"a", "r"}
  RunSeed = "r"
  MemFails = TRUE
  Candidates <- MCCandidates
  Allocs <- MCAllocs
  HookSays <- BusyHooks
  AlwaysSeeds <- OneAlways
SPECIFICATION FairSpec
INVARIANTS
  TypeOK
  MemorySafe
  NothingLeaks
  ReportedFails
  EveryTrialCounted
  NoFailureLost
  AlwaysSeedsTried
PROPERTIES
  NoTupleTwice
  RunEnds
