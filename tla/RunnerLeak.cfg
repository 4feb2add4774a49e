\* A gen_args_pre hook that stops the run.
CONSTANTS
  Arity = 2
  Vals = {0, 1}
  Null = Null
  DeadEnd = DeadEnd
  NoMore = NoMore
  ShrinkError = ShrinkError
  AllocSkip = AllocSkip
  AllocError = AllocError
  AutoArgs = {1, 2}
  Basic = {}
  MaxTactics = 2
  HasBloom = TRUE
  FalsePositives = FALSE
  Others = {"PASS"}
  Tactics = "fickle"
  Trials = 2
  Seeds = {"r"}
  RunSeed = "r"
  MemFails = FALSE
  Candidates <- MCCandidates
  Allocs <- MCAllocs
  HookSays <- GenHook
  AlwaysSeeds <- NoAlways
SPECIFICATION Spec
INVARIANTS
  NothingLeaks
