\* Every property on eight tuples, every answer of every hook; the third
\* argument cannot be shrunk.
CONSTANTS
  Arity = 3
  Vals = {0, 1}
  Null = Null
  DeadEnd = DeadEnd
  NoMore = NoMore
  ShrinkError = ShrinkError
  AutoArgs = {1}
  Basic = {2}
  MaxTactics = 2
  HasBloom = TRUE
  MemFails = TRUE
  FalsePositives = FALSE
  Others = {"PASS", "SKIP", "ERROR"}
  Candidates <- MCCandidates
  HookSays <- AllHooks
SPECIFICATION ShrinkSpec
INVARIANTS
  ShrinkTypeOK
  MemorySafe
  HeapIsArgs
  PoolIsOfInstance
  CounterexampleFails
  LocalMinimum
