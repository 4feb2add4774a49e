\* Narrow and bulk requests from pools of two four-bit words.
CONSTANTS
  WordBits = 4
  ByteBits = 2
  PoolSize = 4
  PoolLimit = 100
  Gives = {"OK", "SKIP", "ERROR"}
  Garbage = {0}
  MaxFailed = 1
  MaxChanges = 1
  Retries = 1
  MaxShift = 2
  WeightWidth = 3
  SmallStep = 1
  BigStep = 2
  Callback = "either"
  Wants <- MCWants
  Bulk <- MCBulk
  Words <- MCWords
  Least <- MCLeast
  Most <- MCMost
  First <- MCFirst
SPECIFICATION Spec
INVARIANTS
  TypeOK
  InstanceIsHashed
  RequestsCover
  
  MutationsDecrease
PROPERTIES
  RewardsAreNotPenalties
