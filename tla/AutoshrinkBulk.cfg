\* A bulk request that the end of the pool cuts short.
CONSTANTS
  WordBits = 2
  ByteBits = 2
  PoolSize = 2
  PoolLimit = 100
  Gives = {"OK", "SKIP", "ERROR"}
  Garbage = {0, 1}
  MaxFailed = 1
  MaxChanges = 1
  Retries = 1
  MaxShift = 2
  WeightWidth = 3
  SmallStep = 1
  BigStep = 2
  Callback = "words"
  Wants <- MCWants
  Bulk <- MCBulk
  Words <- OnesWords
  Least <- MCLeast
  Most <- MCMost
  First <- MCFirst
SPECIFICATION Spec
INVARIANTS
  BufferZeroed
