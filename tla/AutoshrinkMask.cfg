\* One request of a whole word, all ones.
CONSTANTS
  WordBits = 2
  ByteBits = 2
  PoolSize = 2
  PoolLimit = 100
  Gives = {"OK", "SKIP", "ERROR"}
  Garbage = {0}
  MaxFailed = 1
  MaxChanges = 1
  Retries = 1
  MaxShift = 2
  WeightWidth = 3
  SmallStep = 1
  BigStep = 2
  Callback = "word"
  Wants <- MCWants
  Bulk <- MCBulk
  Words <- OnesWords
  Least <- MCLeast
  Most <- MCMost
  First <- MCFirst
SPECIFICATION Spec
PROPERTIES
  MaskClearsABit
