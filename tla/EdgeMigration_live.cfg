SPECIFICATION Spec
CONSTANTS
  NumKeys = 2
  Live = TRUE
  Reverts = {}
  MaxVer = 3
  MaxSeq = 6
  MaxEpoch = 2
INVARIANTS NoWriteLost
