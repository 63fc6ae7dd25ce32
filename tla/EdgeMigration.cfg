SPECIFICATION Spec
CONSTANTS
  NumKeys = 3
  Live = FALSE
  Reverts = {}
  MaxVer = 2
  MaxSeq = 5
  MaxEpoch = 2
INVARIANTS TypeOK NoWriteLost PositionsUnique
PROPERTIES WriteGoesOnTop RerunIsNoOp
