SPECIFICATION FairSpec
CONSTANTS
  k1 = k1
  k2 = k2
  Key = {k1, k2}
  Strategy = "summary"
  Kinds = {"good", "poison"}
  Limit = 1
  MaxRetries = 1
  LateRequests = FALSE
  MaxLate = 0
  MaxSeq = 3
  MaxEpoch = 1
PROPERTIES EveryVersionPassed
