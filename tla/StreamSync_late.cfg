SPECIFICATION Spec
CONSTANTS
  k1 = k1
  k2 = k2
  Key = {k1, k2}
  Strategy = "summary"
  Kinds = {"good"}
  Limit = 1
  MaxRetries = 1
  LateRequests = TRUE
  MaxLate = 1
  MaxSeq = 3
  MaxEpoch = 1
INVARIANTS AckedDurable
