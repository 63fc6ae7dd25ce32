SPECIFICATION Spec
CONSTANTS
  k1 = k1
  k2 = k2
  s1 = s1
  s2 = s2
  Key = {k1, k2}
  Session = {s1, s2}
  Tables <- SingleRowTables
  MaxSeq = 2
  Overlap = TRUE
  MaxEpoch = 2
INVARIANTS KeysNotSkipped
