SPECIFICATION FairSpec
CONSTANTS
  k1 = k1
  k2 = k2
  s1 = s1
  s2 = s2
  Key = {k1, k2}
  Session = {s1, s2}
  Tables <- TestedTables
  MaxSeq = 3
  Overlap = FALSE
  MaxEpoch = 2
INVARIANTS TypeOK AckedCommitted KeysNotSkipped AppendNeverDeadlocks
PROPERTIES AppendCursorMonotonic EdgeCursorAdvances ImplementsMirror SessionsEnd
