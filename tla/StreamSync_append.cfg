SPECIFICATION Spec
CONSTANTS
  k1 = k1
  k2 = k2
  k3 = k3
  Key = {k1, k2, k3}
  Strategy = "append"
  Kinds = {"good", "poison"}
  Limit = 2
  MaxRetries = 1
  LateRequests = TRUE
  MaxLate = 1
  MaxSeq = 3
  MaxEpoch = 2
SYMMETRY KeySymmetry
INVARIANTS CheckpointDurable IInv
PROPERTIES AppendHistoryKept CheckpointMonotonic ImplementsMirror
