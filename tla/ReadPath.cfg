SPECIFICATION Spec
CONSTANTS
  n1 = n1
  n2 = n2
  s1 = s1
  s2 = s2
  Node = {n1, n2}
  Session = {s1, s2}
  Interval = 1
  NodeFresh = 1
  NodeStale = 4
  Width <- TestedWidth
  Zone = 2
  Day = 3
  Week = 6
  Measure <- TestedMeasure
  Retain <- TestedRetain
  Recent = 1
  Asked <- TestedRanges
  Skew <- TestedSkew
  Ahead = 1
  Slow = 1
  MaxTime = 5
  MaxRequests = 3
SYMMETRY Symmetry
INVARIANTS TypeOK HealthCoherent SummaryCoherent SeriesConsistent RiskMonotone AnomalyMeansSpread
PROPERTIES OnlyLateRowsSurvive ImplementsArchive
\* Handlers wait for requests: with none left to come, all of them rest.
CHECK_DEADLOCK FALSE
