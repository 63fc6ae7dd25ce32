SPECIFICATION FairSpec
CONSTANTS
  NumTables = 2
  Limit = 1
  MaxRetries = 1
  MaxBacklog = 2
  MaxLate = 1
INVARIANTS TypeOK RecordHonest PriorityRespected RunsComparable
PROPERTIES RunsEnd NoStarvation
