SPECIFICATION Spec
CONSTANTS
  NodeId = {"a", "b", "q"}
  Key = {"ka", "kb", "kg"}
  Spelling = {"eu", "EU"}
  ListName = {"eu", "EU"}
  Jurisdiction = {"EU"}
  Upper <- MCUpper
  Framework = {"none"}
  Dates = {"d1", "d2"}
  Subject = {"s", "far"}
  EvidenceId = {"e"}
  Scope = {"audit", "other"}
  Absent = Absent
  Malformed = Malformed
  Requests <- FaultRequests
  Batches <- NoBatches
  Seeds <- NoSeeds
  Unreadable = {}
  Tears = {"garbage"}
  MaxRecords = 3
  MaxTorn = 1
  MaxFailed = 0
INVARIANTS TornTolerated
\* A bounded run ends when its last record is made.
CHECK_DEADLOCK FALSE
