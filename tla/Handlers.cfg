SPECIFICATION Spec
CONSTANTS
  NodeId = {"a", "b", "q"}
  Key = {"ka", "kb", "kg"}
  Spelling = {"eu", "EU"}
  ListName = {"eu", "EU"}
  Jurisdiction = {"EU"}
  Upper <- MCUpper
  Framework = {"none"}
  Dates = {"d1", "d2"}
  Subject = {"s", "far"}
  EvidenceId = {"e"}
  Scope = {"audit", "other"}
  Absent = Absent
  Malformed = Malformed
  Requests <- AllRequests
  Batches <- AllBatches
  Seeds <- TwoSeeds
  Unreadable = {}
  Tears = {}
  MaxRecords = 5
  MaxTorn = 0
  MaxFailed = 0
  Offline = Offline
INVARIANTS TypeOK NothingSkipped SeqIsPlace PostedInOrder
PROPERTIES AcceptanceStable ImplementsAuditedStore
\* A bounded run ends when its last record is made.
CHECK_DEADLOCK FALSE
