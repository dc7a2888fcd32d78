SPECIFICATION CSpec
CONSTANTS
  NodeId = {"a", "b", "q"}
  Key = {"ka", "kb", "kg", "kh"}
  Spelling = {"eu", "EU"}
  ListName = {"eu", "EU"}
  Jurisdiction = {"EU"}
  Upper <- MCUpper
  Framework = {"none"}
  Dates = {"d1", "d2"}
  Subject = {"s", "far"}
  EvidenceId = {"e"}
  Scope = {"audit", "other"}
  Absent = Absent
  Malformed = Malformed
  Requests <- MCRequests
  Batches <- NoBatches
  Seeds <- NoSeeds
  Unreadable = {}
  Tears = {"garbage"}
  MaxRecords = 3
  MaxTorn = 1
  MaxFailed = 0
  Runs <- MCRuns
  GroupKey <- MCGroupKey
  Others <- MCOthers
  MaxRuns = 2
INVARIANTS DeclarationsSigned PinnedFirst
PROPERTIES VerdictStable ThresholdMet
\* A bounded run ends when its last record is made.
CHECK_DEADLOCK FALSE
