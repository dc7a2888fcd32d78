SPECIFICATION FairSpec
CONSTANTS
  NodeId = {"a", "b", "q"}
  Key = {"ka", "kb", "kg"}
  Spelling = {"eu", "EU"}
  ListName = {"eu", "EU"}
  Jurisdiction = {"EU"}
  Upper <- MCUpper
  Framework = {"none"}
  Dates = {"d1", "d2"}
  Subject = {"s", "far"}
  EvidenceId = {"e"}
  Scope = {"audit", "other"}
  Absent = Absent
  Malformed = Malformed
  Requests <- FaultRequests
  Batches <- OneBatch
  Seeds <- EdgeSeeds
  Unreadable <- MCUnreadable
  Tears = {"garbage", "badutf8", "whole"}
  MaxRecords = 4
  MaxTorn = 2
  MaxFailed = 1
INVARIANTS RestartExact LogInOrder LossBounded EdgesAnchored SeedOnce
PROPERTIES Settles
\* A bounded run ends when its last record is made.
CHECK_DEADLOCK FALSE
