SPECIFICATION ASpec
CONSTANTS
  NodeId <- SeedNodeIds
  Key <- SeedKeyNames
  Spelling = {"eu", "EU", "jp", " eu ", "  "}
  ListName = {"eu", "EU", "jp"}
  Jurisdiction = {"EU", "JP", " EU ", "  "}
  Trim <- MCTrim
  Blank = ""
  Upper <- MCUpper
  Framework = {"espr"}
  Dates <- MCDates
  Subject <- MCSubject
  EvidenceId = {"e"}
  Scope = {"audit"}
  Absent = Absent
  Malformed = Malformed
  Requests <- MCRequests
  Batches <- NoBatches
  Seeds <- SeedOps
  Unreadable = {}
  Tears = {}
  MaxRecords = 100
  MaxTorn = 0
  MaxFailed = 0
  GoodSeeds <- MCGoodSeeds
  Unset = Unset
  Envs <- MCEnvs
  Instants = {0, 1}
  PageSize = 12
  MaxAsks = 2
INVARIANTS SeedFaithful GraphGrows LogPaged AnchorsMeanMode BundleDecides PagesMeet
\* A bounded run ends with nobody left to ask.
CHECK_DEADLOCK FALSE
