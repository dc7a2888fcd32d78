SPECIFICATION Spec
CONSTANTS
  Instant <- MCInstant
  Label = {"key:a", "key:ab"}
  None = None
  Declarations <- MCDeclarations
  Queries <- CutoffQueries
  MaxLedger = 2
  MaxServed = 2
INVARIANTS PointInTimeFixed
\* A bounded run ends when the clock does.
CHECK_DEADLOCK FALSE
