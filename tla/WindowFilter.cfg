SPECIFICATION Spec
CONSTANTS
  Instant <- MCInstant
  Label = {"key:a", "key:ab"}
  None = None
  Declarations <- MCDeclarations
  Queries <- FilterQueries
  MaxLedger = 1
  MaxServed = 1
INVARIANTS WindowComplete
\* A bounded run ends when the clock does.
CHECK_DEADLOCK FALSE
