SPECIFICATION Spec
CONSTANTS
  FirstYear <- MCFirstYear
  LastYear = 10001
  Walked <- MCWalked
  Seconds = {0, 59, 43200, 86399}
  Offsets <- MCOffsets
INVARIANTS CivilAgrees ReadsBackExactly
\* The calendar ends where the bounds say.
CHECK_DEADLOCK FALSE
