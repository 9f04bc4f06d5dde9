SPECIFICATION Spec
CONSTANTS
  Text <- MCText
  Kilobyte = 32
  Wrap = 33554432
  Starts <- PercentPath
INVARIANT
  PGDATAIsFound
CHECK_DEADLOCK FALSE
