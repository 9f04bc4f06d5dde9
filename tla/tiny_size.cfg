SPECIFICATION Spec
CONSTANTS
  Text <- MCText
  Kilobyte = 32
  Wrap = 33554432
  Starts <- NoUnit
INVARIANT
  NeverPanics
CHECK_DEADLOCK FALSE
