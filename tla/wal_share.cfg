SPECIFICATION Spec
CONSTANTS
  Text <- MCText
  Kilobyte = 64
  Wrap = 536870912
  Starts <- RealDisk
INVARIANT
  WALWithinShare
CHECK_DEADLOCK FALSE
