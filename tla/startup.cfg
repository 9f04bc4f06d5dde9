SPECIFICATION Spec
CONSTANTS
  Text <- MCText
  Kilobyte = 32
  Wrap = 33554432
  Starts <- MCStarts
INVARIANTS
  TypeOK
  PanicsOnlyWhenTooSmall
  WALFits
  ConnectionsShareMemory
  SharesOfMemory
  KnownToVersion
  SearchFinds
CHECK_DEADLOCK FALSE
