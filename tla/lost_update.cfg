SPECIFICATION Spec
CONSTANTS
  Proc = {1, 2}
  Line <- MCLine
  Hole = "hole"
  Proposal <- MCProposal
  Contents <- OneLine
  Saved <- MCSaved
  Earlier <- MCEarlier
  MaxSaves = 1
  MaxMinute = 2
  BackSteps = {}
  Cleaning = FALSE
  Apart = TRUE
INVARIANT
  ReplacedIsBackedUp
CHECK_DEADLOCK FALSE
