SPECIFICATION Spec
CONSTANTS
  Proc = {1, 2, 3}
  Line <- MCLine
  Hole = "hole"
  Proposal <- MCProposal
  Contents <- TwoLines
  Saved <- MCSaved
  Earlier <- OnlyForeign
  MaxSaves = 0
  MaxMinute = 2
  BackSteps = {1}
  Cleaning = FALSE
  Apart = TRUE
INVARIANT
  MostRecentFirst
CHECK_DEADLOCK FALSE
