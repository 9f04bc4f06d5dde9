SPECIFICATION Spec
CONSTANTS
  Proc = {1, 2}
  Line <- MCLine
  Hole = "hole"
  Proposal <- MCProposal
  Contents <- TwoLines
  Saved <- MCSaved
  Earlier <- MCEarlier
  MaxSaves = 0
  MaxMinute = 2
  BackSteps = {}
  Cleaning = FALSE
  Apart = TRUE
INVARIANT
  RestoresWholeFile
CHECK_DEADLOCK FALSE
