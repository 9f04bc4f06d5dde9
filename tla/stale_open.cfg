SPECIFICATION Spec
CONSTANTS
  Proc = {1, 2}
  Line <- MCLine
  Hole = "hole"
  Proposal <- MCProposal
  Contents <- OneLine
  Saved <- MCSaved
  Earlier <- MCEarlier
  MaxSaves = 1
  MaxMinute = 2
  BackSteps = {}
  Cleaning = FALSE
  Apart = TRUE
PROPERTY
  ReadsCurrentFile
CHECK_DEADLOCK FALSE
