SPECIFICATION Spec
CONSTANTS
  Proc = {1, 2}
  Line <- MCLine
  Hole = "hole"
  Proposal <- MCProposal
  Contents <- OneLine
  Saved <- MCSaved
  Earlier <- MCEarlier
  MaxSaves = 1
  MaxMinute = 3
  BackSteps = {}
  Cleaning = TRUE
  Apart = TRUE
INVARIANTS
  TypeOK
  StandingTextRecoverable
  MostRecentFirst
PROPERTY
  WritesAreCovered
CHECK_DEADLOCK FALSE
