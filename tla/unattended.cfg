SPECIFICATION FairSpec
CONSTANTS
  Text <- MCMachineText
  Kilobyte = 32
  Wrap = 33554432
  SettingsKeys <- ComputedKeys
  Recommendation <- ComputedRecommendation
  CPUs = 1
  Contents <- UnattendedContents
  FlagSets <- UnattendedFlags
  ClockSteps = {1}
  MaxMinute = 1
  ReadFaults = TRUE
INVARIANT
  SettledAfterwards
PROPERTY
  UnattendedEnds
