SPECIFICATION Spec
CONSTANTS
  Text <- MCText
  Kilobyte = 1024
  Wrap = 1073741824
  SettingsKeys <- OneKey
  Recommendation <- OneRecommendation
  CPUs = 4
  Contents <- FilesContents
  FlagSets <- RestoreDry
  ClockSteps = {1}
  MaxMinute = 2
  ReadFaults = FALSE
INVARIANT
  DryRunOverwritesNothing
