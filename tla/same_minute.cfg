SPECIFICATION Spec
CONSTANTS
  Text <- MCText
  Kilobyte = 1024
  Wrap = 1073741824
  SettingsKeys <- OneKey
  Recommendation <- OneRecommendation
  CPUs = 4
  Contents <- FilesContents
  FlagSets <- YesOnly
  ClockSteps = {0}
  MaxMinute = 0
  ReadFaults = FALSE
INVARIANT
  OriginalRecoverable
