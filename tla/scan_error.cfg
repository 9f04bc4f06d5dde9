SPECIFICATION Spec
CONSTANTS
  Text <- MCText
  Kilobyte = 1024
  Wrap = 1073741824
  SettingsKeys <- OneKey
  Recommendation <- OneRecommendation
  CPUs = 4
  Contents <- ScanContents
  FlagSets <- YesOnly
  ClockSteps = {1}
  MaxMinute = 1
  ReadFaults = TRUE
INVARIANT
  BackupIsWholeFile
