SPECIFICATION Spec
CONSTANTS
  Text <- MCText
  Kilobyte = 1024
  Wrap = 1073741824
  SettingsKeys <- OneKey
  Recommendation <- OneRecommendation
  CPUs = 4
  Contents <- LibContents
  FlagSets <- YesOnly
  ClockSteps = {1}
  MaxMinute = 1
  ReadFaults = FALSE
INVARIANT
  LibrariesKept
