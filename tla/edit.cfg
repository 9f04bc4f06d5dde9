SPECIFICATION Spec
CONSTANTS
  Text <- MCText
  Kilobyte = 1024
  Wrap = 1073741824
  SettingsKeys <- MCSettingsKeys
  Recommendation <- MCRecommendation
  CPUs = 4
  Contents <- EditContents
  FlagSets <- EditFlags
  ClockSteps = {1}
  MaxMinute = 1
  ReadFaults = FALSE
INVARIANTS
  TypeOK
  AcceptedTakesEffect
  SettledAfterwards
  NothingElseTouched
  StampedOnce
  AppendEquivalent
