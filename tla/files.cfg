SPECIFICATION Spec
CONSTANTS
  Text <- MCText
  Kilobyte = 1024
  Wrap = 1073741824
  SettingsKeys <- OneKey
  Recommendation <- OneRecommendation
  CPUs = 1
  Contents <- FilesContents
  FlagSets <- FilesFlags
  ClockSteps = {1}
  MaxMinute = 3
  ReadFaults = FALSE
INVARIANTS
  OriginalRecoverable
  OnlyConsentedWrites
  RestoreYieldsBackup
PROPERTIES
  BackupBeforeOverwrite
  ImplementsSafeEdit
