SPECIFICATION Spec
CONSTANTS
  Configs <- MCConfigs
  NoName = NoName
  Interval = 2
  MaxTime = 5
  MaxMessages = 3
INVARIANTS AsksOnlyAlive ReferencesReturned WillBeHidden
PROPERTIES EndsWhenClosed Refreshed
CHECK_DEADLOCK FALSE
