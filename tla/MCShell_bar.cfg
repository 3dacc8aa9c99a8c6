SPECIFICATION Spec
CONSTANTS
  Configs <- MCConfigs
  NoName = NoName
  Interval = 2
  MaxTime = 4
  MaxMessages = 2
PROPERTIES ShownFiveSeconds
CHECK_DEADLOCK FALSE
