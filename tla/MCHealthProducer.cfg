CONSTANTS
  Channels <- MCChannels
  Enabled <- MCEnabled
  Stall = 1
  NoGrowth = 4
  Duration = 3
  WatchPeriod = 2
  Strikes = 1
  ColdStrikes = 2
  Repeat = 2
  Lag = 1
  Storages <- MCStorages
SPECIFICATION Spec
CHECK_DEADLOCK FALSE
PROPERTIES  NoGrowthIsOverdue 
