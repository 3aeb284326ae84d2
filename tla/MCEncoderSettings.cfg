SPECIFICATION SettingsSpec
CHECK_DEADLOCK FALSE
CONSTANTS
  Channels = {0}
  Configurations <- MCConfigurations
  Rates = {0, 2, 3}
  Gops = {0, 2}
  Bitrates = {0, 1}
  MaxGop = 4
  DefaultFps = 2
  MaxMixed = 0
INVARIANT Agree
PROPERTY KeepsInterval
