CONSTANTS
  Channels <- MCTwo
  HourMinutes = 3
  Minute = 8
  Second = 1
  StartSec = 0
  Duration = 1
  SplitMax = 2
  SplitDiff = 1
  Grace = 7
  MaxDrift = 4
  MinInterval = 2
  Margin = 0
  MaxLag = 1
  Slips <- MCExact
  Steps <- MCSteps
  MaxSteps = 1
  RecheckAt = 3
SPECIFICATION Spec
CHECK_DEADLOCK FALSE
INVARIANT NamesDiffer
PROPERTIES PassedInTime
