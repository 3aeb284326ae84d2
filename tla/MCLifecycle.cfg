SPECIFICATION Spec
CONSTANTS
  c0 = c0
  c1 = c1
  Csi = {c0, c1}
  Configurations <- MCConfigurations
  MaxSignals = 2
INVARIANTS StreamsOnlyPrepared NoLeaseForgotten UsedWhileValid
PROPERTIES QuitEnds
CHECK_DEADLOCK FALSE
