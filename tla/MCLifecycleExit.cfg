SPECIFICATION Spec
CONSTANTS
  c0 = c0
  c1 = c1
  Csi = {c0, c1}
  Configurations <- MCIpc
  MaxSignals = 0
INVARIANTS ExitTellsFailure
CHECK_DEADLOCK FALSE
