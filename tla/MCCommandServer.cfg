SPECIFICATION Spec
CHECK_DEADLOCK FALSE
CONSTANTS
  Plans <- MCPlans
  c1 = c1
  c2 = c2
  Clients = {c1, c2}
  Descriptors = {3, 4, 5}
  Client_Max = 1
INVARIANTS BuiltOrDisabled OwnChannel AllHeard
SYMMETRY MCSymmetry
