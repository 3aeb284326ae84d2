SPECIFICATION Spec
CONSTANTS
  Clients <- MCClients
  MaxRequests = 2
  Counts <- MCCounts
  Modes <- MCModes
  QueueLimit = 1
  CopyMayFail = FALSE
INVARIANTS
  AnswerIsTrue
  IndexesSequential
  ValveOpenForWork
  ServedInOrder
CHECK_DEADLOCK FALSE
