SPECIFICATION Spec
CONSTANTS
  Clients <- MCClients
  MaxRequests = 2
  Counts <- MCFewCounts
  Modes <- MCStreaming
  QueueLimit = 1
  CopyMayFail = FALSE
PROPERTIES
  EveryRequestAnswered
  
CHECK_DEADLOCK FALSE
