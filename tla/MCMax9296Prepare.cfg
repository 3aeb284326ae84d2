SPECIFICATION Spec
CONSTANTS
  NumCsi = 2
  MaxEpoch = 2
  MaxAttempts = 2
  Generations <- MCGenerations
  InitialStatuses <- MCFewStatuses
INVARIANTS
  TypeOK
  FailureHoldsNoLease
  QuiescentAfterJoin
  HonestOutcome
  NeverStoresTwice
PROPERTIES
  CancelsOnlyOwnLease
  KeepsPromise
  EventuallyReturns
CHECK_DEADLOCK FALSE
