CONSTANTS
  MaxMedia = 2
  QueueMax = 1
  Caps <- MCCaps
  Video = TRUE
SPECIFICATION Spec
CHECK_DEADLOCK FALSE
INVARIANTS
  FreedByTheLast
  PublishedPair
  RegistryAlive
  Decodable
  NeverWedged
