SPECIFICATION Spec
CONSTANTS
  Channels <- MCChannels
  Minutes <- MCMinutes
  Loads <- MCLoads
  SrtEnabled = TRUE
INVARIANTS
  NothingLost
  CompleteMeansAllClosed
  SessionsSound
  AllHandledAtNull
PROPERTIES
  
  ShutdownEnds
CHECK_DEADLOCK FALSE
