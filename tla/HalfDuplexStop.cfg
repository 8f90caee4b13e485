SPECIFICATION Spec
CONSTANTS
  Window = 2
  MinSpeech = 2
  MinSilence = 4
  Pieces = {3}
  EarlyStops = TRUE
  MaxAudio = 12
  MaxPrepares = 1
  MaxInbox = 2
  MaxChunks = 3
INVARIANTS
  StopHeeded
CHECK_DEADLOCK FALSE
