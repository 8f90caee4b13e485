SPECIFICATION FairSpec
CONSTANTS
  Window = 2
  MinSpeech = 2
  MinSilence = 4
  Pieces = {3}
  EarlyStops = FALSE
  MaxAudio = 12
  MaxPrepares = 2
  MaxInbox = 2
  MaxChunks = 3
INVARIANTS
  TypeOK
  SegmentWhole
  SegmentsApart
  TimelineTrue
  StopHeeded
PROPERTIES
  GoneEnds
CHECK_DEADLOCK FALSE
