SPECIFICATION Spec
CONSTANTS
  GenChunk = 3
  MaxChunks = 4
  AudioChunk = 5
  Lookahead = 3
  Silence = 3
  MaxSamples = 12
INVARIANTS
  EachWordOnce
  EachSoundOnce
  AllTextTold
CHECK_DEADLOCK FALSE
