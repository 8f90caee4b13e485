SPECIFICATION FairSpec
CONSTANTS
  d1 = d1
  d2 = d2
  q = q
  h = h
  None = None
  Conn = {d1, h}
  Kind <- HalfKinds
  Fails = TRUE
  Timeouts = TRUE
INVARIANTS
  FenceHolds
  NobodyInMeansIdle
PROPERTIES
  GoneSessionEnds
