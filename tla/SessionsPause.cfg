SPECIFICATION Spec
CONSTANTS
  d1 = d1
  d2 = d2
  q = q
  h = h
  None = None
  Conn = {d1, d2}
  Kind <- PairKinds
  Fails = FALSE
  Timeouts = TRUE
INVARIANTS
  OneSession
