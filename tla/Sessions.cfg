SPECIFICATION Spec
CONSTANTS
  d1 = d1
  d2 = d2
  q = q
  h = h
  None = None
  Conn = {d1, d2, q, h}
  Kind <- PoliteKinds
  Fails = FALSE
  Timeouts = FALSE
SYMMETRY DuplexSymmetry
INVARIANTS
  TypeOK
  OneSession
  FinalizedBeforeStep
PROPERTIES
  SessionUndisturbed
