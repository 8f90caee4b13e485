CONSTANTS
  c1 = c1
  c2 = c2
  c3 = c3
  Client = {c1, c2, c3}
  Worker = {0, 1}
  Endpoint <- MixedEndpoints
  MaxQueue = 2
  Replies = {"idle", "duplex_active"}
  None = None
  Pending = Pending
  Cancelled = Cancelled
SPECIFICATION Spec
INVARIANTS
  NoOrphan
CHECK_DEADLOCK FALSE
