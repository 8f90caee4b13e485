CONSTANTS
  c1 = c1
  c2 = c2
  c3 = c3
  Client = {c1, c2, c3}
  Worker = {0, 1}
  Endpoint <- MixedEndpoints
  MaxQueue = 2
  Replies = {"idle", "duplex_active"}
  None = None
  Pending = Pending
  Cancelled = Cancelled
SPECIFICATION FairSpec
INVARIANTS
  TypeOK
  ExclusiveLease
  QueuedIsPending
  WorkConserving
  QueueInOrder
PROPERTIES
  QueueIsFifo
  ImplementsLease
  QueuedLeaves
  StaleBusyRecovers
CHECK_DEADLOCK FALSE
