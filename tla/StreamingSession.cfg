SPECIFICATION Spec
CONSTANTS
  SessionId = {"a", "b"}
  High = 5
  Low = 3
  Bos = 1
  Lengths = {1, 2}
  Drift <- Drifts
  StaleRollbacks = FALSE
  MaxTurns = 4
  MaxAnswer = 3
INVARIANTS
  TypeOK
  HistoryInCache
PROPERTIES
  SystemKept
  RollbackRestores
CHECK_DEADLOCK FALSE
