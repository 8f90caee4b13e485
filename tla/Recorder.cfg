SPECIFICATION FairSpec
CONSTANTS
  s1 = s1
  s2 = s2
  t1 = t1
  t2 = t2
  Session = {s1, s2}
  Thread = {t1, t2}
  MaxTakes = 2
  MaxPrepares = 2
INVARIANTS
  FlushWaitsForRunning
  ReplayIsTimeline
PROPERTIES
  FlushEnds
CHECK_DEADLOCK FALSE
