SPECIFICATION FairSpec
CONSTANTS
  r1 = r1  r2 = r2  r3 = r3  w1 = w1  w2 = w2  d1 = d1  d2 = d2
  Readers <- MCReaders
  NoTask = NoTask
  Workers <- MCWorkers
  Destroyers <- MCDestroyers
  QueueSize = 2
INVARIANTS RingOK TaskKept
PROPERTIES ReadReturns GracefulDrains
CHECK_DEADLOCK FALSE
