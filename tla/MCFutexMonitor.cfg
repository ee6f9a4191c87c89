SPECIFICATION HSpec
CONSTANTS
  t1 = t1  t2 = t2  t3 = t3
  Threads <- MCThreads
  MaxSeq = 2
INVARIANT SleepersRemembered
PROPERTIES ImplementsMonitor FreeIsTaken
