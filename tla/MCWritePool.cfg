SPECIFICATION FairSpec
CONSTANTS
  w1 = w1  w2 = w2  c1 = c1  c2 = c2  j1 = j1  j2 = j2  j3 = j3
  Workers <- MCWorkers
  Clients <- MCClients
  Waiters <- MCOneWaiter
  Jobs <- MCJobs
  NoJob = NoJob
  NoOwner = NoOwner
  MaxSpurious = 1
INVARIANTS WaitCovers JobsAccounted
PROPERTIES JobsFinish WaitReturns DestroyEnds
CHECK_DEADLOCK FALSE
