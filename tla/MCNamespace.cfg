SPECIFICATION Spec
CONSTANTS
  t1 = t1  t2 = t2  a = a  b = b  c = c
  Threads <- MCThreads
  Names <- MCNames
  OldFiles <- MCOldFiles
  FirstBlock <- MCFirst
  MaxCalls = 3
  InoNum = 1
  InodeBase = 128
  Nobody = Nobody
  NoFile = NoFile
SYMMETRY MCSymmetry
INVARIANTS TypeOK ReturnsFile  NumbersApart LogTrue LockReleased
PROPERTIES CreatesMissing
CHECK_DEADLOCK FALSE
