SPECIFICATION Spec
CONSTANTS
  t1 = t1  t2 = t2  f = f  g = g
  Threads <- MCThreads
  Files <- MCFiles
  Dirs <- MCDirs
  Uses <- MCOwn
  Calls <- MCCalls
  MaxOpen = 2
  MaxSize = 2
  MaxRefs <- MCRefs
  ReadSize = 2
  Nobody = Nobody
  NoFile = NoFile
  NoFd = NoFd
INVARIANTS TypeOK RefsExact DeletedUnused BusyInside NoDeadlock
PROPERTIES ImplementsTable
CHECK_DEADLOCK FALSE
