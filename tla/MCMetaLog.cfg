SPECIFICATION Spec
CONSTANTS
  ExtentSize = 4
  DentrySize = 8
  AddrInfoSize = 5
  LogBlock = 12
  LogSpace = 24
  MaxEntries = 4
  MaxSyncs = 2
INVARIANTS EntriesFit NothingElseLost
CHECK_DEADLOCK FALSE
