SPECIFICATION Spec
CONSTANTS
  InoNum = 4
  InodeBase = 128
  OldInos <- MCOldInos
INVARIANTS
  FreeNotLive
  PanicOnlyWhenExhausted
CHECK_DEADLOCK FALSE
