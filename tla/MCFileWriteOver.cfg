SPECIFICATION Spec
CONSTANTS
  f1 = f1  f2 = f2  w1 = w1  w2 = w2
  Files <- MCFiles
  Writers <- MCWriters
  Target <- MCOneEach
  Garbage = Garbage
  Block = 2
  LBlock = 4
  NvmStart = 4
  NvmSize = 12
  SsdStart = 2
  AddrMod = 1000
  Space = 24
  MaxSize = 6
  MaxWrites = 3
  Grain = 2
  Workload = {"append", "overwrite"}
INVARIANT LogReads
CHECK_DEADLOCK FALSE
