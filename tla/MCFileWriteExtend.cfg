SPECIFICATION Spec
CONSTANTS
  f1 = f1  f2 = f2  w1 = w1  w2 = w2
  Files <- MCOneFile
  Writers <- MCOneWriter
  Target <- MCOnly
  Garbage = Garbage
  Block = 2
  LBlock = 4
  NvmStart = 4
  NvmSize = 12
  SsdStart = 2
  AddrMod = 1000
  Space = 24
  MaxSize = 3
  MaxWrites = 2
  Grain = 1
  Workload = {"append", "extend"}
INVARIANT NoWritePanic
CHECK_DEADLOCK FALSE
