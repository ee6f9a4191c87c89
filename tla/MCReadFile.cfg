SPECIFICATION Spec
CONSTANTS
  s = s  m = m
  Files <- MCFiles
  Size <- MCSize
  LBlock = 2
  Extent <- MCExtent
  Kept <- MCKept
  Reads <- MCReads
  MaxBlocks = 4
INVARIANTS TypeOK ReadsRight CacheTrue ListExact
PROPERTY NewestStays
