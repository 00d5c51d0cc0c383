SPECIFICATION MemorySpec
CONSTANTS
  t1 = t1
  t2 = t2
  Threads <- TwoThreads
  MaxSpans = 1
  BlocksPerSpan = 5
  threshold = 2
  AlignedSizes = {0, 1}
  SizeMod = 8
  Null = Null
  Junk = Junk
  Pages = 5
  SlotsPerBlock = 2
  MaxBlocks = 2
SYMMETRY ThreadSymmetry
INVARIANTS AllTyped EveryBlockInOnePlace EveryPageInOneSpan EverySlotInOnePlace
PROPERTIES BothImplementAllocator
CHECK_DEADLOCK FALSE
