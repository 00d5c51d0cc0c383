SPECIFICATION Spec
CONSTANTS
  t1 = t1
  t2 = t2
  Threads <- OneThread
  MaxSpans = 3
  BlocksPerSpan = 3
  threshold = 2
  AlignedSizes = {1}
  SizeMod = 16
  Null = Null
  Junk = Junk
INVARIANTS FreeListSizeIsLength
CHECK_DEADLOCK FALSE
