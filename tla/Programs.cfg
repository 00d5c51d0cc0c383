SPECIFICATION AlgorithmsSpec
CONSTANTS
  Byte = {0, 1}
  kCheapPrepend = 1
  initialSize = 3
  ExtraBuf = 2
  MaxIo = 3
  MaxSize = 8
  Pointers = {p1, p2, p3}
  Objects = {o1, o2}
  Unborn = Unborn
  Start = 3
  Nobody = Nobody
  MAX = 5
  concurrent_count = 2
  Values = {1, 2, 3}
  MaxLen = 4
  MaxLists = 3
  MaxShort = 2
  Null = Null
  MaxCourses = 3
  MaxEdges = 3
  INT_MAX = 100
INVARIANTS BytesKept OwnersCounted MoneyKept StuckOnlyAsKnown SumOfRanges ListsRight SearchesRight
CHECK_DEADLOCK FALSE
