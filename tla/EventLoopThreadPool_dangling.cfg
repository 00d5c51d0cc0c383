SPECIFICATION Spec
CONSTANTS
  NumThreads = 1
  MaxServed = 0
INVARIANTS QuitWakesLiveLoop
CHECK_DEADLOCK FALSE
