SPECIFICATION Spec
CONSTANTS
  NumThreads = 1
  MaxServed = 0
PROPERTIES QuitEndsThread
CHECK_DEADLOCK FALSE
