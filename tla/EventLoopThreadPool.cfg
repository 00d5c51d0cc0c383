SPECIFICATION Spec
CONSTANTS
  NumThreads = 3
  MaxServed = 3
INVARIANTS StartedLoopsExist GoneMeansJoined
PROPERTIES StartTerminates DestroyTerminatesWhenLooping
CHECK_DEADLOCK FALSE
