SPECIFICATION Spec
CONSTANTS
  t1 = t1
  t2 = t2
  f1 = f1
  f2 = f2
  f3 = f3
  Threads <- TwoThreads
  Functors <- ThreeFunctors
  MaxEventfd = 2
INVARIANTS NoLostWakeup InPushOrder
PROPERTIES QueuedRunsUnlessQuit QuitStopsRunningLoop ImplementsExecutor
CHECK_DEADLOCK FALSE
