SPECIFICATION PoolsSpec
CONSTANTS
  g1 = g1
  g2 = g2
  Getters <- TwoGetters
  minSize = 1
  maxSize = 2
  MaxStarts = 2
  Workers = {w1, w2, w3}
  Tasks = {k1, k2, k3}
  None = None
  Conns = {c1}
  Threads = {e1, e2}
  Acceptors = 1
  MsgLen = 2
  BufSize = 1
  Messages = 2
  MaxAccepts = 1
INVARIANTS SleepersNotNeeded DestroyedMeansDrained NoEdgeForgotten CountIsIdlePlusLent CountBetweenMinAndMax ProducerAwakeWhenEmpty ClosedIsEmpty
PROPERTIES PoolProgress AnsweredUnlessKnown CloseEndsThreads
CHECK_DEADLOCK FALSE
