SPECIFICATION Spec
CONSTANTS
  c1 = c1
  c2 = c2
  base = base
  sub1 = sub1
  u1 = u1
  u2 = u2
  NoConn = NoConn
  NotWatched = NotWatched
  Base = base
  Conns <- OneConn
  SubLoops <- OneSubLoop
  Users <- TwoUsers
  SendsFiles = TRUE
  MaxOut = 2
  MaxQueue = 2
SYMMETRY UserSymmetry
INVARIANTS UpThenDownOnce DownIsUnwatched OutputIsWatched ShutdownIsPending DestroyedAfterDown
PROPERTIES OutputBeforeShutdown
CHECK_DEADLOCK FALSE
