SPECIFICATION Spec
CONSTANTS
  c1 = c1
  c2 = c2
  base = base
  sub1 = sub1
  u1 = u1
  u2 = u2
  NoConn = NoConn
  NotWatched = NotWatched
  Base = base
  Conns <- OneConn
  SubLoops <- OneSubLoop
  Users <- NoUser
  SendsFiles = TRUE
  MaxOut = 1
  MaxQueue = 1
PROPERTIES SendFileGivesUp
CHECK_DEADLOCK FALSE
