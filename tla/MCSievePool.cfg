SPECIFICATION FairSpec
CONSTANTS
  Sids = {s1}
  Tasks = {t1, t2, t3}
  Conns = {c1, c2, c3}
  NoTask = NoTask
  NoConn = NoConn
INVARIANTS TypeOK CallsApart ConnectionsKept
PROPERTIES ExecutesSerially EverythingEnds
CHECK_DEADLOCK FALSE
