SPECIFICATION FairSpec
CONSTANTS
  Servers = {s1, s2}
  Tools = {t1}
  Refreshers = {p1, p2}
  Callers = {k1}
  MaxConns = 2
INVARIANTS
  ToolsHaveTheirServer
  NobodyIsOrphaned
  NoCallHangs
PROPERTIES
  RefreshEnds
CHECK_DEADLOCK FALSE
