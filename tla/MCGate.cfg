\* Two coroutines share a gate for four calls of two tools.
SPECIFICATION Spec
CONSTANTS
  Callers = {c1, c2}
  Tools = {t1, t2}
  Sizes = {1, 3}
  Timeout = 3
  Slack = 1
  MaxCalls = 4
  SlowAbove = 3
  SlowTimes = 2
  SlowAfter = 2
  SlowFloor = 1
  BloatAbove = 2
  BloatTimes = 2
  BloatAfter = 2
  BloatFloor = 1
INVARIANTS
  TypeOK
  HistoryIsJudged
  OutlierIsRare
  OutliersAreCaught
PROPERTIES
  CallsReturn
