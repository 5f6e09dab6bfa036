\* A proxy and a dashboard, 1 worker
SPECIFICATION Spec
CONSTANTS
  p1 = p1
  b1 = b1
  None = None
  NumWorkers = 1
  Proxies <- OneProxy
  Dashboards <- OneDashboard
  TTL = 1
  MaxClock = 4
  MaxPicks = 2
  MaxChanges = 2
CHECK_DEADLOCK FALSE
INVARIANTS
  WTypeOK
  VerdictFresh
