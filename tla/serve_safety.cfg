\* Three commands one after the other, 2 nodes
SPECIFICATION LSpec
CONSTANTS
  l1 = l1
  l2 = l2
  c1 = c1
  c2 = c2
  c3 = c3
  d1 = d1
  d2 = d2
  d3 = d3
  d4 = d4
  d5 = d5
  None = None
  Backend = "sqlite"
  Kinds <- AllKinds
  Sequential = TRUE
  Pids <- TwoDaemons
  Loops <- TwoDaemons
  OneShots <- ThreeCmds
  Pods <- FivePods
  NumNodes = 2
  NumZones = 0
  EmptyRetries = 0
  MaxGlitch = 0
  MaxFaults = 1
  MaxBack = 1
CHECK_DEADLOCK FALSE
INVARIANTS
  LTypeOK
  NoStrayDaemon
  NoSurplus
PROPERTIES
  OldPodsGone
  StopEndsDaemon
