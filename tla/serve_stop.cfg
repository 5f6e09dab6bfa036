\* Start, then stop
SPECIFICATION LSpec
CONSTANTS
  l1 = l1
  l2 = l2
  c1 = c1
  c2 = c2
  c3 = c3
  d1 = d1
  d2 = d2
  d3 = d3
  d4 = d4
  d5 = d5
  None = None
  Backend = "sqlite"
  Kinds <- StartStop
  Sequential = TRUE
  Pids <- OneDaemon
  Loops <- OneDaemon
  OneShots <- TwoCmds
  Pods <- FourPods
  NumNodes = 1
  NumZones = 0
  EmptyRetries = 1
  MaxGlitch = 1
  MaxFaults = 0
  MaxBack = 0
CHECK_DEADLOCK FALSE
PROPERTY StopLeavesNoPod
