\* Two overlapping commands
SPECIFICATION LFairSpec
CONSTANTS
  l1 = l1
  l2 = l2
  c1 = c1
  c2 = c2
  c3 = c3
  d1 = d1
  d2 = d2
  d3 = d3
  d4 = d4
  d5 = d5
  None = None
  Backend = "postgres"
  Kinds <- ForegroundStop
  Sequential = FALSE
  Pids <- TwoDaemons
  Loops <- TwoDaemons
  OneShots <- TwoCmds
  Pods <- ThreePods
  NumNodes = 1
  NumZones = 0
  EmptyRetries = 0
  MaxGlitch = 0
  MaxFaults = 1
  MaxBack = 0
CHECK_DEADLOCK FALSE
PROPERTY CommandsEnd
