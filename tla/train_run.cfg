\* A start or a train, then a train that may clean its pods up first
SPECIFICATION TrSpec
CONSTANTS
  l1 = l1
  c1 = c1
  c2 = c2
  d1 = d1
  d2 = d2
  d3 = d3
  None = None
  Backend = "sqlite"
  Kinds <- StartTrain
  Sequential = TRUE
  Pids <- OneDaemon
  Loops <- OneDaemon
  OneShots <- TwoCmds
  Pods <- ThreePods
  NumNodes = 1
  NumZones = 0
  EmptyRetries = 1
  MaxGlitch = 1
  MaxFaults = 1
  MaxBack = 1
CHECK_DEADLOCK FALSE
INVARIANTS
  TrTypeOK
  CheckpointsKept
PROPERTIES
  TrainStopsDaemon
  OnlyStragglers
