\* A loop and a one-shot, 2 nodes
SPECIFICATION FairSpec
CONSTANTS
  l1 = l1
  s1 = s1
  d1 = d1
  d2 = d2
  d3 = d3
  d4 = d4
  None = None
  Backend = "sqlite"
  Pids <- OneLoop
  Loops <- OneLoop
  OneShots <- OneOneShot
  Pods <- FourPods
  NumNodes = 2
  NumZones = 1
  EmptyRetries = 1
  MaxGlitch = 1
  MaxFaults = 2
  MaxBack = 1
CHECK_DEADLOCK FALSE
INVARIANTS
  TypeOK
  SlotBudget
PROPERTY FillsFreeSlots
PROPERTY Converges
