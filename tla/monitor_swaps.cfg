\* Both modes, two swaps, one restart
SPECIFICATION Spec
CONSTANTS
  w1 = w1
  w2 = w2
  w3 = w3
  w4 = w4
  s1 = s1
  s2 = s2
  None = None
  Runs <- FourRuns
  Swaps <- TwoSwaps
  HealthOn = TRUE
  MaxRestarts = 1
CHECK_DEADLOCK FALSE
INVARIANTS
  MTypeOK
  NoTrafficInSetup
  OneWorkload
