\* One swap, no health command
SPECIFICATION Spec
CONSTANTS
  w1 = w1
  w2 = w2
  w3 = w3
  w4 = w4
  s1 = s1
  s2 = s2
  None = None
  Runs <- TwoRuns
  Swaps <- OneSwap
  HealthOn = FALSE
  MaxRestarts = 0
CHECK_DEADLOCK FALSE
INVARIANTS
  SwapReplaces
