\* A daemon with two threads, which launches and asks
SPECIFICATION RSpec
CONSTANTS
  ui = ui
  d1 = d1
  t1 = t1
  t2 = t2
  m1 = m1
  m2 = m2
  e1 = e1
  e2 = e2
  e3 = e3
  e4 = e4
  e5 = e5
  None = None
  UI = ui
  Procs <- OneProc
  Pods <- OnePod
  Threads <- TwoThreads
  Materials <- TwoMaterials
  Dirs <- FiveDirs
  SSH = 1
  EphLo = 4
  EphHi = 6
  Written <- Files
SYMMETRY Symmetry
INVARIANTS
  RTypeOK
  QuietMaterial
  LoneCall
  MonitorFound
PROPERTY NeverAstray
