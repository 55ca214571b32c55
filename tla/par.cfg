SPECIFICATION SwarmSpec
CONSTANTS
  Main = main
  NoProc = noproc
  NoChan = nochan
  NoArgs = noargs
  NoSwarm = noswarm
  Swarms = {s1}
  Proc = {main, p1, p2, p3, p4}
  Chan = {c1}
  Val = {v1}
  StackSize = 5
  MaxClosures = 3
  Seconds = {0}
  Ticks = {1}
  MaxTime = 0
  AltForms <- NoAlt
  Calls = {"return", "error", "SLEEP", "IN", "OUT", "PAR", "PARWHILE", "MAIN", "twice", "go", "terminate"}
INVARIANTS
  SwarmTypeOK
  StackConsistent
  NoLostGo
  ProcessTree
  WakeOrder
  AssertsHold
PROPERTIES
  LeftToRun
SYMMETRY Symmetry
CHECK_DEADLOCK FALSE
