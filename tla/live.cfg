SPECIFICATION SwarmFairSpec
CONSTANTS
  Main = main
  NoProc = noproc
  NoChan = nochan
  NoArgs = noargs
  NoSwarm = noswarm
  Swarms = {s1}
  Proc = {main, p1, p2, p3}
  Chan = {c1}
  Val = {v1}
  StackSize = 4
  MaxClosures = 2
  Seconds = {0}
  Ticks = {2}
  MaxTime = 2
  AltForms <- TinyAlts
  Calls = {"return", "IN", "OUT", "SLEEP", "close", "PAR", "PARWHILE", "ALT", "MAIN", "go"}
INVARIANTS
  SwarmPointsToMain
PROPERTIES
  EvaluatorRests
  SleepersWake
  AltsExpire
CHECK_DEADLOCK FALSE
