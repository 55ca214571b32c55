SPECIFICATION ExtSpec
CONSTANTS
  Main = main
  NoProc = noproc
  NoChan = nochan
  NoArgs = noargs
  Proc = {main, p1, p2, p3}
  Chan = {c1}
  Val = {v1}
  StackSize = 4
  MaxClosures = 2
  Seconds = {0}
  Ticks = {1}
  MaxTime = 1
  MaxCount = 1
  AltForms <- TinyAlts
  Calls = {"return", "SLEEP", "IN", "PARWHILE", "CPPOUT"}
INVARIANTS
  NothingLeftBehind
SYMMETRY Symmetry
CHECK_DEADLOCK FALSE
