SPECIFICATION Spec
CONSTANTS
  Main = main
  NoProc = noproc
  NoChan = nochan
  NoArgs = noargs
  Proc = {main, p1, p2, p3}
  Chan = {c1, c2}
  Val = {v1}
  StackSize = 4
  MaxClosures = 2
  Seconds = {0}
  Ticks = {1}
  MaxTime = 0
  AltForms <- SmallAlts
  Calls = {"return", "close", "SLEEP", "PAR", "ALT"}
INVARIANTS
  ClosureIsFunction
SYMMETRY Symmetry
CHECK_DEADLOCK FALSE
