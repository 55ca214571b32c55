SPECIFICATION Spec
CONSTANTS
  Main = main
  NoProc = noproc
  NoChan = nochan
  NoArgs = noargs
  Proc = {main, p1, p2, p3}
  Chan = {c1, c2}
  Val = {v1, v2}
  StackSize = 4
  MaxClosures = 2
  Seconds = {0}
  Ticks = {1}
  MaxTime = 1
  AltForms <- SmallAlts
  Calls = {"return", "terminate", "error", "IN", "OUT", "RANGE", "close", "PAR", "PARWHILE", "ALT", "busy", "SLEEP"}
INVARIANTS
  NoLostWakeup
  TypeOK
  AttachmentsLive
  Greedy
  ProcessTree
PROPERTIES
  AltTakesTopmost
  ImplementsRendezvous
  ReceivedIsReturned
SYMMETRY Symmetry
CHECK_DEADLOCK FALSE
