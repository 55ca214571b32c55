SPECIFICATION ExtSpec
CONSTANTS
  Main = main
  NoProc = noproc
  NoChan = nochan
  NoArgs = noargs
  Proc = {main, p1, p2, p3}
  Chan = {c1}
  Val = {v1}
  StackSize = 4
  MaxClosures = 3
  Seconds = {0}
  Ticks = {1}
  MaxTime = 1
  MaxCount = 1
  AltForms <- TinyAlts
  Calls = {"return", "IN", "OUT", "close", "PAR", "PARWHILE", "ALT", "busy", "reuse", "CPPOUT", "LUA", "yield"}
INVARIANTS
  ExtTypeOK
  AllAttachmentsLive
  KeyPressRead
  NoLostExtWakeup
SYMMETRY Symmetry
CHECK_DEADLOCK FALSE
