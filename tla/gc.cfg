SPECIFICATION GcSpec
CONSTANTS
  NObj = 4
  SweepMax = 1
  MaxOps = 4
  Programs <- SmallPrograms
  Finalizable = {"table", "udata"}
INVARIANTS
  NoDanglingReference
  TriColor
  FullCollects
PROPERTIES
  FinalizersRunOnce
CHECK_DEADLOCK FALSE
