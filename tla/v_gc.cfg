SPECIFICATION GcSpec
CONSTANTS
  NObj = 3
  SweepMax = 1
  MaxOps = 5
  Programs <- EnvProgram
  Finalizable = {"table", "udata"}
INVARIANT LinkedOnce
CHECK_DEADLOCK FALSE
