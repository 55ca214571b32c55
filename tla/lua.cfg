CONSTANTS
  MaxIndexRK = 1
  FieldsPerFlush = 2
  Fuel = 100
  Rounds = 10
SPECIFICATION Spec
INVARIANTS
  CodeMeansProgram
  RejectsIllegal
CHECK_DEADLOCK FALSE
