SPECIFICATION VisitsSpec
CONSTANTS
  MaxIndexRK = 1
  FieldsPerFlush = 2
  Fuel = 100
  Rounds = 10
INVARIANT LocalsStartNil
CHECK_DEADLOCK FALSE
