CONSTANTS
  o1 = o1
  o2 = o2
  o3 = o3
  Objects = {o1, o2}
  StringKeys = {o2}
  Numbers = {1, 2, 4}
  MaxIndex = 7
  HashOf <- Hashes
  Sizes <- TableSizes
  Coroutines = {1, 2}
  MaxCCalls = 5
  ExtraCCalls = 2
  MaxCalls = 6
  Programs <- CoroutinePrograms
  MaxDepth = 20
  MaxCaptures = 3
  Nil = Nil
  MaxInt = 7
  MaxStack = 6
  IntSize = 2
  NULL = NULL
  BufferSize = 3
SPECIFICATION Spec
INVARIANTS
  TableIsMap
  TraversalVisitsAll
  LengthIsBoundary
  CCallsCounted
  NoAssertFails
  MatchMeansPattern
  SortSorts
  ListsKept
  LoadsWhatWasSaved
  ScansWhatIsWritten
PROPERTIES
  ImplementsCoroutines
CHECK_DEADLOCK FALSE
