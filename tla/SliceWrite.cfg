SPECIFICATION Spec
CONSTANTS
  Cells = {0, 1, 2, 3}
  Elems = {a, b}
  Uninit = uninit
  MaxLen = 3
  UseHeap = TRUE
INVARIANTS
  TypeOK
  WrittenIsWhatWasTaken
  ReturnedIsInitialized
  MismatchWritesNothing
PROPERTIES
  EveryWriteEnds
  ImplementsAtomicWrite
CHECK_DEADLOCK FALSE
