SPECIFICATION Spec
CONSTANTS
  Runtimes = {r1}
  NoRuntime = none
  NumTrampolines = 2
  Blocks <- SomeBlocks
  AddrSpace = 8
  AllUpgradesValid = FALSE
  ZeroCopyImmutable = TRUE
  Allocator = "heap"
  HeapMayFail = FALSE
  PanicUnwinds = TRUE
  ParallelRuntimes = FALSE
  MaxDepth = 5
INVARIANTS LiveHeadIsInnermost UpgradesExactlyVisible
CHECK_DEADLOCK FALSE
