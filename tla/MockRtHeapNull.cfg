SPECIFICATION Spec
CONSTANTS
  Runtimes = {r1}
  NoRuntime = none
  NumTrampolines = 1
  Blocks <- OneBlock
  AddrSpace = 8
  AllUpgradesValid = FALSE
  ZeroCopyImmutable = FALSE
  Allocator = "heap"
  HeapMayFail = TRUE
  PanicUnwinds = FALSE
  ParallelRuntimes = FALSE
  MaxDepth = 4
INVARIANT TrackedMemoryExists
CHECK_DEADLOCK FALSE
