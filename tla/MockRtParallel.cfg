SPECIFICATION Spec
CONSTANTS
  Runtimes = {r1, r2}
  NoRuntime = none
  NumTrampolines = 3
  Blocks <- NoBlocks
  AddrSpace = 8
  AllUpgradesValid = FALSE
  ZeroCopyImmutable = FALSE
  Allocator = "stack"
  HeapMayFail = FALSE
  PanicUnwinds = FALSE
  ParallelRuntimes = TRUE
  MaxDepth = 6
INVARIANT UniqueAccess
CHECK_DEADLOCK FALSE
