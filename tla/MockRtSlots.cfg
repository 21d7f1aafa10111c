SPECIFICATION Spec
CONSTANTS
  Runtimes = {r1}
  NoRuntime = none
  NumTrampolines = 2
  Blocks <- NoBlocks
  AddrSpace = 8
  AllUpgradesValid = FALSE
  ZeroCopyImmutable = FALSE
  Allocator = "stack"
  HeapMayFail = FALSE
  PanicUnwinds = FALSE
  ParallelRuntimes = FALSE
  MaxDepth = 6
INVARIANT OutOfSlotsIsAnError
CHECK_DEADLOCK FALSE
