SPECIFICATION Spec
CONSTANTS
  Runtimes = {r1}
  NoRuntime = none
  NumTrampolines = 2
  Blocks <- NoBlocks
  AddrSpace = 8
  AllUpgradesValid = FALSE
  ZeroCopyImmutable = FALSE
  Allocator = "stack"
  HeapMayFail = FALSE
  PanicUnwinds = TRUE
  ParallelRuntimes = FALSE
  MaxDepth = 6
INVARIANT HeadIsInnermostSetup
CHECK_DEADLOCK FALSE
