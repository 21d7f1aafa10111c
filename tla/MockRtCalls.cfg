SPECIFICATION Spec
CONSTANTS
  Runtimes = {r1, r2}
  NoRuntime = none
  NumTrampolines = 3
  Blocks <- OneBlock
  AddrSpace = 8
  AllUpgradesValid = FALSE
  ZeroCopyImmutable = FALSE
  Allocator = "stack"
  HeapMayFail = FALSE
  PanicUnwinds = FALSE
  ParallelRuntimes = FALSE
  MaxDepth = 10
INVARIANTS
  TypeOK HeadIsInnermostSetup IdsFollowNesting
  UniqueAccess ForeignRunsAlone ReentryOnlyByOwnCall
PROPERTY ImplementsForeignAccess
CHECK_DEADLOCK FALSE
