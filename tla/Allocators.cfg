\* A runtime with either allocator, on both architectures.
SPECIFICATION Spec
CONSTANTS
  Allocators = {"amd64", "riscv", "heap"}
  StackBytes = 192
  StackLayouts <- SomeStackLayouts
  Locals = {16, 24}
  HeapBytes = 9
  HeapLayouts <- SomeHeapLayouts
  PanicUnwinds = TRUE
  MaxDepth = 4
INVARIANTS
  TypeOK
  StackIsLaidOut
  RunningClosuresHoldTheirMemory
PROPERTIES
  StackIsPutBack
  ImplementsScopedMemory
\* A process that has stopped, a full heap and the bound on the depth stop it.
CHECK_DEADLOCK FALSE
