\* StackAllocator on x86-64.
SPECIFICATION Spec
CONSTANTS
  Allocators = {"amd64"}
  StackBytes = 192
  StackLayouts <- SomeStackLayouts
  Locals = {16, 24}
  HeapBytes = 9
  HeapLayouts <- SomeHeapLayouts
  PanicUnwinds = TRUE
  MaxDepth = 3
INVARIANT CallsTheFunction
\* A process that has stopped, a full heap and the bound on the depth stop it.
CHECK_DEADLOCK FALSE
