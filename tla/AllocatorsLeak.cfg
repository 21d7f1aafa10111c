\* HeapAllocator, with closures that panic.
SPECIFICATION Spec
CONSTANTS
  Allocators = {"heap"}
  StackBytes = 192
  StackLayouts <- SomeStackLayouts
  Locals = {16, 24}
  HeapBytes = 9
  HeapLayouts <- SomeHeapLayouts
  PanicUnwinds = TRUE
  MaxDepth = 3
INVARIANT FreedWithTheFrame
\* A process that has stopped, a full heap and the bound on the depth stop it.
CHECK_DEADLOCK FALSE
