SPECIFICATION Spec
CONSTANTS
  Cells = {0, 1, 2}
  Elems = {a, b}
  Uninit = uninit
  MaxLen = 2
  UseHeap = TRUE
INVARIANT MismatchIsAnError
CHECK_DEADLOCK FALSE
