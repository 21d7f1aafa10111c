\* Two runtimes, memory as allocated.
SPECIFICATION Spec
CONSTANTS
  Runtimes = {r1, r2}
  NoRuntime = NoRuntime
  Cells = {1, 2}
  Values = {v, w, invalid}
  Valid = {v, w}
  Uninit = Uninit
  LifetimeFeatures = {FALSE}
  MaxDepth = 3
  MaxRefs = 2
  MaxVals = 1
INVARIANTS
  ReadsAreDefined
SYMMETRY Symmetry
\* A process may stop at a panic.
CHECK_DEADLOCK FALSE
