SPECIFICATION Spec
CONSTANTS
  Size = 2
  Bits = {0, 1, 2}
  Zero = 0
  Uninit = Uninit
  KeepsPadding = FALSE
  MaxCopies = 2
  Types <- SomeTypes
INVARIANTS
  TypeOK
  JudgedExactly
  CopiesAreSnapshots
  WhatWasWrittenIsThere
\* A process that has panicked stops.
CHECK_DEADLOCK FALSE
