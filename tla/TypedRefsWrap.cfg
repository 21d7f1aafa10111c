SPECIFICATION Spec
CONSTANTS
  Width = 5
  Types <- SomeTypes
  OuterBlocks <- SomeBlocks
  Lengths <- SomeLengths
  OverflowChecks = FALSE
  MaxBlocks = 3
INVARIANT InBounds
CHECK_DEADLOCK FALSE
