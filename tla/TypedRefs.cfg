SPECIFICATION Spec
CONSTANTS
  Width = 5
  Types <- SomeTypes
  OuterBlocks <- SomeBlocks
  Lengths <- SomeLengths
  OverflowChecks = TRUE
  MaxBlocks = 3
INVARIANTS
  TypeOK
  InBounds
  WellAligned
  SubRefIsExact
  IteratorGivesEachElementOnce
CHECK_DEADLOCK FALSE
