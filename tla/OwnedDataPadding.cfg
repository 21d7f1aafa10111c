SPECIFICATION Spec
CONSTANTS
  Size = 2
  Bits = {0, 1, 2}
  Zero = 0
  Uninit = Uninit
  KeepsPadding = TRUE
  MaxCopies = 2
  Types <- OnePaddedType
INVARIANT WrittenIsReadable
CHECK_DEADLOCK FALSE
