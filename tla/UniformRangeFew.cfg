SPECIFICATION RangeSpec
CONSTANTS
  MaxSize = 4
  MaxSlot = 6
  FewElements = TRUE
INVARIANT
  FinishIsIncluded
CHECK_DEADLOCK FALSE
