SPECIFICATION JaggedRangeSpec
CONSTANTS
  Values = {1}
  MaxValues = 2
  MaxBlocks = 2
  MaxGroups = 2
INVARIANTS
  ValuesTreatTheOffset
\* A call of unique ends.
CHECK_DEADLOCK FALSE
