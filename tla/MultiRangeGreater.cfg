SPECIFICATION MultiRangeSpec
CONSTANTS
  Columns = {0, 1}
  Keys = {1, 2}
  Comparators = {"greater"}
  MaxRows = 2
INVARIANTS
  SortedKeysAreFound
\* A jagged range that is full ends.
CHECK_DEADLOCK FALSE
