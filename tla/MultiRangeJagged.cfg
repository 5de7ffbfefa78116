SPECIFICATION MultiRangeSpec
CONSTANTS
  Columns = {0, 1}
  Keys = {1}
  Comparators = {"less"}
  MaxRows = 3
INVARIANTS
  BlocksOfRows
