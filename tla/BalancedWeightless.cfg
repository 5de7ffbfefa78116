SPECIFICATION BalancedSpec
CONSTANTS
  Slots = {1, 2}
  NBlock = 2
  MaxBlock = 2
  Weights = {0, 1}
  LastWeighs = FALSE
INVARIANT
  LastBoundIsTheSize
CHECK_DEADLOCK FALSE
