\* Each constant bounds the inputs of one of the functions.
SPECIFICATION FairAlgoSpec
CONSTANTS
  NRank = 3
  MaxTotal = 8
  MaxSize = 9
  MaxSlot = 6
  FewElements = FALSE
  Slots = {1, 2, 3, 5}
  NBlock = 3
  MaxBlock = 3
  Weights = {0, 1, 2, 3}
  LastWeighs = TRUE
  MaxTick = 3
  MaxInterval = 3
  MaxValue = 4
  MaxDistance = 1
  MaxLen = 4
  MaxPivot = 3
  NValue = 3
  MaxPermuted = 6
  MaxSorted = 6
  SortKeys = {1, 2, 3}
  Threshold = 2
  MaxLoop = 300
  MaxWord = 5
  RunKeys = {1, 2, 3}
  Elts = {0, 1, 2}
  MaxLeft = 4
  MaxRight = 3
INVARIANTS
  DistributionsAreEven
  VisitsTheDistribution
  TicksAreFound
  RangeIsPartitioned
  SortsInside
  PermutesInPlace
  AlgorithmsAgree
PROPERTIES
  IndicesAreFinal
  CallsReturn
\* The calls return.
CHECK_DEADLOCK FALSE
