\* Each constant bounds one of the containers, of the exchanges or of the graphs.
SPECIFICATION ContainersSpec
CONSTANTS
  NRank = 2
  NElt = 2
  MaxStride = 2
  MaxIds = 3
  NProc = 2
  SizeofInt = 4
  Shapes <- InstanceShapes
  Values = {1, 2}
  MaxValues = 4
  MaxBlocks = 3
  MaxGroups = 2
  Contents = {1, 2}
  BlockSize = 2
  MaxBlockSize = 2
  MaxMemory = 7
  Columns = {0, 1}
  Keys = {1, 2}
  Comparators = {"less", "greater"}
  MaxRows = 3
  MaxKnot = 5
  MaxKnots = 5
  MaxRank = 3
  MaxExtent = 3
  Elements = {1, 2}
  Extents = {0, 1, 2}
  Holders = {h1, h2, h3}
  MaxAllocations = 2
  Wide = {2}
  MaxNode = 4
  MaxDegree = 2
  MaxMerged = 5
  MaxForest = 4
  Labels = {1, 2}
INVARIANTS
  JaggedIsGathered
  ExchangesAgree
  PositionsAgree
  RowsAreFound
  OwnedOnce
  TraversalsAgree
  MergeIsSound
PROPERTIES
  ImplementsBlocks
  FlatMemoryIsSound
\* The exchanges, the loops and the traversals end.
CHECK_DEADLOCK FALSE
