SPECIFICATION ExchangeSpec
CONSTANTS
  NProc = 2
  SizeofInt = 4
  Shapes <- InstanceShapes
INVARIANTS
  GroupsArePreserved
\* The exchanges end.
CHECK_DEADLOCK FALSE
