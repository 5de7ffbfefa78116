\* A future joined with itself.
SPECIFICATION AsyncSpec
CONSTANTS
  MaxTasks = 4
  MaxJoin = 2
  RepeatedDeps = TRUE
  NWorkers = 2
  CommMod = 5
INVARIANTS
  LaunchedAfterCompletion
CHECK_DEADLOCK FALSE
