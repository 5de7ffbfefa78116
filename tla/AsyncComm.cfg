\* Every graph of up to four tasks, each future joined at most once.
SPECIFICATION FairAsyncSpec
CONSTANTS
  MaxTasks = 4
  MaxJoin = 2
  RepeatedDeps = FALSE
  NWorkers = 2
  CommMod = 5
INVARIANTS
  LaunchedAfterCompletion
  KnowledgeIsSound
  NoLostWakeup
  NothingWrittenAfterReturn
PROPERTIES
  Terminates
  AsyncImplementsExecution
