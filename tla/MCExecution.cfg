\* Every graph of up to four tasks, joins of up to three futures, repeated ones
\* included: its construction, then its execution.
\* Two callers push two tasks to two threads; idx is 0 again after the second push.
SPECIFICATION FairExecutionSpec
CONSTANTS
  MaxTasks = 4
  MaxJoin = 3
  RepeatedDeps = TRUE
  N = 2
  Task = {t1, t2}
  Caller = {c1, c2}
  NoTask = NoTask
  IdxMod = 2
INVARIANTS
  TopologicalOrder
  SameMultiplicity
  DepsExecutedFirst
  NoLostNotification
PROPERTIES
  SeqImplementsExecution
  EveryTaskRuns
  DestructorReturns
  ImplementsTaskPool
