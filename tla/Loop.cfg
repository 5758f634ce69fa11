CONSTANTS
  w1 = w1
  w2 = w2
  o1 = o1
  o2 = o2
  t1 = t1
  t2 = t2
  Workers <- MCWorkers
  Owners <- MCOwners
  Tasks <- MCTasks
  MaxCalls = 6
  MaxPosts = 4
SPECIFICATION FairLoopSpec
INVARIANTS LoopTypeOK PoolMatchesFlag
PROPERTIES IsExecutor ExitReturns SyncLoopReturns TaskRuns
CHECK_DEADLOCK FALSE
