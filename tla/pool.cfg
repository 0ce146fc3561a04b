SPECIFICATION FairSpec
CONSTANTS
  Tasks = {t1, t2, t3, t4}
  NoTask = NoTask
  Wedged = {t1, t2}
  Size = 2
  PerCallTimeouts = FALSE
  ExitCodes = {0, 1}
  MaxCrashes = 2
CHECK_DEADLOCK FALSE
INVARIANTS
  PoolKeepsItsSize
  WorkConserving
  TasksTracked
PROPERTIES
  EverySubmissionSettles
  WorkerFreed
