SPECIFICATION WSpec
CONSTANTS
  t1 = t1
  t2 = t2
  w1 = w1
  w2 = w2
  q1 = q1
  NULL = NULL
  TaskIds <- MCTwoTasks
  WorkerIds <- MCTwoWorkers
  Queues <- MCQueues
  IdempotencyKeys <- MCNoKeys
  MaxBudget = 2
  MaxAttemptsChoices <- MCOnlyMax
  RunAtDelays <- MCNow
  HeartbeatTTL = 1
  Ceiling <- MCCeiling
  Concurrency = 1
  BatchLimit = 2
  StoreErrors = FALSE
  Stalls = FALSE
  BeatGap = 1
  Crashable <- MCTwoWorkers
  Terminable <- MCTwoWorkers
INVARIANTS OneExecution WithinCapacity ReleaseCoversExecuting
PROPERTIES LiveTasksNotSwept
SYMMETRY MCSymmetry
