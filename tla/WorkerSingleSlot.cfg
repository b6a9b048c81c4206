SPECIFICATION WStuckSpec
CONSTANTS
  t1 = t1
  t2 = t2
  w1 = w1
  w2 = w2
  q1 = q1
  NULL = NULL
  TaskIds <- MCOneTask
  WorkerIds <- MCTwoWorkers
  Queues <- MCQueues
  IdempotencyKeys <- MCNoKeys
  MaxBudget = 3
  MaxAttemptsChoices <- MCOnlyMax
  RunAtDelays <- MCNow
  HeartbeatTTL = 2
  Ceiling <- MCCeiling
  Concurrency = 1
  BatchLimit = 1
  StoreErrors = TRUE
  Stalls = TRUE
  BeatGap = 1
  Crashable <- MCOneWorker
  Terminable <- MCOneWorker
PROPERTIES ReportsFenced ShutdownEnds EveryTaskSettles
