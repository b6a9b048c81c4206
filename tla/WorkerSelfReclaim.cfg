SPECIFICATION WSpec
CONSTANTS
  t1 = t1
  t2 = t2
  w1 = w1
  w2 = w2
  q1 = q1
  NULL = NULL
  TaskIds <- MCOneTask
  WorkerIds <- MCOneWorker
  Queues <- MCQueues
  IdempotencyKeys <- MCNoKeys
  MaxBudget = 3
  MaxAttemptsChoices <- MCOnlyMax
  RunAtDelays <- MCNow
  HeartbeatTTL = 2
  Ceiling <- MCCeiling
  Concurrency = 2
  BatchLimit = 1
  StoreErrors = FALSE
  Stalls = FALSE
  BeatGap = 1
  Crashable <- MCNobody
  Terminable <- MCNobody
PROPERTIES ReportsFenced
