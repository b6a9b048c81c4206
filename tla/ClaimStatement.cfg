SPECIFICATION CFairSpec
CONSTANTS
  t1 = t1
  t2 = t2
  w1 = w1
  w2 = w2
  q1 = q1
  NULL = NULL
  TaskIds <- MCTasks
  WorkerIds <- MCWorkers
  Queues <- MCQueues
  IdempotencyKeys <- MCKeys
  MaxBudget = 2
  MaxAttemptsChoices <- MCBudgets
  RunAtDelays <- MCDelays
  HeartbeatTTL = 0
  Ceiling <- MCCeiling
  Priorities <- MCPriorities
  Limits <- MCLimits
  MaxAborts = 1
INVARIANTS LockedRowsStay
PROPERTIES StoreSpec NobodyOvertaken DueTasksClaimed
