SPECIFICATION FairSpec
CONSTANTS
  t1 = t1
  t2 = t2
  w1 = w1
  w2 = w2
  q1 = q1
  q2 = q2
  k1 = k1
  NULL = NULL
  TaskIds <- MCTasks
  WorkerIds <- MCWorkers
  Queues <- MCQueues
  IdempotencyKeys <- MCKeys
  MaxBudget = 2
  MaxAttemptsChoices <- MCBudgets
  RunAtDelays <- MCDelays
  HeartbeatTTL = 2
  Ceiling <- MCCeiling
INVARIANTS TypeOK ClaimConsistent RetryBudget OutcomeJustified
PROPERTIES TerminalIsFinal ClaimEndsByHolderOrSilence LifecycleSpec SilentClaimsEnd
