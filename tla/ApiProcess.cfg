SPECIFICATION AFairSpec
CONSTANTS
  r1 = r1
  r2 = r2
  r3 = r3
  k1 = k1
  k2 = k2
  NULL = NULL
  INVALID = INVALID
  Requests <- MCRequests
  Bulk <- MCBulk
  Keys <- MCKeys
  Batches <- MCBatches
  Skew <- MCSkew
  MaxConns = 2
  MaxTime = 1
  MaxFailures = 1
  PingAttempts = 5
CHECK_DEADLOCK FALSE
INVARIANTS KeyInsertedOnce AllOrNothing OrderedBatchesAccepted DuplicateIsTrue CleanExitCutsNobodyOff NothingLeftOpen
PROPERTIES RequestsEnd StopsWhenTold
