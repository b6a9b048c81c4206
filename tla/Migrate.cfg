SPECIFICATION FairSpec
CONSTANTS
  p1 = p1
  p2 = p2
  p3 = p3
  NULL = NULL
  Procs <- MCProcs
  Known <- MCKnown
  MaxFailures = 2
INVARIANTS ExactlyOnce InVersionOrder
PROPERTY BootCompletes
CHECK_DEADLOCK FALSE
