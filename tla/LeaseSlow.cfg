SPECIFICATION Spec
CONSTANTS
  HeartbeatIntervals <- MCSlowIntervals
  HeartbeatTTLs <- MCSlowTTLs
  SweepIntervals <- MCDefaultSweep
  DefaultInterval = 1
  DefaultTTL = 9
  DefaultSweep = 3
  SweepTTL = 9
  MaxMissed = 3
  MaxFailedSweeps = 0
PROPERTIES ThreeMissesAllowed
