SPECIFICATION Spec
CONSTANTS
  HeartbeatIntervals <- MCIntervals
  HeartbeatTTLs <- MCTTLs
  SweepIntervals <- MCSweeps
  DefaultInterval = 1
  DefaultTTL = 9
  DefaultSweep = 3
  SweepTTL = 9
  MaxMissed = 10
  MaxFailedSweeps = 2
INVARIANTS OrphanFoundInTime
PROPERTIES ThreeMissesAllowed
