SPECIFICATION FairSpec
CONSTANTS
  n1 = n1
  n2 = n2
  s1 = s1
  NULL = NULL
  Nodes <- MCTwoNodes
  Schedules <- MCSchedules
  Kind <- MCCron
  Period <- MCPeriod2
  Horizon = 3
  MaxPlanned = 2
  MaxTime = 8
  MaxPass = 2
  Skew <- MCSkew
  Crashable <- MCOneCrashes
INVARIANTS NoFireTimeSkipped
PROPERTIES DowntimeCaughtUp EnabledScheduleFires
