SPECIFICATION FairSpec
CONSTANTS
  n1 = n1
  n2 = n2
  s1 = s1
  NULL = NULL
  Nodes <- MCOneNode
  Schedules <- MCSchedules
  Kind <- MCEvery
  Period <- MCPeriod3
  Horizon = 2
  MaxPlanned = 2
  MaxTime = 4
  MaxPass = 2
  Skew <- MCNoSkew
  Crashable <- MCNobody
PROPERTIES EnabledScheduleFires
