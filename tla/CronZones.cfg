SPECIFICATION Spec
CONSTANTS
  Zones <- MCZones
  Expressions <- MCExpressions
  Instants <- MCInstants
  Starts <- MCStarts
INVARIANTS FiresAtMostOnce NoWallClockLost WestFiresFirst
CHECK_DEADLOCK FALSE
