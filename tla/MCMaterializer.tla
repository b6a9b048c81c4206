--------------------------- MODULE MCMaterializer ----------------------------
(* Small instances of Materializer.                                        *)
EXTENDS Materializer

CONSTANTS n1, n2, s1

MCOneNode == {n1}
MCTwoNodes == {n1, n2}
MCSchedules == {s1}
MCCron == [s \in Schedules |-> "cron"]
MCEvery == [s \in Schedules |-> "every"]
MCPeriod2 == [s \in Schedules |-> 2]
MCPeriod3 == [s \in Schedules |-> 3]
MCNoSkew == [n \in Nodes |-> 0]
MCSkew == [n \in Nodes |-> IF n = n1 THEN 1 ELSE 0]
MCNobody == {}
MCOneCrashes == {n1}

ASSUME OverlapAssumption == PlansOverlap
=============================================================================
