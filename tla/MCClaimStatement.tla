-------------------------- MODULE MCClaimStatement ---------------------------
(* A small instance of ClaimStatement.  Two tasks that either differ in    *)
(* priority or do not, and two workers, are enough for a claim to find the *)
(* better row locked, taken, given back, cancelled, or submitted too late; *)
(* a report gives a row back at once, while other claims are still open.   *)
(* The tasks are interchangeable and only the order of priorities matters: *)
(* two assignments stand for all.                                          *)
EXTENDS ClaimStatement

CONSTANTS t1, t2, w1, w2, q1

MCTasks == {t1, t2}
MCWorkers == {w1, w2}
MCQueues == {q1}
MCKeys == {}
MCBudgets == {2}
MCDelays == {0, 1}
MCPriorities == {[t \in MCTasks |-> 0], [t \in MCTasks |-> IF t = t1 THEN 1 ELSE 0]}
MCLimits == {1, 2}
MCCeiling == [n \in 0..MaxBudget |-> 0]
=============================================================================
