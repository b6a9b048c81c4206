----------------------------- MODULE MCTaskStore -----------------------------
(* Small instances of TaskStore.  Two ids, two queues and one key are      *)
(* enough for a duplicate submission to meet a row in any state; a budget  *)
(* of two attempts has a first, a last and no attempt left.                *)
EXTENDS TaskStore

CONSTANTS t1, t2, w1, w2, q1, q2, k1

MCTasks == {t1, t2}
MCWorkers == {w1, w2}
MCQueues == {q1, q2}
MCKeys == {k1}
MCBudgets == {1, 2}
MCDelays == {0, 1}

(* The curve of internal/retry, scaled: least(2, 2^n).                     *)
MCCeiling == [n \in 0..MaxBudget |-> IF n = 0 THEN 1 ELSE 2]
=============================================================================
