------------------------------ MODULE MCWorker -------------------------------
(* Small instances of Worker.                                              *)
EXTENDS Worker, TLC

CONSTANTS t1, t2, w1, w2, q1

MCOneTask == {t1}
MCTwoTasks == {t1, t2}
MCOneWorker == {w1}
MCTwoWorkers == {w1, w2}
MCQueues == {q1}
MCNoKeys == {}
MCNow == {0}
MCOnlyMax == {MaxBudget}
MCNobody == {}

(* All workers may crash and be stopped, and all tasks are alike.          *)
MCSymmetry == Permutations(TaskIds) \cup Permutations(WorkerIds)

(* One unit of backoff whatever the attempt; TaskStore has the curve.      *)
MCCeiling == [n \in 0..MaxBudget |-> 1]
=============================================================================
