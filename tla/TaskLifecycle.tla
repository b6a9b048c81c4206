---------------------------- MODULE TaskLifecycle ----------------------------
(***************************************************************************)
(* What Tick promises about one task, whatever workers, sweepers and       *)
(* clients do: the state machine of domain.Status together with the        *)
(* attempt budget.  It knows nothing of claims, heartbeats, queues or      *)
(* time.  TaskStore implements it (LifecycleSpec there).                   *)
(***************************************************************************)
EXTENDS Integers

CONSTANT Tasks

VARIABLES phase,     \* the task's status
          left       \* attempts it may still consume

Settled == {"succeeded", "dead", "cancelled"}
Phases == {"absent", "pending", "running"} \cup Settled

LInit == /\ phase = [t \in Tasks |-> "absent"]
         /\ left = [t \in Tasks |-> 0]

Submit(t)  == /\ phase[t] = "absent"
              /\ phase'[t] = "pending"
              /\ left'[t] > 0

(* Starting an execution consumes an attempt, whatever becomes of it.      *)
Start(t)   == /\ phase[t] = "pending" /\ left[t] > 0
              /\ phase'[t] = "running"
              /\ left'[t] = left[t] - 1

Succeed(t) == /\ phase[t] = "running"
              /\ phase'[t] = "succeeded"
              /\ left'[t] = left[t]

(* An execution that ended without success, reported or lost.              *)
Retry(t)   == /\ phase[t] = "running" /\ left[t] > 0
              /\ phase'[t] = "pending"
              /\ left'[t] = left[t]

Bury(t)    == /\ phase[t] = "running" /\ left[t] = 0
              /\ phase'[t] = "dead"
              /\ left'[t] = 0

Withdraw(t) == /\ phase[t] = "pending"
               /\ phase'[t] = "cancelled"
               /\ left'[t] = left[t]

Rest(t)    == phase'[t] = phase[t] /\ left'[t] = left[t]

(* One statement may move several tasks, each of them along its own edge.  *)
LNext == \A t \in Tasks : \/ Submit(t) \/ Start(t) \/ Succeed(t) \/ Retry(t)
                          \/ Bury(t) \/ Withdraw(t) \/ Rest(t)

LSpec == LInit /\ [][LNext]_<<phase, left>>
=============================================================================
