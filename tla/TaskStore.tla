------------------------------ MODULE TaskStore ------------------------------
(***************************************************************************)
(* The tasks table of Tick and the statements that change it               *)
(* (internal/store/postgres).  Every statement is one SQL UPDATE or INSERT *)
(* that PostgreSQL runs atomically, so every operation is one action here. *)
(* The clients are unconstrained: any worker may report on any task at any *)
(* moment, as a stalled, crashed or resurrected worker process does.       *)
(*                                                                         *)
(* Time.  The statements only ever compare a column with now().  The model *)
(* keeps the two differences they look at instead of absolute instants:    *)
(* due_in is run_at - now() (0 once the task is due) and silence is        *)
(* now() - heartbeat_at (it saturates just past the TTL).  Elapse lets one *)
(* unit of database time pass.                                             *)
(***************************************************************************)
EXTENDS Integers, FiniteSets

CONSTANTS TaskIds,            \* ids the sequence of tasks.id can hand out
          WorkerIds,          \* identities workers claim under
          Queues,             \* queue names
          IdempotencyKeys,    \* non-NULL idempotency keys
          NULL,               \* SQL NULL
          MaxBudget,          \* maxAttemptsMax: the API caps max_attempts
          MaxAttemptsChoices, \* values of max_attempts submissions carry
          RunAtDelays,        \* how far ahead of now() a run_at may lie
          HeartbeatTTL,       \* the 90 seconds of recoverOrphansSQL
          Ceiling             \* attempts |-> least(300, power(2, attempts) * 5)

ASSUME BudgetAssumption == /\ MaxBudget \in Nat
                           /\ MaxAttemptsChoices \subseteq 1..MaxBudget
ASSUME DelayAssumption == RunAtDelays \subseteq Nat
ASSUME TTLAssumption == HeartbeatTTL \in Nat
ASSUME CeilingAssumption == Ceiling \in [0..MaxBudget -> Nat]
ASSUME NullAssumption == /\ NULL \notin WorkerIds
                         /\ NULL \notin IdempotencyKeys
                         /\ NULL \notin Nat

VARIABLE tasks                \* the table: one row per id

-----------------------------------------------------------------------------
(* Rows.  "absent" is the state of an id that no INSERT has used yet.  The *)
(* status 'failed' of the schema is never written by any statement.        *)

Terminal == {"succeeded", "dead", "cancelled"}
Statuses == {"absent", "pending", "running"} \cup Terminal
LastErrors == {"none", "reported", "orphaned"}
Silences == 0..(HeartbeatTTL + 1)

Row == [status       : Statuses,
        queue        : Queues \cup {NULL},
        key          : IdempotencyKeys \cup {NULL},
        due_in       : Nat,
        attempts     : Nat,
        max_attempts : 0..MaxBudget,
        claimed_by   : WorkerIds \cup {NULL},
        silence      : Silences \cup {NULL},
        last_error   : LastErrors]

NoRow == [status |-> "absent", queue |-> NULL, key |-> NULL, due_in |-> 0,
          attempts |-> 0, max_attempts |-> 0, claimed_by |-> NULL,
          silence |-> NULL, last_error |-> "none"]

Inserted(q, k, delay, max) ==
    [NoRow EXCEPT !.status = "pending", !.queue = q, !.key = k,
                  !.due_in = delay, !.max_attempts = max]

(* Faulty variants, here and below, show that the properties at the end of *)
(* the module notice the fault: here a claim that consumes no attempt.     *)
ClaimedForFree(row, w) ==
    [row EXCEPT !.status = "running", !.claimed_by = w, !.silence = 0]

Claimed(row, w) ==
    [row EXCEPT !.status = "running", !.claimed_by = w, !.silence = 0,
                !.attempts = row.attempts + 1]

Completed(row) ==
    [row EXCEPT !.status = "succeeded", !.claimed_by = NULL, !.silence = NULL]

(* Faulty variants: a budget compared one too high, or one too low.        *)
ExhaustedTooLate(row) == row.attempts > row.max_attempts
ExhaustedTooEarly(row) == row.attempts + 1 >= row.max_attempts

Exhausted(row) == row.attempts >= row.max_attempts

(* Faulty variants: an exhausted row is given the status 'failed', which   *)
(* the schema has and no statement looks for; the claim is kept.           *)
RetryOrDeadAsFailed(row, delay) ==
    [row EXCEPT !.status = IF Exhausted(row) THEN "failed" ELSE "pending",
                !.claimed_by = NULL,
                !.due_in = IF Exhausted(row) THEN @ ELSE delay]
RetryOrDeadKeepingClaim(row, delay) ==
    IF Exhausted(row)
    THEN [row EXCEPT !.status = "dead"]
    ELSE [row EXCEPT !.status = "pending", !.due_in = delay]

(* The CASE expressions shared by failSQL and recoverOrphansSQL: back to   *)
(* pending with a new run_at while attempts remain, to dead with run_at    *)
(* left as it was once they are used up.                                   *)
RetryOrDead(row, delay) ==
    IF Exhausted(row)
    THEN [row EXCEPT !.status = "dead", !.claimed_by = NULL]
    ELSE [row EXCEPT !.status = "pending", !.claimed_by = NULL,
                     !.due_in = delay]

(* failSQL: the delay is random() times the ceiling; heartbeat_at is reset. *)
Failed(row, delay) ==
    [RetryOrDead(row, delay) EXCEPT !.silence = NULL, !.last_error = "reported"]

(* recoverOrphansSQL: the full ceiling, and heartbeat_at is left behind.   *)
Recovered(row) ==
    [RetryOrDead(row, Ceiling[row.attempts]) EXCEPT !.last_error = "orphaned"]

(* Faulty variants: a TTL one unit short; exhausted tasks passed over; the *)
(* heartbeat_at that an earlier sweep left behind taken for a claim's.     *)
OrphanedAtTTL(row) == row.status = "running" /\ row.silence >= HeartbeatTTL
OrphanedWithBudget(row) == /\ row.status = "running"
                           /\ row.silence > HeartbeatTTL
                           /\ ~Exhausted(row)
OrphanedByAge(row) == row.silence # NULL /\ row.silence > HeartbeatTTL

Orphaned(row) == row.status = "running" /\ row.silence > HeartbeatTTL

Aged(row) ==
    [row EXCEPT
        !.due_in  = IF @ = 0 THEN 0 ELSE @ - 1,
        !.silence = IF @ = NULL \/ @ = HeartbeatTTL + 1 THEN @ ELSE @ + 1]

-----------------------------------------------------------------------------
vars == <<tasks>>

Init == tasks = [t \in TaskIds |-> NoRow]

(* The partial unique index tasks_queue_idempotency_key_uniq.              *)
KeyTaken(q, k) ==
    k # NULL /\ \E t \in TaskIds : tasks[t].queue = q /\ tasks[t].key = k

(* Enqueue: INSERT ... ON CONFLICT DO NOTHING.  On a conflict nothing is   *)
(* written and the caller is handed the row that holds the key.            *)
Enqueue(t, q, k, delay, max) ==
    /\ tasks[t].status = "absent"
    /\ ~KeyTaken(q, k)
    /\ tasks' = [tasks EXCEPT ![t] = Inserted(q, k, delay, max)]

(* Faulty variant: running rows qualify too.                               *)
DueUnsettled(t) == tasks[t].status \in {"pending", "running"} /\ tasks[t].due_in = 0

Due(t) == tasks[t].status = "pending" /\ tasks[t].due_in = 0

(* Claim: FOR UPDATE SKIP LOCKED passes over rows other transactions hold, *)
(* so any non-empty set of due rows of the queue may be the one returned.  *)
Claim(w, q, batch) ==
    /\ batch # {}
    /\ \A t \in batch : Due(t) /\ tasks[t].queue = q
    /\ tasks' = [t \in TaskIds |->
                    IF t \in batch THEN Claimed(tasks[t], w) ELSE tasks[t]]

(* Heartbeat: the rows of the list still running under this worker.        *)
Refreshed(w, ids) ==
    {t \in ids : tasks[t].claimed_by = w /\ tasks[t].status = "running"}

Heartbeat(w, ids) ==
    tasks' = [t \in TaskIds |->
                 IF t \in Refreshed(w, ids)
                 THEN [tasks[t] EXCEPT !.silence = 0] ELSE tasks[t]]

(* Faulty variant: the guard does not compare the worker.                  *)
HoldsByAnyone(w, t) == tasks[t].claimed_by # NULL

(* Complete and Fail are guarded by claimed_by alone; when the guard does  *)
(* not match nothing is written and the caller gets ErrClaimLost.          *)
Holds(w, t) == tasks[t].claimed_by = w

Complete(w, t) ==
    /\ Holds(w, t)
    /\ tasks' = [tasks EXCEPT ![t] = Completed(tasks[t])]

Fail(w, t) ==
    /\ Holds(w, t)
    /\ \E delay \in 0..Ceiling[tasks[t].attempts] :
          tasks' = [tasks EXCEPT ![t] = Failed(tasks[t], delay)]

Cancel(t) ==
    /\ tasks[t].status = "pending"
    /\ tasks' = [tasks EXCEPT ![t].status = "cancelled"]

RecoverOrphans ==
    /\ \E t \in TaskIds : Orphaned(tasks[t])
    /\ tasks' = [t \in TaskIds |->
                    IF Orphaned(tasks[t]) THEN Recovered(tasks[t])
                                          ELSE tasks[t]]

Elapse == tasks' = [t \in TaskIds |-> Aged(tasks[t])]

(* A submission as validateSubmission lets it through.                     *)
SomeEnqueue == \E t \in TaskIds, q \in Queues, k \in IdempotencyKeys \cup {NULL},
                  delay \in RunAtDelays, max \in MaxAttemptsChoices :
                     Enqueue(t, q, k, delay, max)

Next == \/ SomeEnqueue
        \/ \E w \in WorkerIds, q \in Queues, batch \in SUBSET TaskIds : Claim(w, q, batch)
        \/ \E w \in WorkerIds, ids \in SUBSET TaskIds : Heartbeat(w, ids)
        \/ \E w \in WorkerIds, t \in TaskIds : Complete(w, t)
        \/ \E w \in WorkerIds, t \in TaskIds : Fail(w, t)
        \/ \E t \in TaskIds : Cancel(t)
        \/ RecoverOrphans
        \/ Elapse

Spec == Init /\ [][Next]_vars

(* Database time passes and the sweeper keeps sweeping: sweeper.Run goes   *)
(* on after every error.  Nothing is assumed of the workers.               *)
FairSpec == Spec /\ WF_vars(Elapse) /\ WF_vars(RecoverOrphans)

-----------------------------------------------------------------------------
(* Every column keeps its type and the row its shape: in particular the    *)
(* status 'failed', which the schema allows and no statement would ever    *)
(* pick up again, is never written.                                        *)
TypeOK == tasks \in [TaskIds -> Row]

(* A row names a holder exactly while it is running, and a running row     *)
(* carries a heartbeat.  The CHECK constraint tasks_running_is_owned       *)
(* states one direction; the other one is what makes the claimed_by guards *)
(* of completeSQL and failSQL enough without a guard on status.            *)
ClaimConsistent ==
    \A t \in TaskIds :
        /\ tasks[t].claimed_by # NULL <=> tasks[t].status = "running"
        /\ tasks[t].status = "running" => tasks[t].silence # NULL

(* A pending task always has an attempt left to consume and none ever      *)
(* exceeds its budget, although claimSQL itself never looks at             *)
(* max_attempts: the statements that put a row back to pending must have.  *)
RetryBudget ==
    \A t \in TaskIds :
        /\ tasks[t].attempts <= tasks[t].max_attempts
        /\ tasks[t].status = "pending" => tasks[t].attempts < tasks[t].max_attempts

(* A dead task used its whole budget and says why it died; a succeeded one *)
(* was executed at least once (failSQL, recoverOrphansSQL, completeSQL).   *)
OutcomeJustified ==
    \A t \in TaskIds :
        /\ tasks[t].status = "dead" => /\ tasks[t].attempts = tasks[t].max_attempts
                                       /\ tasks[t].last_error # "none"
        /\ tasks[t].status = "succeeded" => tasks[t].attempts > 0

(* No statement, from any worker at any later time, moves a settled task:  *)
(* the outcome a client polled stays what it was.  completeSQL and failSQL *)
(* do not mention status, so this rests on ClaimConsistent.                *)
OutcomeKept(t) ==
    tasks[t].status \in Terminal =>
       /\ tasks'[t].status = tasks[t].status
       /\ tasks'[t].attempts = tasks[t].attempts
       /\ tasks'[t].last_error = tasks[t].last_error

TerminalIsFinal == [][\A t \in TaskIds : OutcomeKept(t)]_vars

(* A claim ends in one of three ways: its holder reports success, its      *)
(* holder reports failure, or it has been silent for longer than the TTL.  *)
(* Nobody else's claim, heartbeat, report or cancellation takes it away.   *)
ClaimEndJustified(t) ==
    (tasks[t].claimed_by # NULL /\ tasks'[t].claimed_by # tasks[t].claimed_by) =>
       \/ Complete(tasks[t].claimed_by, t)
       \/ Fail(tasks[t].claimed_by, t)
       \/ tasks[t].silence > HeartbeatTTL

ClaimEndsByHolderOrSilence == [][\A t \in TaskIds : ClaimEndJustified(t)]_vars

(* The table implements the abstract lifecycle of every task.              *)
Lifecycle == INSTANCE TaskLifecycle
             WITH Tasks <- TaskIds,
                  phase <- [t \in TaskIds |-> tasks[t].status],
                  left  <- [t \in TaskIds |-> tasks[t].max_attempts - tasks[t].attempts]
LifecycleSpec == Lifecycle!LSpec

(* A claim whose holder never beats again does not last for ever: the      *)
(* sweeper releases it (or its holder reports) as long as it is running.   *)
SilentClaimsEnd ==
    \A t \in TaskIds :
        []<>(tasks[t].status # "running" \/ tasks[t].silence = 0)
=============================================================================
