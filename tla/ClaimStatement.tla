---------------------------- MODULE ClaimStatement ----------------------------
(***************************************************************************)
(* claimSQL taken apart (internal/store/postgres/claim.go).  TaskStore has *)
(* the claim as one atomic step that takes any set of due rows; here it is *)
(* what PostgreSQL does under READ COMMITTED: the statement sees the rows  *)
(* that were due when it began, goes through them by priority DESC and     *)
(* run_at, passes over a row that another transaction has locked, checks   *)
(* a row that was changed meanwhile again once it has the lock, stops at   *)
(* LIMIT, and updates what it locked when it commits.  Claims of other     *)
(* workers, submissions, cancellations and reports come between any two of *)
(* these steps.                                                            *)
(*                                                                         *)
(* The subquery is evaluated once, and no database time passes while a     *)
(* claim is open: a claim is short compared with a unit of time, so that   *)
(* its now() is the instant it commits.  A row that a claim took and a     *)
(* report gave back has a run_at after the now() of every claim that was   *)
(* open: for those it is not due, whatever the delay.                      *)
(***************************************************************************)
EXTENDS TaskStore

CONSTANTS Priorities,   \* what the priority column may hold, task by task
          Limits,       \* how many rows a claim may ask for
          MaxAborts     \* bound: claims cut off before they commit

ASSUME PriorityAssumption == Priorities \subseteq [TaskIds -> Int]
ASSUME LimitAssumption == Limits \subseteq Nat \ {0} /\ MaxAborts \in Nat

VARIABLES priority,   \* the column; it is set by the INSERT and never changes
          line,       \* the due rows, by run_at
          stmt,       \* per worker: its claim statement
          aborts

cvars == <<tasks, priority, line, stmt, aborts>>

(* rows: the due rows of the queue as the snapshot shows them, each with   *)
(* its attempts.  Of those it has gone through, the statement has locked   *)
(* the ones in taken and passed over the ones others had locked.           *)
NoStatement == [queue |-> NULL, limit |-> 0, rows |-> [t \in TaskIds |-> NULL],
                passed |-> {}, taken |-> {}]

CInit == /\ Init
         /\ priority \in Priorities
         /\ line = <<>>
         /\ stmt = [w \in WorkerIds |-> NoStatement]
         /\ aborts = 0

Open(w) == stmt[w] # NoStatement
Locked(t) == \E w \in WorkerIds : t \in stmt[w].taken
Snapshot(w) == {t \in TaskIds : stmt[w].rows[t] # NULL}

(* u's run_at is before t's, both being due.                               *)
EarlierIn(s, u, t) == \E i, j \in DOMAIN s : i < j /\ s[i] = u /\ s[j] = t
Earlier(u, t) == EarlierIn(line, u, t)

(* Faulty variant: tasks of one priority come in any order.                *)
BeforeByPriority(u, t) == priority[u] > priority[t]

(* ORDER BY priority DESC, run_at.                                         *)
Before(u, t) == \/ priority[u] > priority[t]
                \/ priority[u] = priority[t] /\ Earlier(u, t)

-----------------------------------------------------------------------------
(* Faulty variant: a heartbeat_at is taken for a claim, although the       *)
(* sweeper leaves it behind.                                               *)
BeginClaimOfSilent(w, q, limit) ==
    /\ ~Open(w)
    /\ \E t \in TaskIds : Due(t) /\ tasks[t].queue = q
    /\ stmt' = [stmt EXCEPT ![w] =
          [NoStatement EXCEPT !.queue = q, !.limit = limit,
              !.rows = [t \in TaskIds |->
                  IF Due(t) /\ tasks[t].queue = q /\ tasks[t].silence = NULL
                  THEN tasks[t].attempts ELSE NULL]]]
    /\ UNCHANGED <<tasks, priority, line, aborts>>

(* The statement begins: its snapshot, its now().  One that finds nothing  *)
(* due returns nothing, and is no step.                                    *)
BeginClaim(w, q, limit) ==
    /\ ~Open(w)
    /\ \E t \in TaskIds : Due(t) /\ tasks[t].queue = q
    /\ stmt' = [stmt EXCEPT ![w] =
          [NoStatement EXCEPT !.queue = q, !.limit = limit,
              !.rows = [t \in TaskIds |-> IF Due(t) /\ tasks[t].queue = q
                                          THEN tasks[t].attempts ELSE NULL]]]
    /\ UNCHANGED <<tasks, priority, line, aborts>>

(* The WHERE clause once more, on the latest version of the row.           *)
Current(w, t) == Due(t) /\ tasks[t].attempts = stmt[w].rows[t]

(* The rows the statement has yet to go through, and still may return.     *)
Remaining(w) == {t \in Snapshot(w) \ (stmt[w].taken \cup stmt[w].passed) : Current(w, t)}
Full(w) == Cardinality(stmt[w].taken) = stmt[w].limit

(* FOR UPDATE SKIP LOCKED, for the next row in order.                      *)
LockNext(w, t) ==
    /\ Open(w) /\ ~Full(w)
    /\ t \in Remaining(w) /\ \A u \in Remaining(w) : ~Before(u, t)
    /\ stmt' = [stmt EXCEPT ![w] =
          IF Locked(t)
          THEN [stmt[w] EXCEPT !.passed = stmt[w].passed \cup {t}]
          ELSE [stmt[w] EXCEPT !.taken = stmt[w].taken \cup {t}]]
    /\ UNCHANGED <<tasks, priority, line, aborts>>

(* The rows that are due once the step is over, in order: none gets ahead  *)
(* of another that it was not ahead of before, but for the pairs in moved. *)
DueNext(t) == tasks'[t].status = "pending" /\ tasks'[t].due_in = 0
Orders(S) == {s \in [1..Cardinality(S) -> S] : \A t \in S : \E i \in DOMAIN s : s[i] = t}
InLine(moved) ==
    \E s \in Orders({t \in TaskIds : DueNext(t)}) :
        /\ \A u, t \in TaskIds : EarlierIn(s, u, t) => Earlier(u, t) \/ <<u, t>> \in moved
        /\ line' = s

(* A row that becomes due has a later run_at than those that are; several  *)
(* that do so at once come in any order.                                   *)
NewlyDue == {t \in TaskIds : DueNext(t) /\ ~Due(t)}
LineUp == InLine(TaskIds \X NewlyDue)

(* Faulty variant: the rows that were read are updated, not those locked.  *)
CommitRead(w) ==
    /\ Open(w) /\ (Full(w) \/ Remaining(w) = {})
    /\ tasks' = [t \in TaskIds |->
                    IF t \in Snapshot(w) THEN Claimed(tasks[t], w) ELSE tasks[t]]
    /\ LineUp
    /\ stmt' = [stmt EXCEPT ![w] = NoStatement]
    /\ UNCHANGED <<priority, aborts>>

(* The UPDATE of the locked rows and the commit, which frees them; nothing *)
(* is written when there is none.                                          *)
CommitClaim(w) ==
    /\ Open(w) /\ (Full(w) \/ Remaining(w) = {})
    /\ tasks' = [t \in TaskIds |->
                    IF t \in stmt[w].taken THEN Claimed(tasks[t], w) ELSE tasks[t]]
    /\ LineUp
    /\ stmt' = [stmt EXCEPT ![w] = NoStatement]
    /\ UNCHANGED <<priority, aborts>>

(* The worker's context is cancelled, or its process or connection dies.   *)
AbortClaim(w) ==
    /\ Open(w) /\ aborts < MaxAborts
    /\ stmt' = [stmt EXCEPT ![w] = NoStatement]
    /\ aborts' = aborts + 1
    /\ UNCHANGED <<tasks, priority, line>>

-----------------------------------------------------------------------------
(* The other statements.  An INSERT may name a run_at that is long past.   *)
Submitted(t, q, k, delay, max) ==
    /\ Enqueue(t, q, k, delay, max)
    /\ InLine((TaskIds \X {t}) \cup ({t} \X TaskIds))
    /\ UNCHANGED <<priority, stmt, aborts>>

(* Faulty variant: a cancellation that does not wait for the row.          *)
CancelAtOnce(t) == Cancel(t) /\ LineUp /\ UNCHANGED <<priority, stmt, aborts>>

(* cancelSQL waits for a row that a claim has locked.                      *)
Cancelled(t) == ~Locked(t) /\ Cancel(t) /\ LineUp /\ UNCHANGED <<priority, stmt, aborts>>

(* Reports, heartbeats and sweeps touch running rows, which no claim locks.*)
Reported == /\ \E w \in WorkerIds : \/ \E t \in TaskIds : Complete(w, t) \/ Fail(w, t)
                                   \/ \E ids \in SUBSET TaskIds : Heartbeat(w, ids)
            /\ LineUp
            /\ UNCHANGED <<priority, stmt, aborts>>

Swept == RecoverOrphans /\ LineUp /\ UNCHANGED <<priority, stmt, aborts>>

Passed == /\ \A w \in WorkerIds : ~Open(w)
          /\ Elapse /\ LineUp
          /\ UNCHANGED <<priority, stmt, aborts>>

ClaimStep(w) == (\E t \in TaskIds : LockNext(w, t)) \/ CommitClaim(w)
Poll(w) == \E q \in Queues, limit \in Limits : BeginClaim(w, q, limit)

CNext == \/ \E w \in WorkerIds : Poll(w) \/ ClaimStep(w) \/ AbortClaim(w)
         \/ \E t \in TaskIds, q \in Queues, k \in IdempotencyKeys \cup {NULL},
               delay \in RunAtDelays, max \in MaxAttemptsChoices : Submitted(t, q, k, delay, max)
         \/ \E t \in TaskIds : Cancelled(t)
         \/ Reported \/ Swept \/ Passed

CSpec == CInit /\ [][CNext]_cvars

(* Workers with room keep polling and the server gets on with their        *)
(* statements; the sweeper keeps sweeping.  Time passes between claims,    *)
(* however many there are: hence strong fairness.                          *)
CFairSpec == /\ CSpec
             /\ \A w \in WorkerIds : WF_cvars(Poll(w)) /\ WF_cvars(ClaimStep(w))
             /\ WF_cvars(Swept) /\ SF_cvars(Passed)

-----------------------------------------------------------------------------
(* A locked row belongs to one claim and stays as that claim found it, due *)
(* and with the same attempts, until the claim commits or is cut off: what *)
(* the UPDATE writes follows from what the subquery read.                  *)
LockedRowsStay ==
    \A w \in WorkerIds : \A t \in stmt[w].taken :
        /\ Due(t) /\ tasks[t].queue = stmt[w].queue
        /\ tasks[t].attempts = stmt[w].rows[t]
        /\ \A v \in WorkerIds \ {w} : t \notin stmt[v].taken

(* "without ever handing two of them the same task": the statement, taken  *)
(* apart, still does to the table what TaskStore's atomic claim does.      *)
StoreSpec == Spec

(* Nobody is overtaken.  When a claim commits, a row that was due when it  *)
(* began, is so still, and was not locked by another claim when its turn   *)
(* came, is left behind only because the claim is full, and full of rows   *)
(* of higher priority, or of the same and as long due.  So a claim that    *)
(* comes back empty found nothing due that nobody else was taking.         *)
LeftBehind(w) == {u \in Snapshot(w) \ (stmt[w].taken \cup stmt[w].passed) :
                     Due(u) /\ tasks[u].attempts = stmt[w].rows[u]}

NobodyOvertaken ==
    [][\A w \in WorkerIds : CommitClaim(w) =>
          \A u \in LeftBehind(w) :
             /\ Cardinality(stmt[w].taken) = stmt[w].limit
             /\ \A t \in stmt[w].taken : /\ priority[u] <= priority[t]
                                         /\ priority[u] = priority[t] => ~Earlier(u, t)]_cvars

(* A due task does not stay due for ever: snapshots, locks others hold,    *)
(* limits and claims cut off delay it, but somebody claims it (or it is    *)
(* cancelled) while workers with room keep polling.                        *)
DueTasksClaimed == \A t \in TaskIds : Due(t) ~> ~Due(t)
=============================================================================
