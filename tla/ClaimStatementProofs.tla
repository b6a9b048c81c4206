------------------------- MODULE ClaimStatementProofs -------------------------
(***************************************************************************)
(* claimSQL, taken apart, implements the atomic claim of TaskStore, for    *)
(* any number of tasks, workers, queues and limits.  The argument is about *)
(* the row locks: a row is locked by one claim at a time, and between the  *)
(* lock and the commit nothing else writes it.  So the UPDATE at the end   *)
(* finds every row as due as the check under the lock left it.  And a      *)
(* claim overtakes nobody: what it has yet to go through only gets less,   *)
(* and never comes to lie before what it took.                             *)
(***************************************************************************)
EXTENDS ClaimStatement, TaskStoreProofs

Statement == [queue : Queues \cup {NULL}, limit : Nat,
              rows : [TaskIds -> Nat \cup {NULL}],
              passed : SUBSET TaskIds, taken : SUBSET TaskIds]

(* A row in a snapshot exists, and its queue is the statement's.           *)
SnapshotsOK ==
    /\ \A w \in WorkerIds : stmt[w] = NoStatement \/ stmt[w].queue \in Queues
    /\ \A w \in WorkerIds, t \in TaskIds :
          stmt[w].rows[t] # NULL =>
             tasks[t].status # "absent" /\ tasks[t].queue = stmt[w].queue

(* The inductive invariant: the table's own, and that of the locks.        *)
CInv == /\ Inv
        /\ stmt \in [WorkerIds -> Statement]
        /\ SnapshotsOK
        /\ LockedRowsStay

LEMMA NoStatementOK == NoStatement \in Statement
BY DEF NoStatement, Statement

LEMMA CInitInv == CInit => CInv
<1> SUFFICES ASSUME CInit PROVE CInv OBVIOUS
<1>1. Inv BY InitInv DEF CInit
<1>2. stmt \in [WorkerIds -> Statement] BY NoStatementOK DEF CInit
<1>3. SnapshotsOK BY DEF CInit, SnapshotsOK, NoStatement
<1>4. LockedRowsStay BY DEF CInit, LockedRowsStay, NoStatement
<1> QED BY <1>1, <1>2, <1>3, <1>4 DEF CInv

(* A statement of the table never moves a row to another queue, and never  *)
(* deletes one.                                                            *)
LEMMA RowsStayInQueue ==
    ASSUME Inv, [Next]_vars, NEW t \in TaskIds, tasks[t].status # "absent"
    PROVE  tasks'[t].status # "absent" /\ tasks'[t].queue = tasks[t].queue
<1>1. CASE UNCHANGED vars BY <1>1 DEF vars
<1>2. CASE Next
  <2>1. RowStep(t) BY <1>2, StepPerRow
  <2>2. tasks[t] \in Row BY DEF Inv
  <2>3. /\ \A w \in WorkerIds : /\ Claimed(tasks[t], w).status = "running"
                                /\ Claimed(tasks[t], w).queue = tasks[t].queue
        /\ Completed(tasks[t]).status = "succeeded" /\ Completed(tasks[t]).queue = tasks[t].queue
    BY <2>2 DEF Claimed, Completed, Row
  <2>4. \A delay \in Nat : /\ Failed(tasks[t], delay).status \in {"dead", "pending"}
                           /\ Failed(tasks[t], delay).queue = tasks[t].queue
    BY <2>2 DEF Failed, RetryOrDead, Row
  <2>5. /\ Recovered(tasks[t]).status \in {"dead", "pending"}
        /\ Recovered(tasks[t]).queue = tasks[t].queue
    BY <2>2 DEF Recovered, RetryOrDead, Row
  <2>6. /\ Aged(tasks[t]).status = tasks[t].status /\ Aged(tasks[t]).queue = tasks[t].queue
        /\ [tasks[t] EXCEPT !.silence = 0].status = tasks[t].status
        /\ [tasks[t] EXCEPT !.silence = 0].queue = tasks[t].queue
        /\ [tasks[t] EXCEPT !.status = "cancelled"].status = "cancelled"
        /\ [tasks[t] EXCEPT !.status = "cancelled"].queue = tasks[t].queue
    BY <2>2 DEF Aged, Row
  <2> QED BY <2>1, <2>3, <2>4, <2>5, <2>6 DEF RowStep
<1> QED BY <1>1, <1>2

(* The commit of a claim is the atomic claim of the rows it has locked.    *)
LEMMA CommitIsClaim ==
    ASSUME CInv, NEW w \in WorkerIds, CommitClaim(w)
    PROVE  [Next]_vars
<1> DEFINE batch == stmt[w].taken
<1>1. /\ stmt[w] \in Statement /\ batch \in SUBSET TaskIds
      /\ tasks \in [TaskIds -> Row]
  BY DEF CInv, Statement, Inv
<1>2. tasks' = [t \in TaskIds |-> IF t \in batch THEN Claimed(tasks[t], w) ELSE tasks[t]]
  BY DEF CommitClaim
<1>3. CASE batch = {}
  BY <1>1, <1>2, <1>3 DEF vars
<1>4. CASE batch # {}
  <2>1. PICK t \in TaskIds : t \in batch BY <1>1, <1>4
  <2>2. \A u \in batch : Due(u) /\ tasks[u].queue = stmt[w].queue
    BY DEF CInv, LockedRowsStay
  <2>3. stmt[w].queue \in Queues
    <3>1. stmt[w] # NoStatement BY <1>4 DEF NoStatement
    <3> QED BY <3>1 DEF CInv, SnapshotsOK
  <2>4. Claim(w, stmt[w].queue, batch) BY <1>2, <1>4, <2>2 DEF Claim
  <2> QED BY <1>1, <2>3, <2>4 DEF Next
<1> QED BY <1>3, <1>4

(* Every step of the finer specification is a step of TaskStore, or none.  *)
LEMMA StepsMap ==
    ASSUME CInv, [CNext]_cvars
    PROVE  [Next]_vars
<1>1. CASE UNCHANGED cvars BY <1>1 DEF cvars, vars
<1>2. ASSUME NEW w \in WorkerIds, Poll(w) \/ AbortClaim(w) \/ \E t \in TaskIds : LockNext(w, t)
      PROVE  [Next]_vars
  BY <1>2 DEF Poll, BeginClaim, AbortClaim, LockNext, vars
<1>3. ASSUME NEW w \in WorkerIds, CommitClaim(w) PROVE [Next]_vars
  BY <1>3, CommitIsClaim
<1>4. ASSUME NEW t \in TaskIds, NEW q \in Queues, NEW k \in IdempotencyKeys \cup {NULL},
             NEW delay \in RunAtDelays, NEW max \in MaxAttemptsChoices,
             Submitted(t, q, k, delay, max)
      PROVE  [Next]_vars
  BY <1>4 DEF Submitted, SomeEnqueue, Next
<1>5. ASSUME NEW t \in TaskIds, Cancelled(t) PROVE [Next]_vars
  BY <1>5 DEF Cancelled, Next
<1>6. CASE Reported BY <1>6 DEF Reported, Next
<1>7. CASE Swept BY <1>7 DEF Swept, Next
<1>8. CASE Passed BY <1>8 DEF Passed, Next
<1> QED BY <1>1, <1>2, <1>3, <1>4, <1>5, <1>6, <1>7, <1>8 DEF CNext, ClaimStep

(* The statements other than claims write no row that a claim has locked:  *)
(* an INSERT writes a new one, a cancellation waits, and a report or a     *)
(* sweep writes running rows.                                              *)
LEMMA LockedRowsUntouched ==
    ASSUME CInv, NEW w \in WorkerIds, NEW u \in stmt[w].taken,
           \/ \E t \in TaskIds, q \in Queues, k \in IdempotencyKeys \cup {NULL},
                 delay \in RunAtDelays, max \in MaxAttemptsChoices : Submitted(t, q, k, delay, max)
           \/ \E t \in TaskIds : Cancelled(t)
           \/ Reported \/ Swept
    PROVE  tasks'[u] = tasks[u]
<1>1. /\ u \in TaskIds /\ tasks \in [TaskIds -> Row] /\ RowOK(tasks[u])
      /\ tasks[u].status = "pending"
  BY DEF CInv, Inv, LockedRowsStay, Due, Statement
<1>2. tasks[u].claimed_by = NULL BY <1>1 DEF RowOK
<1>3. ASSUME NEW t \in TaskIds, NEW q \in Queues, NEW k \in IdempotencyKeys \cup {NULL},
             NEW delay \in RunAtDelays, NEW max \in MaxAttemptsChoices,
             Submitted(t, q, k, delay, max)
      PROVE  tasks'[u] = tasks[u]
  BY <1>1, <1>3 DEF Submitted, Enqueue
<1>4. ASSUME NEW t \in TaskIds, Cancelled(t) PROVE tasks'[u] = tasks[u]
  BY <1>1, <1>4 DEF Cancelled, Cancel, Locked
<1>5. CASE Reported
  <2>1. ASSUME NEW v \in WorkerIds, NEW t \in TaskIds, Complete(v, t) \/ Fail(v, t)
        PROVE  tasks'[u] = tasks[u]
    <3>1. t # u BY <1>2, <2>1, NullAssumption DEF Complete, Fail, Holds
    <3> QED BY <1>1, <2>1, <3>1 DEF Complete, Fail
  <2>2. ASSUME NEW v \in WorkerIds, NEW ids \in SUBSET TaskIds, Heartbeat(v, ids)
        PROVE  tasks'[u] = tasks[u]
    BY <1>1, <2>2 DEF Heartbeat, Refreshed
  <2> QED BY <1>5, <2>1, <2>2 DEF Reported
<1>6. CASE Swept BY <1>1, <1>6 DEF Swept, RecoverOrphans, Orphaned
<1> QED BY <1>3, <1>4, <1>5, <1>6

(* Every step leaves the statements well-formed and their snapshots true.  *)
LEMMA StatementsStay ==
    ASSUME CInv, [CNext]_cvars
    PROVE  (stmt \in [WorkerIds -> Statement])' /\ SnapshotsOK'
<1>0. /\ Inv /\ stmt \in [WorkerIds -> Statement] /\ SnapshotsOK
      /\ tasks \in [TaskIds -> Row]
  BY DEF CInv, Inv
<1>1. [Next]_vars BY StepsMap
<1>2. \A t \in TaskIds : tasks[t].status # "absent" =>
         tasks'[t].status # "absent" /\ tasks'[t].queue = tasks[t].queue
  BY <1>0, <1>1, RowsStayInQueue
<1>3. ASSUME stmt' = stmt
      PROVE  (stmt \in [WorkerIds -> Statement])' /\ SnapshotsOK'
  BY <1>0, <1>2, <1>3 DEF SnapshotsOK
<1>4. ASSUME NEW w \in WorkerIds, stmt' = [stmt EXCEPT ![w] = NoStatement]
      PROVE  (stmt \in [WorkerIds -> Statement])' /\ SnapshotsOK'
  <2>1. (stmt \in [WorkerIds -> Statement])' BY <1>0, <1>4, NoStatementOK
  <2>2. SnapshotsOK' BY <1>0, <1>2, <1>4 DEF SnapshotsOK, NoStatement
  <2> QED BY <2>1, <2>2
<1>5. ASSUME NEW w \in WorkerIds, NEW q \in Queues, NEW limit \in Limits, BeginClaim(w, q, limit)
      PROVE  (stmt \in [WorkerIds -> Statement])' /\ SnapshotsOK'
  <2> DEFINE rows == [t \in TaskIds |-> IF Due(t) /\ tasks[t].queue = q
                                        THEN tasks[t].attempts ELSE NULL]
             new == [NoStatement EXCEPT !.queue = q, !.limit = limit, !.rows = rows]
  <2>1. rows \in [TaskIds -> Nat \cup {NULL}] BY <1>0 DEF Row
  <2>2. /\ new \in Statement /\ new.queue = q /\ new.rows = rows
    BY <2>1, LimitAssumption DEF NoStatement, Statement
  <2>3. stmt' = [stmt EXCEPT ![w] = new] /\ tasks' = tasks BY <1>5 DEF BeginClaim
  <2>4. (stmt \in [WorkerIds -> Statement])' BY <1>0, <2>2, <2>3
  <2>5. \A v \in WorkerIds : stmt'[v] = IF v = w THEN new ELSE stmt[v]
    BY <1>0, <2>3
  <2>6. \A t \in TaskIds : rows[t] # NULL => tasks[t].status # "absent" /\ tasks[t].queue = q
    BY DEF Due
  <2> HIDE DEF rows, new
  <2>7. SnapshotsOK' BY <1>0, <2>2, <2>3, <2>5, <2>6 DEF SnapshotsOK
  <2> QED BY <2>4, <2>7
<1>6. ASSUME NEW w \in WorkerIds, NEW t \in TaskIds, LockNext(w, t)
      PROVE  (stmt \in [WorkerIds -> Statement])' /\ SnapshotsOK'
  <2>1. /\ stmt[w] # NoStatement /\ tasks' = tasks
        /\ stmt' = [stmt EXCEPT ![w] =
              IF Locked(t) THEN [stmt[w] EXCEPT !.passed = stmt[w].passed \cup {t}]
                           ELSE [stmt[w] EXCEPT !.taken = stmt[w].taken \cup {t}]]
    BY <1>6 DEF LockNext, Open
  <2>2. stmt[w] \in Statement BY <1>0
  <2>3. /\ stmt'[w] \in Statement
        /\ stmt'[w].queue = stmt[w].queue /\ stmt'[w].rows = stmt[w].rows
    BY <1>0, <2>1, <2>2 DEF Statement
  <2>4. \A v \in WorkerIds : v # w => stmt'[v] = stmt[v] BY <1>0, <2>1
  <2>5. (stmt \in [WorkerIds -> Statement])' BY <1>0, <2>1, <2>3, <2>4
  <2>6. stmt[w].queue \in Queues BY <1>0, <2>1 DEF SnapshotsOK
  <2>7. SnapshotsOK' BY <1>0, <2>1, <2>3, <2>4, <2>6 DEF SnapshotsOK
  <2> QED BY <2>5, <2>7
<1>7. CASE UNCHANGED cvars BY <1>3, <1>7 DEF cvars
<1>8. ASSUME NEW w \in WorkerIds, Poll(w) \/ ClaimStep(w) \/ AbortClaim(w)
      PROVE  (stmt \in [WorkerIds -> Statement])' /\ SnapshotsOK'
  BY <1>4, <1>5, <1>6, <1>8 DEF Poll, ClaimStep, AbortClaim, CommitClaim
<1>9. ASSUME \/ \E t \in TaskIds, q \in Queues, k \in IdempotencyKeys \cup {NULL},
                  delay \in RunAtDelays, max \in MaxAttemptsChoices : Submitted(t, q, k, delay, max)
             \/ \E t \in TaskIds : Cancelled(t)
             \/ Reported \/ Swept \/ Passed
      PROVE  stmt' = stmt
  BY <1>9 DEF Submitted, Cancelled, Reported, Swept, Passed
<1> QED BY <1>3, <1>7, <1>8, <1>9 DEF CNext

(* Every step leaves the locked rows as their claims found them.           *)
LEMMA LocksStay ==
    ASSUME CInv, [CNext]_cvars
    PROVE  LockedRowsStay'
<1>0. /\ stmt \in [WorkerIds -> Statement] /\ SnapshotsOK /\ LockedRowsStay
      /\ tasks \in [TaskIds -> Row]
  BY DEF CInv, Inv
<1>1. ASSUME stmt' = stmt,
             \A w \in WorkerIds : \A u \in stmt[w].taken : tasks'[u] = tasks[u]
      PROVE  LockedRowsStay'
  BY <1>0, <1>1 DEF LockedRowsStay, Due
<1>2. CASE UNCHANGED cvars BY <1>1, <1>2 DEF cvars
<1>3. ASSUME NEW w \in WorkerIds, stmt' = [stmt EXCEPT ![w] = NoStatement],
             \A v \in WorkerIds \ {w} : \A u \in stmt[v].taken : tasks'[u] = tasks[u]
      PROVE  LockedRowsStay'
  <2>1. stmt'[w].taken = {} /\ \A v \in WorkerIds \ {w} : stmt'[v] = stmt[v]
    BY <1>0, <1>3 DEF NoStatement
  <2> QED BY <1>0, <1>3, <2>1 DEF LockedRowsStay, Due
<1>4. ASSUME NEW w \in WorkerIds, AbortClaim(w) PROVE LockedRowsStay'
  BY <1>3, <1>4 DEF AbortClaim
<1>5. ASSUME NEW w \in WorkerIds, CommitClaim(w) PROVE LockedRowsStay'
  <2>1. ASSUME NEW v \in WorkerIds \ {w}, NEW u \in stmt[v].taken PROVE tasks'[u] = tasks[u]
    <3>1. u \notin stmt[w].taken /\ u \in TaskIds BY <1>0 DEF LockedRowsStay, Statement
    <3> QED BY <1>5, <3>1 DEF CommitClaim
  <2> QED BY <1>3, <1>5, <2>1 DEF CommitClaim
<1>6. ASSUME NEW w \in WorkerIds, NEW q \in Queues, NEW limit \in Limits, BeginClaim(w, q, limit)
      PROVE  LockedRowsStay'
  <2>1. stmt'[w].taken = {} /\ \A v \in WorkerIds \ {w} : stmt'[v] = stmt[v]
    BY <1>0, <1>6 DEF BeginClaim, NoStatement
  <2>2. tasks' = tasks BY <1>6 DEF BeginClaim
  <2> QED BY <1>0, <2>1, <2>2 DEF LockedRowsStay, Due
<1>7. ASSUME NEW w \in WorkerIds, NEW t \in TaskIds, LockNext(w, t) PROVE LockedRowsStay'
  <2>1. /\ tasks' = tasks /\ t \in Remaining(w)
        /\ stmt' = [stmt EXCEPT ![w] =
              IF Locked(t) THEN [stmt[w] EXCEPT !.passed = stmt[w].passed \cup {t}]
                           ELSE [stmt[w] EXCEPT !.taken = stmt[w].taken \cup {t}]]
    BY <1>7 DEF LockNext
  <2>2. stmt[w] \in Statement BY <1>0
  <2>3. /\ stmt'[w].rows = stmt[w].rows /\ stmt'[w].queue = stmt[w].queue
        /\ stmt'[w].taken = IF Locked(t) THEN stmt[w].taken ELSE stmt[w].taken \cup {t}
        /\ \A v \in WorkerIds \ {w} : stmt'[v] = stmt[v]
    BY <1>0, <2>1, <2>2 DEF Statement
  <2>4. Due(t) /\ tasks[t].attempts = stmt[w].rows[t] /\ tasks[t].queue = stmt[w].queue
    BY <1>0, <2>1 DEF Remaining, Current, Snapshot, SnapshotsOK
  <2>5. CASE Locked(t)
    BY <1>0, <2>1, <2>3, <2>5 DEF LockedRowsStay, Due
  <2>6. CASE ~Locked(t)
    <3>1. \A v \in WorkerIds : t \notin stmt[v].taken BY <2>6 DEF Locked
    <3>2. \A v \in WorkerIds : stmt'[v].rows = stmt[v].rows /\ stmt'[v].queue = stmt[v].queue
      BY <2>3
    <3>3. \A v \in WorkerIds : \A u : u \in stmt'[v].taken <=> u \in stmt[v].taken \/ (v = w /\ u = t)
      BY <2>3, <2>6
    <3>4. \A u \in TaskIds : Due(u)' <=> Due(u) BY <2>1 DEF Due
    <3>5. \A v \in WorkerIds : \A u \in stmt'[v].taken :
             /\ Due(u) /\ tasks[u].queue = stmt[v].queue
             /\ tasks[u].attempts = stmt[v].rows[u] /\ u \in TaskIds
      <4> SUFFICES ASSUME NEW v \in WorkerIds, NEW u \in stmt'[v].taken
                   PROVE  /\ Due(u) /\ tasks[u].queue = stmt[v].queue
                          /\ tasks[u].attempts = stmt[v].rows[u] /\ u \in TaskIds
        OBVIOUS
      <4>1. CASE u \in stmt[v].taken BY <1>0, <4>1 DEF LockedRowsStay, Statement
      <4>2. CASE v = w /\ u = t BY <2>4, <4>2
      <4> QED BY <3>3, <4>1, <4>2
    <3>6. \A v \in WorkerIds : \A u \in stmt'[v].taken :
             \A x \in WorkerIds \ {v} : u \notin stmt'[x].taken
      <4> SUFFICES ASSUME NEW v \in WorkerIds, NEW x \in WorkerIds \ {v},
                          NEW u \in stmt'[v].taken, u \in stmt'[x].taken
                   PROVE  FALSE
        OBVIOUS
      <4>1. u # t BY <3>1, <3>3
      <4>2. u \in stmt[v].taken /\ u \in stmt[x].taken BY <3>3, <4>1
      <4> QED BY <1>0, <4>2 DEF LockedRowsStay
    <3> QED BY <2>1, <3>2, <3>4, <3>5, <3>6 DEF LockedRowsStay
  <2> QED BY <2>5, <2>6
<1>8. ASSUME \/ \E t \in TaskIds, q \in Queues, k \in IdempotencyKeys \cup {NULL},
                  delay \in RunAtDelays, max \in MaxAttemptsChoices : Submitted(t, q, k, delay, max)
             \/ \E t \in TaskIds : Cancelled(t)
             \/ Reported \/ Swept
      PROVE  LockedRowsStay'
  <2>1. stmt' = stmt BY <1>8 DEF Submitted, Cancelled, Reported, Swept
  <2>2. \A w \in WorkerIds : \A u \in stmt[w].taken : tasks'[u] = tasks[u]
    BY <1>8, LockedRowsUntouched
  <2> QED BY <1>1, <2>1, <2>2
<1>9. CASE Passed
  <2>1. stmt' = stmt /\ \A w \in WorkerIds : stmt[w].taken = {}
    BY <1>9 DEF Passed, Open, NoStatement
  <2> QED BY <2>1 DEF LockedRowsStay
<1> QED BY <1>2, <1>4, <1>5, <1>6, <1>7, <1>8, <1>9 DEF CNext, ClaimStep, Poll

LEMMA CNextInv == CInv /\ [CNext]_cvars => CInv'
<1> SUFFICES ASSUME CInv, [CNext]_cvars PROVE CInv' OBVIOUS
<1>1. Inv' BY StepsMap, NextInv DEF CInv
<1> QED BY <1>1, StatementsStay, LocksStay DEF CInv

(* LockedRowsStay: a locked row belongs to one claim, which finds it at    *)
(* its commit as it was when the lock was taken.                           *)
THEOREM RowLocksHold == CSpec => []LockedRowsStay
<1>1. CSpec => []CInv BY CInitInv, CNextInv, PTL DEF CSpec
<1>2. CInv => LockedRowsStay BY DEF CInv
<1> QED BY <1>1, <1>2, PTL

(* StoreSpec: the claim statement, taken apart, implements the atomic      *)
(* claim, so every property proved of TaskStore holds of it as well: no    *)
(* two workers are handed the same task.                                   *)
THEOREM ClaimIsAtomic == CSpec => StoreSpec
<1>1. CInit => Init BY DEF CInit
<1>2. CInv /\ [CNext]_cvars => [Next]_vars BY StepsMap
<1> QED BY <1>1, <1>2, CInitInv, CNextInv, PTL DEF CSpec, StoreSpec, Spec

-----------------------------------------------------------------------------
(* NobodyOvertaken.  A row of a snapshot is still due as the snapshot has  *)
(* it, or has been cancelled, or has been claimed, and then its attempts   *)
(* never come back to what they were: what a claim has yet to go through   *)
(* only ever gets less.                                                    *)
SnapshotsAge ==
    \A w \in WorkerIds : \A u \in Snapshot(w) :
        \/ tasks[u].attempts > stmt[w].rows[u]
        \/ /\ tasks[u].attempts = stmt[w].rows[u]
           /\ Due(u) \/ tasks[u].status = "cancelled"

(* Nothing that remains comes before anything that was taken.              *)
TakenFirst ==
    \A w \in WorkerIds : \A t \in stmt[w].taken, u \in Remaining(w) : ~Before(u, t)

OInv == CInv /\ SnapshotsAge /\ TakenFirst

(* How a row that is not new ages in one step.                             *)
LEMMA RowAges ==
    ASSUME Inv, [Next]_vars, NEW u \in TaskIds, NEW n \in Nat, tasks[u].status # "absent",
           \/ tasks[u].attempts > n
           \/ tasks[u].attempts = n /\ (Due(u) \/ tasks[u].status = "cancelled")
    PROVE  \/ tasks'[u].attempts > n
           \/ /\ tasks'[u].attempts = n /\ tasks[u].attempts = n
              /\ (Due(u)' /\ Due(u)) \/ tasks'[u].status = "cancelled"
<1>1. CASE UNCHANGED vars BY <1>1 DEF vars, Due
<1>2. CASE Next
  <2>1. RowStep(u) BY <1>2, StepPerRow
  <2>2. tasks[u] \in Row /\ tasks[u].attempts \in Nat BY DEF Inv, Row
  <2>3. \A w \in WorkerIds : Claimed(tasks[u], w).attempts = tasks[u].attempts + 1
    BY <2>2 DEF Claimed, Row
  <2>4. Completed(tasks[u]).attempts = tasks[u].attempts BY <2>2 DEF Completed, Row
  <2>5. \A delay \in Nat : Failed(tasks[u], delay).attempts = tasks[u].attempts
    BY <2>2 DEF Failed, RetryOrDead, Row
  <2>6. Recovered(tasks[u]).attempts = tasks[u].attempts BY <2>2 DEF Recovered, RetryOrDead, Row
  <2>7. /\ Aged(tasks[u]).attempts = tasks[u].attempts
        /\ Aged(tasks[u]).status = tasks[u].status
        /\ tasks[u].due_in = 0 => Aged(tasks[u]).due_in = 0
        /\ [tasks[u] EXCEPT !.silence = 0].attempts = tasks[u].attempts
        /\ [tasks[u] EXCEPT !.status = "cancelled"].attempts = tasks[u].attempts
        /\ [tasks[u] EXCEPT !.status = "cancelled"].status = "cancelled"
    BY <2>2 DEF Aged, Row
  <2>8. tasks[u].claimed_by # NULL => tasks[u].status = "running"
    BY DEF Inv, RowOK
  <2>9. CASE tasks[u].attempts > n
    <3>1. \/ tasks'[u].attempts = tasks[u].attempts
          \/ tasks'[u].attempts = tasks[u].attempts + 1
      BY <2>1, <2>3, <2>4, <2>5, <2>6, <2>7 DEF RowStep
    <3> QED BY <2>2, <2>9, <3>1
  <2>10. CASE tasks[u].attempts = n /\ tasks[u].status = "cancelled"
    <3>1. tasks'[u] = tasks[u] \/ tasks'[u] = Aged(tasks[u])
      BY <2>1, <2>8, <2>10 DEF RowStep, Orphaned
    <3> QED BY <2>7, <2>10, <3>1
  <2>11. CASE tasks[u].attempts = n /\ Due(u)
    <3>1. \/ tasks'[u] = tasks[u] \/ tasks'[u] = Aged(tasks[u])
          \/ tasks'[u] = [tasks[u] EXCEPT !.status = "cancelled"]
          \/ \E w \in WorkerIds : tasks'[u] = Claimed(tasks[u], w)
      BY <2>1, <2>8, <2>11 DEF RowStep, Orphaned, Due
    <3>2. CASE \E w \in WorkerIds : tasks'[u] = Claimed(tasks[u], w)
      <4>1. tasks'[u].attempts = n + 1 BY <2>3, <2>11, <3>2
      <4> QED BY <4>1
    <3>3. CASE tasks'[u] = tasks[u] \/ tasks'[u] = Aged(tasks[u]) BY <2>7, <2>11, <3>3 DEF Due
    <3>4. CASE tasks'[u] = [tasks[u] EXCEPT !.status = "cancelled"] BY <2>7, <2>11, <3>4
    <3> QED BY <3>1, <3>2, <3>3, <3>4
  <2> QED BY <2>9, <2>10, <2>11
<1> QED BY <1>1, <1>2

(* While a claim stays as it is, what remains to it only gets less.        *)
LEMMA RemainingShrinks ==
    ASSUME OInv, [Next]_vars, NEW w \in WorkerIds, stmt'[w] = stmt[w]
    PROVE  /\ Remaining(w)' \subseteq Remaining(w)
           /\ Snapshot(w)' = Snapshot(w)
           /\ \A u \in Snapshot(w) :
                 \/ tasks'[u].attempts > stmt[w].rows[u]
                 \/ /\ tasks'[u].attempts = stmt[w].rows[u]
                    /\ Due(u)' \/ tasks'[u].status = "cancelled"
<1>1. Snapshot(w)' = Snapshot(w) BY DEF Snapshot
<1>2. ASSUME NEW u \in Snapshot(w)
      PROVE  \/ tasks'[u].attempts > stmt[w].rows[u]
             \/ /\ tasks'[u].attempts = stmt[w].rows[u] /\ tasks[u].attempts = stmt[w].rows[u]
                /\ (Due(u)' /\ Due(u)) \/ tasks'[u].status = "cancelled"
  <2>1. /\ Inv /\ u \in TaskIds /\ stmt[w].rows[u] \in Nat /\ tasks[u].status # "absent"
    BY DEF OInv, CInv, Snapshot, Statement, SnapshotsOK
  <2>2. \/ tasks[u].attempts > stmt[w].rows[u]
        \/ tasks[u].attempts = stmt[w].rows[u] /\ (Due(u) \/ tasks[u].status = "cancelled")
    BY DEF OInv, SnapshotsAge
  <2> QED BY <2>1, <2>2, RowAges
<1>3. ASSUME NEW u \in Remaining(w)' PROVE u \in Remaining(w)
  <2>1. /\ u \in Snapshot(w) /\ u \notin stmt[w].taken \cup stmt[w].passed
        /\ Due(u)' /\ tasks'[u].attempts = stmt[w].rows[u]
    BY <1>1, <1>3 DEF Remaining, Current
  <2>2. stmt[w].rows[u] \in Nat BY <2>1 DEF OInv, CInv, Snapshot, Statement
  <2>3. Due(u) /\ tasks[u].attempts = stmt[w].rows[u] BY <1>2, <2>1, <2>2 DEF Due
  <2> QED BY <2>1, <2>3 DEF Remaining, Current
<1> QED BY <1>1, <1>2, <1>3

(* Rows that were due keep their order, and nobody gets ahead of them who  *)
(* was in a snapshot: a new row was in none.                               *)
LEMMA OrderStays ==
    ASSUME OInv, CNext, NEW w \in WorkerIds, NEW t \in stmt[w].taken, NEW u \in Snapshot(w),
           Before(u, t)'
    PROVE  Before(u, t)
<1>1. /\ t \in TaskIds /\ u \in TaskIds /\ Due(t)
      /\ tasks[u].status # "absent" /\ tasks[t].status # "absent"
  BY DEF OInv, CInv, Snapshot, Statement, SnapshotsOK, LockedRowsStay, Due
<1>2. priority' = priority
  BY DEF CNext, Poll, BeginClaim, ClaimStep, LockNext, CommitClaim, AbortClaim, Submitted,
         Cancelled, Reported, Swept, Passed
<1>3. ASSUME line' = line PROVE Before(u, t) BY <1>2, <1>3 DEF Before, Earlier, EarlierIn
<1>4. ASSUME NEW moved, InLine(moved), <<u, t>> \notin moved PROVE Before(u, t)
  <2>1. Earlier(u, t)' => Earlier(u, t) BY <1>1, <1>4 DEF InLine, Earlier, EarlierIn
  <2> QED BY <1>2, <2>1 DEF Before
<1>5. ASSUME LineUp PROVE Before(u, t)
  <2>1. <<u, t>> \notin TaskIds \X NewlyDue BY <1>1 DEF NewlyDue
  <2> QED BY <1>4, <1>5, <2>1 DEF LineUp
<1>6. ASSUME NEW x \in TaskIds, NEW q \in Queues, NEW k \in IdempotencyKeys \cup {NULL},
             NEW delay \in RunAtDelays, NEW max \in MaxAttemptsChoices,
             Submitted(x, q, k, delay, max)
      PROVE  Before(u, t)
  <2>1. x # u /\ x # t BY <1>1, <1>6 DEF Submitted, Enqueue
  <2>2. <<u, t>> \notin (TaskIds \X {x}) \cup ({x} \X TaskIds) BY <2>1
  <2> QED BY <1>4, <1>6, <2>2 DEF Submitted
<1>7. ASSUME NEW v \in WorkerIds, Poll(v) \/ AbortClaim(v) \/ \E x \in TaskIds : LockNext(v, x)
      PROVE  Before(u, t)
  BY <1>3, <1>7 DEF Poll, BeginClaim, AbortClaim, LockNext
<1>8. ASSUME NEW v \in WorkerIds, CommitClaim(v) PROVE Before(u, t)
  BY <1>5, <1>8 DEF CommitClaim
<1>9. ASSUME (\E x \in TaskIds : Cancelled(x)) \/ Reported \/ Swept \/ Passed PROVE Before(u, t)
  BY <1>5, <1>9 DEF Cancelled, Reported, Swept, Passed
<1> QED BY <1>6, <1>7, <1>8, <1>9 DEF CNext, ClaimStep

(* Hence another's step keeps both facts about a claim.                    *)
LEMMA SameStatement ==
    ASSUME OInv, CNext, NEW w \in WorkerIds, stmt'[w] = stmt[w]
    PROVE  /\ \A u \in Snapshot(w)' :
                 \/ tasks'[u].attempts > stmt'[w].rows[u]
                 \/ /\ tasks'[u].attempts = stmt'[w].rows[u]
                    /\ Due(u)' \/ tasks'[u].status = "cancelled"
           /\ \A t \in stmt'[w].taken, u \in Remaining(w)' : ~Before(u, t)'
<1>1. [Next]_vars BY StepsMap DEF OInv
<1>2. \A u \in Remaining(w)' : u \in Remaining(w) /\ u \in Snapshot(w)
  BY <1>1, RemainingShrinks DEF Remaining
<1>3. \A t \in stmt'[w].taken, u \in Remaining(w)' : ~Before(u, t)'
  <2> SUFFICES ASSUME NEW t \in stmt[w].taken, NEW u \in Remaining(w)', Before(u, t)'
               PROVE  FALSE
    OBVIOUS
  <2>1. Before(u, t) BY <1>2, OrderStays
  <2> QED BY <1>2, <2>1 DEF OInv, TakenFirst
<1> QED BY <1>1, <1>3, RemainingShrinks

LEMMA OvertakingStays ==
    ASSUME OInv, [CNext]_cvars
    PROVE  SnapshotsAge' /\ TakenFirst'
<1> DEFINE Ages(w) == \A u \in Snapshot(w) :
                         \/ tasks[u].attempts > stmt[w].rows[u]
                         \/ /\ tasks[u].attempts = stmt[w].rows[u]
                            /\ Due(u) \/ tasks[u].status = "cancelled"
           First(w) == \A t \in stmt[w].taken, u \in Remaining(w) : ~Before(u, t)
<1> SUFFICES ASSUME NEW w \in WorkerIds PROVE Ages(w)' /\ First(w)'
  BY DEF SnapshotsAge, TakenFirst
<1>0. stmt \in [WorkerIds -> Statement] BY DEF OInv, CInv
<1>1. CASE UNCHANGED cvars
  <2>1. Ages(w) /\ First(w) BY DEF OInv, SnapshotsAge, TakenFirst
  <2> QED BY <1>1, <2>1 DEF cvars, Snapshot, Remaining, Current, Before, Earlier, EarlierIn, Due
<1>2. ASSUME CNext, stmt'[w] = stmt[w] PROVE Ages(w)' /\ First(w)' BY <1>2, SameStatement
<1>3. ASSUME stmt'[w] = NoStatement PROVE Ages(w)' /\ First(w)'
  <2>1. Snapshot(w)' = {} /\ stmt'[w].taken = {} BY <1>3 DEF Snapshot, NoStatement
  <2> QED BY <2>1
<1>4. ASSUME NEW q \in Queues, NEW limit \in Limits, BeginClaim(w, q, limit)
      PROVE  Ages(w)' /\ First(w)'
  <2> DEFINE rows == [t \in TaskIds |-> IF Due(t) /\ tasks[t].queue = q
                                        THEN tasks[t].attempts ELSE NULL]
  <2>1. stmt'[w].taken = {} /\ stmt'[w].rows = rows /\ tasks' = tasks
    BY <1>0, <1>4 DEF BeginClaim, NoStatement
  <2>2. \A u \in Snapshot(w)' : Due(u)' /\ tasks'[u].attempts = stmt'[w].rows[u]
    BY <2>1 DEF Snapshot, Due
  <2> QED BY <2>1, <2>2
<1>5. ASSUME NEW t \in TaskIds, LockNext(w, t) PROVE Ages(w)' /\ First(w)'
  <2>1. /\ tasks' = tasks /\ priority' = priority /\ line' = line
        /\ t \in Remaining(w) /\ \A u \in Remaining(w) : ~Before(u, t)
        /\ stmt' = [stmt EXCEPT ![w] =
              IF Locked(t) THEN [stmt[w] EXCEPT !.passed = stmt[w].passed \cup {t}]
                           ELSE [stmt[w] EXCEPT !.taken = stmt[w].taken \cup {t}]]
    BY <1>5 DEF LockNext
  <2>2. /\ stmt'[w].rows = stmt[w].rows /\ stmt'[w].taken \subseteq stmt[w].taken \cup {t}
        /\ stmt[w].taken \subseteq stmt'[w].taken /\ stmt[w].passed \subseteq stmt'[w].passed
    BY <1>0, <2>1 DEF Statement
  <2>3. Snapshot(w)' = Snapshot(w) /\ \A u : Due(u)' = Due(u) BY <2>1, <2>2 DEF Snapshot, Due
  <2>4. Ages(w)' BY <2>1, <2>2, <2>3 DEF OInv, SnapshotsAge
  <2>5. Remaining(w)' \subseteq Remaining(w) BY <2>1, <2>2, <2>3 DEF Remaining, Current
  <2>6. \A u, x : Before(u, x)' = Before(u, x) BY <2>1 DEF Before, Earlier, EarlierIn
  <2>7. First(w)' BY <2>1, <2>2, <2>5, <2>6 DEF OInv, TakenFirst
  <2> QED BY <2>4, <2>7
<1>6. ASSUME NEW v \in WorkerIds \ {w}, Poll(v) \/ ClaimStep(v) \/ AbortClaim(v)
      PROVE  stmt'[w] = stmt[w]
  BY <1>0, <1>6 DEF Poll, BeginClaim, ClaimStep, LockNext, CommitClaim, AbortClaim
<1>7. ASSUME Poll(w) \/ ClaimStep(w) \/ AbortClaim(w) PROVE Ages(w)' /\ First(w)'
  <2>1. CASE CommitClaim(w) \/ AbortClaim(w)
    <3>1. stmt'[w] = NoStatement BY <1>0, <2>1 DEF CommitClaim, AbortClaim
    <3> QED BY <1>3, <3>1
  <2> QED BY <1>4, <1>5, <1>7, <2>1 DEF Poll, ClaimStep
<1>8. ASSUME \/ \E t \in TaskIds, q \in Queues, k \in IdempotencyKeys \cup {NULL},
                  delay \in RunAtDelays, max \in MaxAttemptsChoices : Submitted(t, q, k, delay, max)
             \/ \E t \in TaskIds : Cancelled(t)
             \/ Reported \/ Swept \/ Passed
      PROVE  stmt'[w] = stmt[w]
  BY <1>8 DEF Submitted, Cancelled, Reported, Swept, Passed
<1> HIDE DEF Ages, First
<1>9. CASE CNext BY <1>2, <1>6, <1>7, <1>8, <1>9 DEF CNext
<1> QED BY <1>1, <1>9

(* NobodyOvertaken: what a claim leaves behind it leaves for its limit     *)
(* alone, and for rows that come first; for any number of rows, workers,   *)
(* priorities and limits.                                                  *)
THEOREM ClaimsInOrder == CSpec => NobodyOvertaken
<1>1. CInit => OInv
  <2> SUFFICES ASSUME CInit PROVE OInv OBVIOUS
  <2>1. \A w \in WorkerIds : Snapshot(w) = {} /\ stmt[w].taken = {}
    BY DEF CInit, NoStatement, Snapshot
  <2> QED BY <2>1, CInitInv DEF OInv, SnapshotsAge, TakenFirst
<1>2. OInv /\ [CNext]_cvars => OInv' BY CNextInv, OvertakingStays DEF OInv
<1> DEFINE Kept == \A w \in WorkerIds : CommitClaim(w) =>
                      \A u \in LeftBehind(w) :
                         /\ Cardinality(stmt[w].taken) = stmt[w].limit
                         /\ \A t \in stmt[w].taken :
                               /\ priority[u] <= priority[t]
                               /\ priority[u] = priority[t] => ~Earlier(u, t)
<1>3. ASSUME OInv, priority \in [TaskIds -> Int] PROVE Kept
  <2> SUFFICES ASSUME NEW w \in WorkerIds, CommitClaim(w), NEW u \in LeftBehind(w)
               PROVE  /\ Cardinality(stmt[w].taken) = stmt[w].limit
                      /\ \A t \in stmt[w].taken :
                            /\ priority[u] <= priority[t]
                            /\ priority[u] = priority[t] => ~Earlier(u, t)
    OBVIOUS
  <2>1. u \in Remaining(w) BY DEF LeftBehind, Remaining, Current
  <2>2. Full(w) BY <2>1 DEF CommitClaim
  <2>3. ASSUME NEW t \in stmt[w].taken
        PROVE  priority[u] <= priority[t] /\ (priority[u] = priority[t] => ~Earlier(u, t))
    <3>1. ~Before(u, t) BY <1>3, <2>1 DEF OInv, TakenFirst
    <3>2. u \in TaskIds /\ t \in TaskIds BY <1>3, <2>1 DEF OInv, CInv, Statement, Remaining, Snapshot
    <3>3. priority[u] \in Int /\ priority[t] \in Int BY <1>3, <3>2
    <3> QED BY <3>1, <3>3 DEF Before
  <2> QED BY <2>2, <2>3 DEF Full
<1>4. CInit => priority \in [TaskIds -> Int] BY PriorityAssumption DEF CInit
<1>5. priority \in [TaskIds -> Int] /\ [CNext]_cvars => (priority \in [TaskIds -> Int])'
  BY DEF CNext, Poll, BeginClaim, ClaimStep, LockNext, CommitClaim, AbortClaim, Submitted,
         Cancelled, Reported, Swept, Passed, cvars
<1>6. OInv /\ priority \in [TaskIds -> Int] => Kept BY <1>3
<1> QED BY <1>1, <1>2, <1>4, <1>5, <1>6, PTL DEF CSpec, NobodyOvertaken
=============================================================================
