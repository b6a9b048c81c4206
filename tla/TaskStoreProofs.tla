--------------------------- MODULE TaskStoreProofs ---------------------------
(***************************************************************************)
(* The safety properties of TaskStore for every value of its constants.    *)
(* The invariants speak of one row at a time, so the inductive invariant   *)
(* is a predicate on rows, RowOK, and each statement is shown to preserve  *)
(* it in a lemma about the row it writes.                                  *)
(***************************************************************************)
EXTENDS TaskStore, TLAPS

(* The conjuncts of ClaimConsistent, RetryBudget and OutcomeJustified for  *)
(* one row.  The budget of a row that was submitted is positive, which     *)
(* RetryBudget needs when the row is inserted.                             *)
RowOK(row) ==
    /\ row \in Row
    /\ row.claimed_by # NULL <=> row.status = "running"
    /\ row.status = "running" => row.silence # NULL
    /\ row.attempts <= row.max_attempts
    /\ row.status = "pending" => row.attempts < row.max_attempts
    /\ row.status = "dead" => /\ row.attempts = row.max_attempts
                              /\ row.last_error # "none"
    /\ row.status = "succeeded" => row.attempts > 0
    /\ row.status = "running" => row.attempts > 0

(* The inductive invariant: well-formed rows.                              *)
Inv == tasks \in [TaskIds -> Row] /\ \A t \in TaskIds : RowOK(tasks[t])

(* An id that no statement has used yet holds a well-formed row.           *)
LEMMA NoRowOK == RowOK(NoRow)
BY BudgetAssumption
   DEF RowOK, NoRow, Row, Statuses, LastErrors

(* enqueueSQL inserts a well-formed pending row.                           *)
LEMMA InsertedOK ==
    ASSUME NEW q \in Queues, NEW k \in IdempotencyKeys \cup {NULL},
           NEW delay \in RunAtDelays, NEW max \in MaxAttemptsChoices
    PROVE  RowOK(Inserted(q, k, delay, max))
<1> DEFINE r == Inserted(q, k, delay, max)
<1>1. delay \in Nat /\ max \in 1..MaxBudget /\ max \in 0..MaxBudget
  BY BudgetAssumption, DelayAssumption
<1>2. r \in Row
  BY <1>1 DEF Inserted, NoRow, Row, Statuses, LastErrors
<1>3. r.status = "pending" /\ r.claimed_by = NULL /\ r.attempts = 0 /\ r.max_attempts = max
  BY DEF Inserted, NoRow
<1>. QED BY <1>1, <1>2, <1>3, BudgetAssumption DEF RowOK

(* claimSQL keeps a pending row well-formed: its budget had one left.      *)
LEMMA ClaimedOK ==
    ASSUME NEW row, RowOK(row), row.status = "pending", NEW w \in WorkerIds
    PROVE  RowOK(Claimed(row, w))
<1> DEFINE r == Claimed(row, w)
<1>1. r \in Row
  <2>1. row.attempts + 1 \in Nat
    BY DEF RowOK, Row
  <2>2. 0 \in Silences \cup {NULL}
    BY TTLAssumption DEF Silences
  <2>. QED BY <2>1, <2>2 DEF RowOK, Claimed, Row, Statuses
<1>2. /\ r.status = "running" /\ r.claimed_by = w /\ r.silence = 0
      /\ r.attempts = row.attempts + 1 /\ r.max_attempts = row.max_attempts
  BY DEF RowOK, Row, Claimed
<1>3. 0 # NULL /\ w # NULL
  BY NullAssumption
<1>4. row.attempts + 1 <= row.max_attempts /\ row.attempts + 1 > 0
  BY BudgetAssumption DEF RowOK, Row
<1>. QED BY <1>1, <1>2, <1>3, <1>4 DEF RowOK

(* completeSQL keeps a claimed row well-formed.                            *)
LEMMA CompletedOK ==
    ASSUME NEW row, RowOK(row), row.claimed_by # NULL
    PROVE  RowOK(Completed(row))
<1> DEFINE r == Completed(row)
<1>1. r \in Row
  BY DEF RowOK, Completed, Row, Statuses, Terminal
<1>2. /\ r.status = "succeeded" /\ r.claimed_by = NULL
      /\ r.attempts = row.attempts /\ r.max_attempts = row.max_attempts
  BY DEF RowOK, Row, Completed
<1>. QED BY <1>1, <1>2 DEF RowOK

(* The CASE of failSQL and recoverOrphansSQL on a running row: pending     *)
(* with budget left or dead without, and no holder either way.             *)
LEMMA RetryOrDeadFacts ==
    ASSUME NEW row, RowOK(row), row.status = "running", NEW delay \in Nat
    PROVE  LET r == RetryOrDead(row, delay)
           IN  /\ r \in Row
               /\ r.claimed_by = NULL
               /\ r.attempts = row.attempts /\ r.max_attempts = row.max_attempts
               /\ r.silence = row.silence
               /\ r.key = row.key /\ r.queue = row.queue
               /\ \/ r.status = "pending" /\ r.attempts < r.max_attempts
                  \/ r.status = "dead" /\ r.attempts = r.max_attempts
<1> DEFINE r == RetryOrDead(row, delay)
<1>1. row \in Row /\ row.attempts \in Nat /\ row.max_attempts \in Nat /\ row.attempts <= row.max_attempts
  BY BudgetAssumption DEF RowOK, Row
<1>2. CASE Exhausted(row)
  <2>1. r = [row EXCEPT !.status = "dead", !.claimed_by = NULL]
    BY <1>2 DEF RetryOrDead
  <2>2. r \in Row
    BY <1>1, <2>1 DEF Row, Statuses, Terminal
  <2>3. row.attempts = row.max_attempts
    BY <1>1, <1>2 DEF Exhausted
  <2>. QED BY <1>1, <2>1, <2>2, <2>3 DEF Row
<1>3. CASE ~Exhausted(row)
  <2>1. r = [row EXCEPT !.status = "pending", !.claimed_by = NULL, !.due_in = delay]
    BY <1>3 DEF RetryOrDead
  <2>2. r \in Row
    BY <1>1, <2>1 DEF Row, Statuses, Terminal
  <2>3. row.attempts < row.max_attempts
    BY <1>1, <1>3 DEF Exhausted
  <2>. QED BY <1>1, <2>1, <2>2, <2>3 DEF Row
<1>. QED BY <1>2, <1>3

(* failSQL keeps a claimed row well-formed.                                *)
LEMMA FailedOK ==
    ASSUME NEW row, RowOK(row), row.claimed_by # NULL, NEW delay \in Nat
    PROVE  RowOK(Failed(row, delay))
<1> DEFINE m == RetryOrDead(row, delay)
           r == Failed(row, delay)
<1>1. row.status = "running"
  BY DEF RowOK
<1>2. /\ m \in Row /\ m.claimed_by = NULL
      /\ \/ m.status = "pending" /\ m.attempts < m.max_attempts
         \/ m.status = "dead" /\ m.attempts = m.max_attempts
  BY <1>1, RetryOrDeadFacts
<1> HIDE DEF m
<1>3. r = [m EXCEPT !.silence = NULL, !.last_error = "reported"]
  BY DEF Failed, m
<1>4. r \in Row
  BY <1>2, <1>3 DEF Row, LastErrors
<1>5. /\ r.claimed_by = NULL /\ r.last_error = "reported" /\ r.status = m.status
      /\ r.attempts = m.attempts /\ r.max_attempts = m.max_attempts
  BY <1>2, <1>3 DEF Row
<1>6. r.attempts \in Nat /\ r.max_attempts \in Nat
  BY <1>4, BudgetAssumption DEF Row
<1> HIDE DEF r
<1>7. RowOK(r)
  BY <1>2, <1>4, <1>5, <1>6 DEF RowOK
<1>. QED BY <1>7 DEF r

(* recoverOrphansSQL keeps a running row well-formed.                      *)
LEMMA RecoveredOK ==
    ASSUME NEW row, RowOK(row), row.status = "running"
    PROVE  RowOK(Recovered(row))
<1> DEFINE m == RetryOrDead(row, Ceiling[row.attempts])
           r == Recovered(row)
<1>1. Ceiling[row.attempts] \in Nat
  BY BudgetAssumption, CeilingAssumption DEF RowOK, Row
<1>2. /\ m \in Row /\ m.claimed_by = NULL
      /\ \/ m.status = "pending" /\ m.attempts < m.max_attempts
         \/ m.status = "dead" /\ m.attempts = m.max_attempts
  BY <1>1, RetryOrDeadFacts
<1> HIDE DEF m
<1>3. r = [m EXCEPT !.last_error = "orphaned"]
  BY DEF Recovered, m
<1>4. r \in Row
  BY <1>2, <1>3 DEF Row, LastErrors
<1>5. /\ r.claimed_by = NULL /\ r.last_error = "orphaned" /\ r.status = m.status
      /\ r.attempts = m.attempts /\ r.max_attempts = m.max_attempts
  BY <1>2, <1>3 DEF Row
<1>6. r.attempts \in Nat /\ r.max_attempts \in Nat
  BY <1>4, BudgetAssumption DEF Row
<1> HIDE DEF r
<1>7. RowOK(r)
  BY <1>2, <1>4, <1>5, <1>6 DEF RowOK
<1>. QED BY <1>7 DEF r

(* heartbeatSQL keeps a running row well-formed.                           *)
LEMMA BeatenOK ==
    ASSUME NEW row, RowOK(row), row.status = "running"
    PROVE  RowOK([row EXCEPT !.silence = 0])
<1> DEFINE r == [row EXCEPT !.silence = 0]
<1>1. 0 \in Silences \cup {NULL} /\ 0 # NULL
  BY TTLAssumption, NullAssumption DEF Silences
<1>2. r \in Row
  BY <1>1 DEF RowOK, Row
<1>3. /\ r.status = row.status /\ r.claimed_by = row.claimed_by /\ r.silence = 0
      /\ r.attempts = row.attempts /\ r.max_attempts = row.max_attempts
  BY DEF RowOK, Row
<1>. QED BY <1>1, <1>2, <1>3 DEF RowOK

(* cancelSQL keeps a pending row well-formed.                              *)
LEMMA CancelledOK ==
    ASSUME NEW row, RowOK(row), row.status = "pending"
    PROVE  RowOK([row EXCEPT !.status = "cancelled"])
<1> DEFINE r == [row EXCEPT !.status = "cancelled"]
<1>1. r \in Row
  BY DEF RowOK, Row, Statuses, Terminal
<1>2. /\ r.status = "cancelled" /\ r.claimed_by = row.claimed_by
      /\ r.attempts = row.attempts /\ r.max_attempts = row.max_attempts
  BY DEF RowOK, Row
<1>. QED BY <1>1, <1>2 DEF RowOK

(* The passing of time keeps every row well-formed.                        *)
LEMMA AgedOK ==
    ASSUME NEW row, RowOK(row)
    PROVE  RowOK(Aged(row))
<1> DEFINE d == IF row.due_in = 0 THEN 0 ELSE row.due_in - 1
           s == IF row.silence = NULL \/ row.silence = HeartbeatTTL + 1
                THEN row.silence ELSE row.silence + 1
           r == Aged(row)
<1>1. d \in Nat
  BY DEF RowOK, Row
<1>2. s \in Silences \cup {NULL} /\ (row.silence # NULL => s # NULL)
  <2>1. CASE row.silence = NULL
    BY <2>1
  <2>2. CASE row.silence # NULL
    <3>1. row.silence \in 0..(HeartbeatTTL + 1)
      BY <2>2 DEF RowOK, Row, Silences
    <3>2. s \in 0..(HeartbeatTTL + 1)
      BY <2>2, <3>1, TTLAssumption
    <3>3. s # NULL
      BY <3>2, NullAssumption, TTLAssumption
    <3>. QED BY <3>2, <3>3 DEF Silences
  <2>. QED BY <2>1, <2>2
<1> HIDE DEF d, s
<1>3. r = [row EXCEPT !.due_in = d, !.silence = s]
  BY DEF Aged, d, s, RowOK, Row
<1>4. r \in Row
  BY <1>1, <1>2, <1>3 DEF RowOK, Row
<1>5. /\ r.status = row.status /\ r.claimed_by = row.claimed_by /\ r.silence = s
      /\ r.attempts = row.attempts /\ r.max_attempts = row.max_attempts
      /\ r.last_error = row.last_error
  BY <1>3 DEF RowOK, Row
<1> HIDE DEF r
<1>6. RowOK(r)
  BY <1>2, <1>4, <1>5 DEF RowOK
<1>. QED BY <1>6 DEF r

-----------------------------------------------------------------------------
(* A statement that leaves every row well-formed preserves Inv.            *)
LEMMA RewriteKeepsInv ==
    ASSUME tasks' = [t \in TaskIds |-> tasks'[t]], \A t \in TaskIds : RowOK(tasks'[t])
    PROVE  Inv'
BY DEF Inv, RowOK

(* The empty table satisfies the inductive invariant.                      *)
LEMMA InitInv == Init => Inv
<1>1. NoRow \in Row BY NoRowOK DEF RowOK
<1>. QED BY <1>1, NoRowOK DEF Init, Inv

(* Every statement, and the passing of time, preserves it.                 *)
LEMMA NextInv == Inv /\ [Next]_vars => Inv'
<1> SUFFICES ASSUME Inv, [Next]_vars PROVE Inv'
  OBVIOUS
<1>0. /\ tasks \in [TaskIds -> Row]
      /\ \A t \in TaskIds : RowOK(tasks[t])
      /\ tasks = [t \in TaskIds |-> tasks[t]]
  BY DEF Inv
<1>1. ASSUME NEW t \in TaskIds, NEW q \in Queues, NEW k \in IdempotencyKeys \cup {NULL},
             NEW delay \in RunAtDelays, NEW max \in MaxAttemptsChoices,
             Enqueue(t, q, k, delay, max)
      PROVE  Inv'
  <2>1. tasks' = [u \in TaskIds |-> IF u = t THEN Inserted(q, k, delay, max) ELSE tasks[u]]
    BY <1>0, <1>1 DEF Enqueue
  <2>2. \A u \in TaskIds : RowOK(tasks'[u])
    BY <1>0, <2>1, InsertedOK
  <2>. QED BY <2>1, <2>2, RewriteKeepsInv
<1>2. ASSUME NEW w \in WorkerIds, NEW q \in Queues, NEW batch \in SUBSET TaskIds,
             Claim(w, q, batch)
      PROVE  Inv'
  <2>1. tasks' = [t \in TaskIds |-> IF t \in batch THEN Claimed(tasks[t], w) ELSE tasks[t]]
    BY <1>2 DEF Claim
  <2>2. \A t \in batch : tasks[t].status = "pending"
    BY <1>2 DEF Claim, Due
  <2>3. \A t \in TaskIds : RowOK(tasks'[t])
    BY <1>0, <2>1, <2>2, ClaimedOK
  <2>. QED BY <2>1, <2>3, RewriteKeepsInv
<1>3. ASSUME NEW w \in WorkerIds, NEW ids \in SUBSET TaskIds, Heartbeat(w, ids)
      PROVE  Inv'
  <2>1. tasks' = [t \in TaskIds |-> IF t \in Refreshed(w, ids)
                                    THEN [tasks[t] EXCEPT !.silence = 0] ELSE tasks[t]]
    BY <1>3 DEF Heartbeat
  <2>2. \A t \in Refreshed(w, ids) : t \in TaskIds /\ tasks[t].status = "running"
    BY DEF Refreshed
  <2>3. \A t \in TaskIds : RowOK(tasks'[t])
    BY <1>0, <2>1, <2>2, BeatenOK
  <2>. QED BY <2>1, <2>3, RewriteKeepsInv
<1>4. ASSUME NEW w \in WorkerIds, NEW t \in TaskIds, Complete(w, t)
      PROVE  Inv'
  <2>1. tasks[t].claimed_by # NULL
    BY <1>4, NullAssumption DEF Complete, Holds
  <2>2. tasks' = [u \in TaskIds |-> IF u = t THEN Completed(tasks[t]) ELSE tasks[u]]
    BY <1>0, <1>4 DEF Complete
  <2>3. \A u \in TaskIds : RowOK(tasks'[u])
    BY <1>0, <2>1, <2>2, CompletedOK
  <2>. QED BY <2>2, <2>3, RewriteKeepsInv
<1>5. ASSUME NEW w \in WorkerIds, NEW t \in TaskIds, Fail(w, t)
      PROVE  Inv'
  <2>1. tasks[t].claimed_by # NULL
    BY <1>5, NullAssumption DEF Fail, Holds
  <2>2. PICK delay \in 0..Ceiling[tasks[t].attempts] :
           tasks' = [tasks EXCEPT ![t] = Failed(tasks[t], delay)]
    BY <1>5 DEF Fail
  <2>3. delay \in Nat
    BY <1>0, BudgetAssumption, CeilingAssumption DEF RowOK, Row
  <2>4. tasks' = [u \in TaskIds |-> IF u = t THEN Failed(tasks[t], delay) ELSE tasks[u]]
    BY <1>0, <2>2
  <2>5. \A u \in TaskIds : RowOK(tasks'[u])
    BY <1>0, <2>1, <2>3, <2>4, FailedOK
  <2>. QED BY <2>4, <2>5, RewriteKeepsInv
<1>6. ASSUME NEW t \in TaskIds, Cancel(t)
      PROVE  Inv'
  <2>1. tasks' = [u \in TaskIds |-> IF u = t THEN [tasks[t] EXCEPT !.status = "cancelled"]
                                    ELSE tasks[u]]
    BY <1>0, <1>6 DEF Cancel
  <2>2. \A u \in TaskIds : RowOK(tasks'[u])
    BY <1>0, <1>6, <2>1, CancelledOK DEF Cancel
  <2>. QED BY <2>1, <2>2, RewriteKeepsInv
<1>7. CASE RecoverOrphans
  <2>1. tasks' = [t \in TaskIds |-> IF Orphaned(tasks[t]) THEN Recovered(tasks[t]) ELSE tasks[t]]
    BY <1>7 DEF RecoverOrphans
  <2>2. \A t \in TaskIds : Orphaned(tasks[t]) => tasks[t].status = "running"
    BY DEF Orphaned
  <2>3. \A t \in TaskIds : RowOK(tasks'[t])
    BY <1>0, <2>1, <2>2, RecoveredOK
  <2>. QED BY <2>1, <2>3, RewriteKeepsInv
<1>8. CASE Elapse
  <2>1. tasks' = [t \in TaskIds |-> Aged(tasks[t])]
    BY <1>8 DEF Elapse
  <2>2. \A t \in TaskIds : RowOK(tasks'[t])
    BY <1>0, <2>1, AgedOK
  <2>. QED BY <2>1, <2>2, RewriteKeepsInv
<1>9. CASE UNCHANGED vars
  BY <1>9 DEF vars, Inv
<1>. QED
  BY <1>1, <1>2, <1>3, <1>4, <1>5, <1>6, <1>7, <1>8, <1>9 DEF Next, SomeEnqueue

(* The inductive invariant holds in every behaviour.                       *)
THEOREM Invariance == Spec => []Inv
BY InitInv, NextInv, PTL DEF Spec

-----------------------------------------------------------------------------
(* TypeOK: every column of every row keeps its type.                       *)
THEOREM TypeCorrect == Spec => []TypeOK
<1>1. Inv => TypeOK
  BY DEF Inv, TypeOK
<1>. QED BY <1>1, Invariance, PTL

(* ClaimConsistent: a row names a holder exactly while it is running.      *)
THEOREM ClaimsConsistent == Spec => []ClaimConsistent
<1>1. Inv => ClaimConsistent
  BY DEF Inv, RowOK, ClaimConsistent
<1>. QED BY <1>1, Invariance, PTL

(* RetryBudget: no task is executed more often than max_attempts, and a    *)
(* pending one may still be executed.                                      *)
THEOREM BudgetKept == Spec => []RetryBudget
<1>1. Inv => RetryBudget
  BY DEF Inv, RowOK, RetryBudget
<1>. QED BY <1>1, Invariance, PTL

(* OutcomeJustified: dead means the budget is spent and the error kept.    *)
THEOREM OutcomesJustified == Spec => []OutcomeJustified
<1>1. Inv => OutcomeJustified
  BY DEF Inv, RowOK, OutcomeJustified
<1>. QED BY <1>1, Invariance, PTL

-----------------------------------------------------------------------------
(* What one step can do to one row.                                        *)
RowStep(t) ==
    \/ tasks'[t] = tasks[t]
    \/ /\ tasks[t].status = "absent"
       /\ \E q \in Queues, k \in IdempotencyKeys \cup {NULL},
             delay \in RunAtDelays, max \in MaxAttemptsChoices :
                tasks'[t] = Inserted(q, k, delay, max)
    \/ tasks[t].status = "pending" /\ \E w \in WorkerIds : tasks'[t] = Claimed(tasks[t], w)
    \/ tasks[t].status = "running" /\ tasks'[t] = [tasks[t] EXCEPT !.silence = 0]
    \/ /\ Complete(tasks[t].claimed_by, t)
       /\ tasks[t].claimed_by # NULL
       /\ tasks'[t] = Completed(tasks[t])
    \/ /\ Fail(tasks[t].claimed_by, t)
       /\ tasks[t].claimed_by # NULL
       /\ \E delay \in Nat : tasks'[t] = Failed(tasks[t], delay)
    \/ tasks[t].status = "pending" /\ tasks'[t] = [tasks[t] EXCEPT !.status = "cancelled"]
    \/ Orphaned(tasks[t]) /\ tasks'[t] = Recovered(tasks[t])
    \/ tasks'[t] = Aged(tasks[t])

(* Every step is, for each row, one of these.                              *)
LEMMA StepPerRow ==
    ASSUME Inv, Next, NEW u \in TaskIds
    PROVE  RowStep(u)
<1>0. /\ tasks \in [TaskIds -> Row]
      /\ \A t \in TaskIds : RowOK(tasks[t])
  BY DEF Inv
<1>1. CASE SomeEnqueue
  BY <1>0, <1>1 DEF SomeEnqueue, Enqueue, RowStep
<1>2. ASSUME NEW w \in WorkerIds, NEW q \in Queues, NEW batch \in SUBSET TaskIds,
             Claim(w, q, batch)
      PROVE  RowStep(u)
  BY <1>2 DEF Claim, Due, RowStep
<1>3. ASSUME NEW w \in WorkerIds, NEW ids \in SUBSET TaskIds, Heartbeat(w, ids)
      PROVE  RowStep(u)
  BY <1>3 DEF Heartbeat, Refreshed, RowStep
<1>4. ASSUME NEW w \in WorkerIds, NEW t \in TaskIds, Complete(w, t)
      PROVE  RowStep(u)
  <2>1. tasks[t].claimed_by = w /\ w # NULL
    BY <1>4, NullAssumption DEF Complete, Holds
  <2>2. CASE u = t
    <3>1. Complete(tasks[u].claimed_by, u)
      BY <1>4, <2>1, <2>2
    <3>2. tasks'[u] = Completed(tasks[u])
      BY <1>0, <1>4, <2>2 DEF Complete
    <3>. QED BY <2>1, <2>2, <3>1, <3>2 DEF RowStep
  <2>3. CASE u # t
    BY <1>0, <1>4, <2>3 DEF Complete, RowStep
  <2>. QED BY <2>2, <2>3
<1>5. ASSUME NEW w \in WorkerIds, NEW t \in TaskIds, Fail(w, t)
      PROVE  RowStep(u)
  <2>1. tasks[t].claimed_by = w /\ w # NULL
    BY <1>5, NullAssumption DEF Fail, Holds
  <2>2. PICK delay \in 0..Ceiling[tasks[t].attempts] :
           tasks' = [tasks EXCEPT ![t] = Failed(tasks[t], delay)]
    BY <1>5 DEF Fail
  <2>3. delay \in Nat
    BY <1>0, BudgetAssumption, CeilingAssumption DEF RowOK, Row
  <2>4. CASE u = t
    <3>1. Fail(tasks[u].claimed_by, u)
      BY <1>5, <2>1, <2>4
    <3>2. tasks'[u] = Failed(tasks[u], delay)
      BY <1>0, <2>2, <2>4
    <3>. QED BY <2>1, <2>3, <2>4, <3>1, <3>2 DEF RowStep
  <2>5. CASE u # t
    BY <1>0, <2>2, <2>5 DEF RowStep
  <2>. QED BY <2>4, <2>5
<1>6. ASSUME NEW t \in TaskIds, Cancel(t)
      PROVE  RowStep(u)
  BY <1>0, <1>6 DEF Cancel, RowStep
<1>7. CASE RecoverOrphans
  BY <1>7 DEF RecoverOrphans, RowStep
<1>8. CASE Elapse
  BY <1>8 DEF Elapse, RowStep
<1>. QED
  BY <1>1, <1>2, <1>3, <1>4, <1>5, <1>6, <1>7, <1>8 DEF Next

(* The columns an Elapse or a heartbeat leaves alone.                      *)
LEMMA TimeOnly ==
    ASSUME NEW row \in Row
    PROVE  /\ Aged(row).status = row.status
           /\ Aged(row).attempts = row.attempts
           /\ Aged(row).max_attempts = row.max_attempts
           /\ Aged(row).claimed_by = row.claimed_by
           /\ Aged(row).last_error = row.last_error
           /\ [row EXCEPT !.silence = 0].status = row.status
           /\ [row EXCEPT !.silence = 0].attempts = row.attempts
           /\ [row EXCEPT !.silence = 0].max_attempts = row.max_attempts
           /\ [row EXCEPT !.silence = 0].claimed_by = row.claimed_by
           /\ [row EXCEPT !.silence = 0].last_error = row.last_error
BY DEF Aged, Row

(* TerminalIsFinal: no later report, sweep or cancellation changes the     *)
(* outcome of a settled task.                                              *)
THEOREM TerminalStays == Spec => TerminalIsFinal
<1>1. ASSUME Inv, [Next]_vars
      PROVE  [\A t \in TaskIds : OutcomeKept(t)]_vars
  <2> SUFFICES ASSUME Next, NEW t \in TaskIds, tasks[t].status \in Terminal
               PROVE  OutcomeKept(t)
    BY <1>1 DEF OutcomeKept
  <2>1. RowOK(tasks[t]) /\ tasks[t] \in Row
    BY <1>1 DEF Inv
  <2>2. RowStep(t)
    BY <1>1, StepPerRow
  <2>3. /\ tasks[t].status \notin {"absent", "pending", "running"}
        /\ tasks[t].claimed_by = NULL
    BY <2>1 DEF Terminal, RowOK
  <2>4. tasks'[t] = tasks[t] \/ tasks'[t] = Aged(tasks[t])
    BY <2>2, <2>3 DEF RowStep, Orphaned
  <2>. QED BY <2>1, <2>4, TimeOnly DEF OutcomeKept
<1>. QED BY <1>1, Invariance, PTL DEF Spec, TerminalIsFinal

(* ClaimEndsByHolderOrSilence: a claim is ended by its holder's report or  *)
(* after a silence longer than the TTL, never by anybody else.             *)
THEOREM ClaimsProtected == Spec => ClaimEndsByHolderOrSilence
<1>1. ASSUME Inv, [Next]_vars
      PROVE  [\A t \in TaskIds : ClaimEndJustified(t)]_vars
  <2> SUFFICES ASSUME Next, NEW t \in TaskIds, tasks[t].claimed_by # NULL,
                      tasks'[t].claimed_by # tasks[t].claimed_by
               PROVE  ClaimEndJustified(t)
    BY <1>1 DEF ClaimEndJustified
  <2>1. RowOK(tasks[t]) /\ tasks[t] \in Row
    BY <1>1 DEF Inv
  <2>2. RowStep(t)
    BY <1>1, StepPerRow
  <2>3. tasks[t].status = "running"
    BY <2>1 DEF RowOK
  <2>4. \/ Complete(tasks[t].claimed_by, t)
        \/ Fail(tasks[t].claimed_by, t)
        \/ Orphaned(tasks[t])
    BY <2>1, <2>2, <2>3, TimeOnly DEF RowStep
  <2>. QED BY <2>4 DEF ClaimEndJustified, Orphaned
<1>. QED BY <1>1, Invariance, PTL DEF Spec, ClaimEndsByHolderOrSilence

-----------------------------------------------------------------------------
Left(row) == row.max_attempts - row.attempts

(* The edge of the lifecycle that each rewrite of a row takes.             *)
LEMMA EdgeOfRow ==
    ASSUME Inv, Next, NEW t \in TaskIds
    PROVE  LET s == tasks[t].status     sp == tasks'[t].status
               n == Left(tasks[t])      np == Left(tasks'[t])
           IN  \/ s = "absent" /\ sp = "pending" /\ np > 0
               \/ s = "pending" /\ n > 0 /\ sp = "running" /\ np = n - 1
               \/ s = "running" /\ sp = "succeeded" /\ np = n
               \/ s = "running" /\ n > 0 /\ sp = "pending" /\ np = n
               \/ s = "running" /\ n = 0 /\ sp = "dead" /\ np = 0
               \/ s = "pending" /\ sp = "cancelled" /\ np = n
               \/ sp = s /\ np = n
<1> DEFINE row == tasks[t]
<1>1. RowOK(row) /\ row \in Row /\ RowStep(t)
  BY StepPerRow DEF Inv
<1>2. row.attempts \in Nat /\ row.max_attempts \in Nat /\ row.attempts <= row.max_attempts
  BY <1>1, BudgetAssumption DEF RowOK, Row
<1>3. CASE tasks'[t] = row
  BY <1>3
<1>4. ASSUME row.status = "absent", NEW q \in Queues, NEW k \in IdempotencyKeys \cup {NULL},
             NEW delay \in RunAtDelays, NEW max \in MaxAttemptsChoices,
             tasks'[t] = Inserted(q, k, delay, max)
      PROVE  tasks'[t].status = "pending" /\ Left(tasks'[t]) > 0
  <2>1. /\ Inserted(q, k, delay, max).status = "pending"
        /\ Inserted(q, k, delay, max).max_attempts = max
        /\ Inserted(q, k, delay, max).attempts = 0
    BY DEF Inserted, NoRow
  <2>2. max \in Nat /\ max > 0
    BY BudgetAssumption
  <2>. QED BY <1>4, <2>1, <2>2 DEF Left
<1>5. ASSUME row.status = "pending", NEW w \in WorkerIds, tasks'[t] = Claimed(row, w)
      PROVE  tasks'[t].status = "running" /\ Left(row) > 0 /\ Left(tasks'[t]) = Left(row) - 1
  <2>1. /\ Claimed(row, w).status = "running"
        /\ Claimed(row, w).attempts = row.attempts + 1
        /\ Claimed(row, w).max_attempts = row.max_attempts
    BY <1>1 DEF Claimed, Row
  <2>2. row.attempts < row.max_attempts
    BY <1>1, <1>5 DEF RowOK
  <2>. QED BY <1>2, <1>5, <2>1, <2>2 DEF Left
<1>6. CASE tasks'[t] = [row EXCEPT !.silence = 0] \/ tasks'[t] = Aged(row)
  BY <1>1, <1>6, TimeOnly DEF Left
<1>7. ASSUME row.claimed_by # NULL, tasks'[t] = Completed(row)
      PROVE  row.status = "running" /\ tasks'[t].status = "succeeded" /\ Left(tasks'[t]) = Left(row)
  <2>1. /\ Completed(row).status = "succeeded"
        /\ Completed(row).attempts = row.attempts
        /\ Completed(row).max_attempts = row.max_attempts
    BY <1>1 DEF Completed, Row
  <2>. QED BY <1>1, <1>7, <2>1 DEF Left, RowOK
<1>8. ASSUME row.status = "running", NEW delay \in Nat,
             \/ tasks'[t] = [RetryOrDead(row, delay) EXCEPT !.last_error = "orphaned"]
             \/ tasks'[t] = [RetryOrDead(row, delay) EXCEPT !.silence = NULL, !.last_error = "reported"]
      PROVE  /\ Left(tasks'[t]) = Left(row)
             /\ \/ Left(row) > 0 /\ tasks'[t].status = "pending"
                \/ Left(row) = 0 /\ tasks'[t].status = "dead"
  <2> DEFINE m == RetryOrDead(row, delay)
  <2>1. /\ m \in Row /\ m.attempts = row.attempts /\ m.max_attempts = row.max_attempts
        /\ \/ m.status = "pending" /\ m.attempts < m.max_attempts
           \/ m.status = "dead" /\ m.attempts = m.max_attempts
    BY <1>1, <1>8, RetryOrDeadFacts
  <2> HIDE DEF m
  <2>2. \/ tasks'[t] = [m EXCEPT !.last_error = "orphaned"]
        \/ tasks'[t] = [m EXCEPT !.silence = NULL, !.last_error = "reported"]
    BY <1>8 DEF m
  <2>3. /\ tasks'[t].status = m.status
        /\ tasks'[t].attempts = m.attempts /\ tasks'[t].max_attempts = m.max_attempts
    BY <2>1, <2>2 DEF Row
  <2>. QED BY <1>2, <2>1, <2>3 DEF Left
<1>9. CASE row.claimed_by # NULL /\ \E delay \in Nat : tasks'[t] = Failed(row, delay)
  <2>1. row.status = "running"
    BY <1>1, <1>9 DEF RowOK
  <2>. QED BY <1>8, <1>9, <2>1 DEF Failed
<1>10. CASE row.status = "pending" /\ tasks'[t] = [row EXCEPT !.status = "cancelled"]
  <2>1. /\ tasks'[t].status = "cancelled"
        /\ tasks'[t].attempts = row.attempts /\ tasks'[t].max_attempts = row.max_attempts
    BY <1>1, <1>10 DEF Row
  <2>. QED BY <1>10, <2>1 DEF Left
<1>11. CASE Orphaned(row) /\ tasks'[t] = Recovered(row)
  <2>1. row.status = "running" /\ Ceiling[row.attempts] \in Nat
    BY <1>1, <1>2, <1>11, BudgetAssumption, CeilingAssumption DEF Orphaned, Row
  <2>. QED BY <1>8, <1>11, <2>1 DEF Recovered
<1>. QED
  BY <1>1, <1>3, <1>4, <1>5, <1>6, <1>7, <1>9, <1>10, <1>11 DEF RowStep

(* LifecycleSpec: whatever the workers, sweepers and clients do, each task *)
(* moves along the edges of the abstract lifecycle and within its budget.  *)
THEOREM Refinement == Spec => LifecycleSpec
<1>1. Init => Lifecycle!LInit
  BY DEF Init, NoRow, Lifecycle!LInit
<1>2. ASSUME Inv, [Next]_vars
      PROVE  [Lifecycle!LNext]_<<[t \in TaskIds |-> tasks[t].status],
                                 [t \in TaskIds |-> tasks[t].max_attempts - tasks[t].attempts]>>
  <2>1. CASE UNCHANGED vars
    BY <2>1 DEF vars
  <2>2. CASE Next
    <3> SUFFICES ASSUME NEW t \in TaskIds
                 PROVE  \/ Lifecycle!Submit(t) \/ Lifecycle!Start(t) \/ Lifecycle!Succeed(t)
                        \/ Lifecycle!Retry(t) \/ Lifecycle!Bury(t) \/ Lifecycle!Withdraw(t)
                        \/ Lifecycle!Rest(t)
      BY DEF Lifecycle!LNext
    <3>. QED
      BY <1>2, <2>2, EdgeOfRow
         DEF Left, Lifecycle!Submit, Lifecycle!Start, Lifecycle!Succeed, Lifecycle!Retry,
             Lifecycle!Bury, Lifecycle!Withdraw, Lifecycle!Rest
  <2>. QED BY <1>2, <2>1, <2>2
<1>. QED BY <1>1, <1>2, Invariance, PTL DEF Spec, LifecycleSpec, Lifecycle!LSpec
=============================================================================
