---------------------------- MODULE WorkerProofs -----------------------------
(***************************************************************************)
(* The worker fleet, the sweeper and the clients implement the task store, *)
(* so what is proved of TaskStore holds of the whole system; and with one  *)
(* slot per worker process the claimed_by guard of completeSQL and failSQL *)
(* is a fence, for any number of workers, tasks and attempts.  A healthy   *)
(* fleet, in which nobody is silent for longer than the TTL, executes a    *)
(* task once at a time, and a process that stops releases what it runs.    *)
(***************************************************************************)
EXTENDS Worker, TaskStoreProofs, FiniteSetTheorems

(* The store statement that each kind of step performs, if any, when it is *)
(* not a Claim, while time stands still; and the passing of time.          *)
StillStep ==
    \/ UNCHANGED tasks
    \/ SomeEnqueue \/ RecoverOrphans
    \/ \E t \in TaskIds : Cancel(t)
    \/ \E w \in WorkerIds, ids \in SUBSET TaskIds : Heartbeat(w, ids)
    \/ \E w \in WorkerIds, t \in TaskIds : Complete(w, t) \/ Fail(w, t)

NoClaimStep == StillStep \/ Elapse

BeatState == [at : {"waiting", "sending", "checking"},
              ids : SUBSET TaskIds, suspect : TaskIds \cup {NULL}]

(* What the worker processes' variables keep: enough to name the holder of *)
(* a dispatch and the entry it is registered under.                        *)
Shape ==
    /\ dispatch \in [Dispatches -> [owner : WorkerIds \cup {NULL},
                                    at : {"none", "received", "handling", "leaving"},
                                    cancelled : BOOLEAN]]
    /\ inFlight \in [WorkerIds -> [TaskIds -> 0..MaxBudget]]
    /\ beat \in [WorkerIds -> BeatState]

-----------------------------------------------------------------------------
(* Every step of the system other than ClaimTasks leaves the table to one  *)
(* of the statements above, or lets time pass.                             *)
LEMMA StillSteps ==
    ASSUME Shape, WNext
    PROVE  StillStep \/ Pass \/ \E w \in WorkerIds : ClaimTasks(w)
<1> USE DEF StillStep
<1>1. ASSUME NEW w \in WorkerIds, RunLoop(w)
      PROVE  StillStep \/ ClaimTasks(w)
  BY <1>1 DEF RunLoop, ClaimReplyLost, StartDispatch, Shutdown, Drained, GraceExpires,
              Release, Released
<1>2. ASSUME NEW w \in WorkerIds, HeartbeatLoop(w)
      PROVE  StillStep
  <2>1. beat[w].ids \in SUBSET TaskIds BY DEF Shape, BeatState
  <2> QED BY <1>2, <2>1 DEF HeartbeatLoop, HeartbeatOnce, Beat, BeatFails, LookUp, CancelSuspect
<1>3. ASSUME NEW w \in WorkerIds, NEW d \in Dispatches, Handler(w, d)
      PROVE  StillStep
  <2>1. d[1] \in TaskIds BY DEF Dispatches
  <2>2. CASE Leave(w, d) BY <2>2 DEF Leave
  <2>3. ASSUME NEW success \in BOOLEAN, Report(w, d, success)
        PROVE  UNCHANGED tasks \/ Complete(w, d[1]) \/ Fail(w, d[1])
    BY <2>3 DEF Report
  <2> QED BY <1>3, <2>1, <2>2, <2>3 DEF Handler
<1>4. ASSUME NEW w \in WorkerIds, Terminate(w) \/ Crash(w)
      PROVE  StillStep
  BY <1>4 DEF Terminate, Crash
<1>5. CASE Submit \/ Sweep
  BY <1>5 DEF Submit, Sweep
<1>6. ASSUME NEW t \in TaskIds, Withdraw(t)
      PROVE  StillStep
  BY <1>6 DEF Withdraw
<1> QED BY <1>1, <1>2, <1>3, <1>4, <1>5, <1>6 DEF WNext

LEMMA StepsOfTheTable ==
    ASSUME Shape, WNext
    PROVE  NoClaimStep \/ \E w \in WorkerIds : ClaimTasks(w)
BY StillSteps DEF NoClaimStep, Pass

(* Each of them is a step of the store, or leaves the table alone.         *)
LEMMA StepsAreStoreSteps ==
    ASSUME Shape, [WNext]_wvars
    PROVE  [Next]_vars
<1>1. CASE NoClaimStep BY <1>1 DEF NoClaimStep, StillStep, Next, vars
<1>2. ASSUME NEW w \in WorkerIds, ClaimTasks(w)
      PROVE  Next
  BY <1>2 DEF ClaimTasks, Next
<1>3. CASE UNCHANGED wvars BY <1>3 DEF wvars, vars
<1> QED BY <1>1, <1>2, <1>3, StepsOfTheTable

-----------------------------------------------------------------------------
(* Shape is kept by every step.                                            *)
LEMMA ShapeInit == WInit => Shape
BY BudgetAssumption DEF WInit, Shape, NoDispatch, NoBeat, Attempts, BeatState

LEMMA GoneKeepsShape ==
    ASSUME Shape, NEW w \in WorkerIds, NEW how, Gone(w, how)
    PROVE  Shape'
BY BudgetAssumption DEF Shape, Gone, NoDispatch, NoBeat, BeatState

LEMMA CancelKeepsDispatch ==
    ASSUME Shape, NEW w \in WorkerIds, NEW t \in TaskIds, CancelEntry(w, t)
    PROVE  /\ dispatch' \in [Dispatches -> [owner : WorkerIds \cup {NULL},
                                            at : {"none", "received", "handling", "leaving"},
                                            cancelled : BOOLEAN]]
           /\ \A d \in Dispatches : /\ dispatch'[d].owner = dispatch[d].owner
                                    /\ dispatch'[d].at = dispatch[d].at
BY DEF Shape, CancelEntry

LEMMA RunLoopKeepsShape ==
    ASSUME Shape, NEW w \in WorkerIds, RunLoop(w)
    PROVE  Shape'
<1> USE DEF Shape
<1>1. CASE ClaimTasks(w) BY <1>1 DEF ClaimTasks
<1>2. CASE ClaimReplyLost(w) BY <1>2 DEF ClaimReplyLost, NoDispatch
<1>3. ASSUME NEW d \in Dispatches, StartDispatch(w, d) PROVE Shape'
  <2>1. d[1] \in TaskIds /\ d[2] \in 0..MaxBudget BY BudgetAssumption DEF Dispatches, Attempts
  <2> QED BY <1>3, <2>1 DEF StartDispatch
<1>4. CASE Shutdown(w) \/ GraceExpires(w) BY <1>4 DEF Shutdown, GraceExpires
<1>5. CASE Drained(w) \/ Released(w) BY <1>5, GoneKeepsShape DEF Drained, Released
<1>6. ASSUME NEW t \in TaskIds, Release(w, t) PROVE Shape'
  BY <1>6, CancelKeepsDispatch DEF Release
<1> QED BY <1>1, <1>2, <1>3, <1>4, <1>5, <1>6 DEF RunLoop

LEMMA NextBeatState ==
    ASSUME NEW b \in BeatState, NEW ids \in SUBSET TaskIds, NEW t \in TaskIds \cup {NULL}
    PROVE  /\ NoBeat \in BeatState
           /\ [NoBeat EXCEPT !.at = "sending", !.ids = ids] \in BeatState
           /\ [b EXCEPT !.at = "checking"] \in BeatState
           /\ [b EXCEPT !.ids = ids, !.suspect = t] \in BeatState
           /\ [b EXCEPT !.suspect = NULL] \in BeatState
BY DEF BeatState, NoBeat

LEMMA HeartbeatKeepsShape ==
    ASSUME Shape, NEW w \in WorkerIds, HeartbeatLoop(w)
    PROVE  Shape'
<1>0. /\ InFlightIds(w) \in SUBSET TaskIds
      /\ beat \in [WorkerIds -> BeatState] /\ beat[w] \in BeatState
      /\ beat[w].ids \in SUBSET TaskIds
  BY DEF InFlightIds, Shape, BeatState
<1>1. CASE HeartbeatOnce(w)
  <2>1. [NoBeat EXCEPT !.at = "sending", !.ids = InFlightIds(w)] \in BeatState
    BY <1>0, NextBeatState
  <2>2. beat' \in [WorkerIds -> BeatState] BY <1>0, <1>1, <2>1 DEF HeartbeatOnce
  <2> QED BY <1>1, <2>2 DEF HeartbeatOnce, Shape
<1>2. CASE Beat(w)
  <2>1. NoBeat \in BeatState /\ [beat[w] EXCEPT !.at = "checking"] \in BeatState
    BY <1>0, NextBeatState
  <2>2. beat' \in [WorkerIds -> BeatState] BY <1>0, <1>2, <2>1 DEF Beat
  <2> QED BY <1>2, <2>2 DEF Beat, Shape
<1>3. CASE BeatFails(w)
  <2>1. NoBeat \in BeatState BY <1>0, NextBeatState
  <2>2. beat' \in [WorkerIds -> BeatState] BY <1>0, <1>3, <2>1 DEF BeatFails
  <2> QED BY <1>3, <2>2 DEF BeatFails, Shape
<1>4. ASSUME NEW t \in TaskIds, NEW found \in BOOLEAN, LookUp(w, t, found) PROVE Shape'
  <2> DEFINE s == IF ~found \/ Holds(w, t) THEN NULL ELSE t
             b == [beat[w] EXCEPT !.ids = beat[w].ids \ {t}, !.suspect = s]
  <2>1. NoBeat \in BeatState /\ b \in BeatState BY <1>0, NextBeatState
  <2>2. WaitIfDone(b) \in BeatState BY <2>1 DEF WaitIfDone
  <2>3. beat' = [beat EXCEPT ![w] = WaitIfDone(b)] BY <1>4 DEF LookUp
  <2> HIDE DEF b
  <2>4. beat' \in [WorkerIds -> BeatState] BY <1>0, <2>2, <2>3
  <2> QED BY <1>4, <2>4 DEF LookUp, Shape
<1>5. CASE CancelSuspect(w)
  <2> DEFINE b == [beat[w] EXCEPT !.suspect = NULL]
  <2>1. beat[w].suspect \in TaskIds BY <1>0, <1>5 DEF CancelSuspect, BeatState
  <2>2. dispatch' \in [Dispatches -> [owner : WorkerIds \cup {NULL},
                                      at : {"none", "received", "handling", "leaving"},
                                      cancelled : BOOLEAN]]
    BY <1>5, <2>1, CancelKeepsDispatch DEF CancelSuspect
  <2>3. NoBeat \in BeatState /\ b \in BeatState BY <1>0, NextBeatState
  <2>4. WaitIfDone(b) \in BeatState BY <2>3 DEF WaitIfDone
  <2>5. beat' = [beat EXCEPT ![w] = WaitIfDone(b)] BY <1>5 DEF CancelSuspect
  <2> HIDE DEF b
  <2>6. beat' \in [WorkerIds -> BeatState] BY <1>0, <2>4, <2>5
  <2> QED BY <1>5, <2>2, <2>6 DEF CancelSuspect, Shape
<1> QED BY <1>1, <1>2, <1>3, <1>4, <1>5 DEF HeartbeatLoop

LEMMA ShapeStep == Shape /\ [WNext]_wvars => Shape'
<1> SUFFICES ASSUME Shape, [WNext]_wvars PROVE Shape' OBVIOUS
<1>1. ASSUME NEW w \in WorkerIds, NEW d \in Dispatches, Handler(w, d) PROVE Shape'
  <2>1. d[1] \in TaskIds BY DEF Dispatches
  <2>2. CASE Leave(w, d)
    BY <2>1, <2>2, BudgetAssumption DEF Leave, Shape, NoDispatch
  <2>3. ASSUME NEW success \in BOOLEAN, Report(w, d, success) PROVE Shape'
    BY <2>3 DEF Report, Shape
  <2> QED BY <1>1, <2>2, <2>3 DEF Handler
<1>2. ASSUME NEW w \in WorkerIds, Terminate(w) PROVE Shape' BY <1>2 DEF Terminate, Shape
<1>3. ASSUME NEW w \in WorkerIds, Crash(w) PROVE Shape' BY <1>3, GoneKeepsShape DEF Crash
<1>4. CASE Submit \/ Sweep \/ Pass BY <1>4 DEF Submit, Sweep, Pass, local, Shape
<1>5. ASSUME NEW t \in TaskIds, Withdraw(t) PROVE Shape' BY <1>5 DEF Withdraw, local, Shape
<1>6. CASE UNCHANGED wvars BY <1>6 DEF wvars, Shape
<1> QED
  BY <1>1, <1>2, <1>3, <1>4, <1>5, <1>6, RunLoopKeepsShape, HeartbeatKeepsShape DEF WNext

(* The whole system -- workers that crash, stall, shut down and lose       *)
(* replies, the sweeper, the clients -- changes the table only as the      *)
(* store's specification allows: every theorem about TaskStore holds here. *)
THEOREM ImplementsStore == WSpec => Spec
<1>1. WInit => Init /\ Shape BY ShapeInit DEF WInit
<1>2. Shape /\ [WNext]_wvars => [Next]_vars BY StepsAreStoreSteps
<1> QED BY <1>1, <1>2, ShapeStep, PTL DEF WSpec, Spec

-----------------------------------------------------------------------------
(* What a step that claims nothing may do to one dispatch: end it, cancel  *)
(* it, start it or take its report.                                        *)
LEMMA DispatchSteps ==
    ASSUME Shape, WNext, ~\E w \in WorkerIds : ClaimTasks(w), NEW d \in Dispatches
    PROVE  \/ dispatch'[d] = dispatch[d]
           \/ dispatch'[d] = NoDispatch
           \/ dispatch'[d] = [dispatch[d] EXCEPT !.cancelled = TRUE]
           \/ /\ \E w \in WorkerIds : StartDispatch(w, d)
              /\ dispatch'[d] = [dispatch[d] EXCEPT !.at = "handling"]
           \/ /\ \E w \in WorkerIds, success \in BOOLEAN : Report(w, d, success)
              /\ dispatch'[d] = [dispatch[d] EXCEPT !.at = "leaving"]
<1> DEFINE Ended == dispatch'[d] = NoDispatch
           Cancelled == dispatch'[d] = [dispatch[d] EXCEPT !.cancelled = TRUE]
           Started == /\ \E w \in WorkerIds : StartDispatch(w, d)
                      /\ dispatch'[d] = [dispatch[d] EXCEPT !.at = "handling"]
           Reported == /\ \E w \in WorkerIds, success \in BOOLEAN : Report(w, d, success)
                       /\ dispatch'[d] = [dispatch[d] EXCEPT !.at = "leaving"]
           Goal == dispatch'[d] = dispatch[d] \/ Ended \/ Cancelled \/ Started \/ Reported
<1> SUFFICES Goal OBVIOUS
<1>1. ASSUME UNCHANGED dispatch PROVE Goal BY <1>1
<1>2. ASSUME NEW w \in WorkerIds, NEW how, Gone(w, how) PROVE Goal
  <2>1. dispatch'[d] = dispatch[d] \/ Ended BY <1>2 DEF Gone
  <2> QED BY <2>1
<1>3. ASSUME NEW w \in WorkerIds, NEW t \in TaskIds, CancelEntry(w, t) PROVE Goal
  <2>1. dispatch'[d] = dispatch[d] \/ Cancelled BY <1>3 DEF CancelEntry, Shape
  <2> QED BY <2>1
<1>4. ASSUME NEW w \in WorkerIds, NEW e \in Dispatches, StartDispatch(w, e) PROVE Goal
  <2>1. dispatch' = [dispatch EXCEPT ![e].at = "handling"] BY <1>4 DEF StartDispatch
  <2>2. CASE e # d BY <2>1, <2>2 DEF Shape
  <2>3. CASE e = d
    <3>1. dispatch'[d] = [dispatch[d] EXCEPT !.at = "handling"] BY <2>1, <2>3 DEF Shape
    <3>2. Started BY <1>4, <2>3, <3>1
    <3> QED BY <3>2
  <2> QED BY <2>2, <2>3
<1>5. ASSUME NEW w \in WorkerIds, NEW e \in Dispatches, NEW success \in BOOLEAN,
             Report(w, e, success)
      PROVE  Goal
  <2>1. dispatch' = [dispatch EXCEPT ![e].at = "leaving"] BY <1>5 DEF Report
  <2>2. CASE e # d BY <2>1, <2>2 DEF Shape
  <2>3. CASE e = d
    <3>1. dispatch'[d] = [dispatch[d] EXCEPT !.at = "leaving"] BY <2>1, <2>3 DEF Shape
    <3>2. Reported BY <1>5, <2>3, <3>1
    <3> QED BY <3>2
  <2> QED BY <2>2, <2>3
<1>6. ASSUME NEW w \in WorkerIds, NEW e \in Dispatches, Leave(w, e) PROVE Goal
  <2>1. dispatch'[d] = dispatch[d] \/ Ended BY <1>6 DEF Leave, Shape
  <2> QED BY <2>1
<1>7. ASSUME NEW w \in WorkerIds, ClaimReplyLost(w) PROVE Goal
  <2>1. dispatch'[d] = dispatch[d] \/ Ended BY <1>7 DEF ClaimReplyLost
  <2> QED BY <2>1
<1> HIDE DEF Goal
<1>8. ASSUME NEW w \in WorkerIds, RunLoop(w) PROVE Goal
  <2>1. CASE Shutdown(w) \/ GraceExpires(w) BY <1>1, <2>1 DEF Shutdown, GraceExpires
  <2>2. CASE Drained(w) \/ Released(w) BY <1>2, <2>2 DEF Drained, Released
  <2>3. ASSUME NEW t \in TaskIds, Release(w, t) PROVE Goal BY <1>3, <2>3 DEF Release
  <2> QED BY <1>4, <1>7, <1>8, <2>1, <2>2, <2>3 DEF RunLoop
<1>9. ASSUME NEW w \in WorkerIds, HeartbeatLoop(w) PROVE Goal
  <2>1. CASE CancelSuspect(w)
    <3>1. beat[w].suspect \in TaskIds BY <2>1 DEF CancelSuspect, Shape, BeatState
    <3> QED BY <1>3, <2>1, <3>1 DEF CancelSuspect
  <2>2. CASE ~CancelSuspect(w)
    BY <1>1, <1>9, <2>2 DEF HeartbeatLoop, HeartbeatOnce, Beat, BeatFails, LookUp
  <2> QED BY <2>1, <2>2
<1>10. ASSUME NEW w \in WorkerIds, Terminate(w) \/ Crash(w) PROVE Goal
  BY <1>1, <1>2, <1>10 DEF Terminate, Crash
<1>11. CASE Submit \/ Sweep \/ Pass BY <1>1, <1>11 DEF Submit, Sweep, Pass, local
<1>12. ASSUME NEW t \in TaskIds, Withdraw(t) PROVE Goal BY <1>1, <1>12 DEF Withdraw, local
<1> QED BY <1>5, <1>6, <1>8, <1>9, <1>10, <1>11, <1>12 DEF WNext, Handler

(* So a dispatch keeps its owner or ends, executes from StartDispatch on,  *)
(* and leaves by its own report.                                           *)
LEMMA DispatchFields ==
    ASSUME Shape, WNext, ~\E w \in WorkerIds : ClaimTasks(w), NEW d \in Dispatches
    PROVE  /\ dispatch'[d].owner \in {dispatch[d].owner, NULL}
           /\ dispatch'[d].at = "received" => dispatch[d].at = "received"
           /\ dispatch'[d].at = "handling" =>
                 /\ dispatch'[d].cancelled = dispatch[d].cancelled \/ dispatch'[d].cancelled
                 /\ \/ dispatch[d].at = "handling"
                    \/ dispatch[d].at = "received" /\ \E w \in WorkerIds : StartDispatch(w, d)
           /\ dispatch'[d].at = "leaving" =>
                 \/ dispatch[d].at = "leaving"
                 \/ \E w \in WorkerIds, success \in BOOLEAN : Report(w, d, success)
<1>1. dispatch[d] \in [owner : WorkerIds \cup {NULL},
                       at : {"none", "received", "handling", "leaving"}, cancelled : BOOLEAN]
  BY DEF Shape
<1>2. CASE dispatch'[d] = dispatch[d] BY <1>1, <1>2
<1>3. CASE dispatch'[d] = NoDispatch BY <1>3 DEF NoDispatch
<1>4. CASE dispatch'[d] = [dispatch[d] EXCEPT !.cancelled = TRUE] BY <1>1, <1>4
<1>5. ASSUME NEW w \in WorkerIds, StartDispatch(w, d),
             dispatch'[d] = [dispatch[d] EXCEPT !.at = "handling"]
      PROVE  /\ dispatch'[d].owner = dispatch[d].owner /\ dispatch'[d].at = "handling"
             /\ dispatch'[d].cancelled = dispatch[d].cancelled /\ dispatch[d].at = "received"
  BY <1>1, <1>5 DEF StartDispatch, Received
<1>6. ASSUME dispatch'[d] = [dispatch[d] EXCEPT !.at = "leaving"]
      PROVE  dispatch'[d].owner = dispatch[d].owner /\ dispatch'[d].at = "leaving"
  BY <1>1, <1>6
<1> QED BY <1>2, <1>3, <1>4, <1>5, <1>6, DispatchSteps

-----------------------------------------------------------------------------
(* One slot per worker.  A worker has at most one dispatch, and while the  *)
(* row of its task names the worker, it is that dispatch's own claim.      *)
OneDispatch == \A w \in WorkerIds : \A d, e \in Of(w) : d = e
ClaimIsCurrent ==
    \A w \in WorkerIds : \A d \in Of(w) : Holds(w, d[1]) => tasks[d[1]].attempts = d[2]

(* Each executing dispatch is the one its worker has registered, so it is  *)
(* heartbeaten and released.  It takes the one slot: with more, a dispatch *)
(* that leaves may remove the entry of the attempt that followed it.       *)
InFlightTracksDispatches ==
    \A w \in WorkerIds, d \in Dispatches :
        (dispatch[d].owner = w /\ dispatch[d].at = "handling") => inFlight[w][d[1]] = d[2]

SInv == Inv /\ Shape /\ OneDispatch /\ ClaimIsCurrent /\ InFlightTracksDispatches

(* A row that is not claimed in a step keeps its claim or loses it.        *)
ClaimKept(t) ==
    \/ tasks'[t].claimed_by = NULL
    \/ /\ tasks'[t].claimed_by = tasks[t].claimed_by
       /\ tasks'[t].attempts = tasks[t].attempts

LEMMA OnlyClaimClaims ==
    ASSUME Inv, NoClaimStep, NEW t \in TaskIds
    PROVE  ClaimKept(t)
<1>0. tasks \in [TaskIds -> Row] /\ RowOK(tasks[t]) /\ tasks[t] \in Row BY DEF Inv
<1>1. CASE UNCHANGED tasks BY <1>1 DEF ClaimKept
<1>2. CASE SomeEnqueue
  BY <1>0, <1>2 DEF SomeEnqueue, Enqueue, Inserted, NoRow, ClaimKept
<1>3. CASE RecoverOrphans
  BY <1>0, <1>3 DEF RecoverOrphans, Recovered, RetryOrDead, Row, ClaimKept
<1>4. CASE Elapse
  BY <1>0, <1>4, TimeOnly DEF Elapse, ClaimKept
<1>5. ASSUME NEW u \in TaskIds, Cancel(u) PROVE ClaimKept(t)
  BY <1>0, <1>5 DEF Cancel, ClaimKept, Row
<1>6. ASSUME NEW w \in WorkerIds, NEW ids \in SUBSET TaskIds, Heartbeat(w, ids)
      PROVE  ClaimKept(t)
  BY <1>0, <1>6, TimeOnly DEF Heartbeat, ClaimKept
<1>7. ASSUME NEW w \in WorkerIds, NEW u \in TaskIds, Complete(w, u)
      PROVE  ClaimKept(t)
  BY <1>0, <1>7 DEF Complete, Completed, ClaimKept, Row
<1>8. ASSUME NEW w \in WorkerIds, NEW u \in TaskIds, Fail(w, u)
      PROVE  ClaimKept(t)
  <2>1. PICK delay : tasks' = [tasks EXCEPT ![u] = Failed(tasks[u], delay)]
    BY <1>8 DEF Fail
  <2>2. CASE u = t BY <1>0, <2>1, <2>2 DEF Failed, RetryOrDead, Row, ClaimKept
  <2>3. CASE u # t BY <1>0, <2>1, <2>3 DEF ClaimKept
  <2> QED BY <2>2, <2>3
<1> QED BY <1>1, <1>2, <1>3, <1>4, <1>5, <1>6, <1>7, <1>8 DEF NoClaimStep, StillStep

(* A step in which nobody gains a dispatch and nothing is claimed.         *)
LEMMA NothingGained ==
    ASSUME SInv, NoClaimStep,
           \A d \in Dispatches : dispatch'[d].owner \in {dispatch[d].owner, NULL}
    PROVE  OneDispatch' /\ ClaimIsCurrent'
<1>1. \A w \in WorkerIds : \A d \in Dispatches : d \in Of(w)' => d \in Of(w)
  BY NullAssumption DEF Of
<1>3. OneDispatch' BY <1>1 DEF SInv, OneDispatch, Of
<1>4. ASSUME NEW w \in WorkerIds, NEW d \in Of(w)', Holds(w, d[1])'
      PROVE  tasks'[d[1]].attempts = d[2]
  <2>1. d \in Of(w) /\ d[1] \in TaskIds BY <1>1, <1>4 DEF Of, Dispatches
  <2>2. ClaimKept(d[1]) BY <2>1, OnlyClaimClaims DEF SInv
  <2>3. Holds(w, d[1]) /\ tasks'[d[1]].attempts = tasks[d[1]].attempts
    BY <1>4, <2>2, NullAssumption DEF ClaimKept, Holds
  <2> QED BY <2>1, <2>3 DEF SInv, ClaimIsCurrent
<1> QED BY <1>3, <1>4 DEF ClaimIsCurrent

LEMMA FiniteDispatches == IsFiniteSet(Dispatches)
<1>1. 1 \in Int /\ MaxBudget \in Int BY BudgetAssumption
<1>2. IsFiniteSet(1..MaxBudget) BY <1>1, FS_Interval, Zenon
<1>3. IsFiniteSet(TaskIds \X (1..MaxBudget)) BY <1>2, FiniteAssumption, FS_Product, Zenon
<1> QED BY <1>3, Zenon DEF Dispatches, Attempts

(* With one slot, a worker claims only when it has no dispatch, and then a *)
(* single task.                                                            *)
LEMMA ClaimWithOneSlot ==
    ASSUME Concurrency = 1, NEW w \in WorkerIds, Cardinality(Of(w)) < Concurrency,
           NEW batch \in SUBSET TaskIds, Cardinality(batch) <= AvailableBatch(w)
    PROVE  Of(w) = {} /\ \A t, u \in batch : t = u
<1>1. IsFiniteSet(Of(w)) BY FiniteDispatches, FS_Subset DEF Of
<1>2. Of(w) = {} BY <1>1, FS_CardinalityType, FS_EmptySet
<1>3. AvailableBatch(w) <= 1 /\ AvailableBatch(w) \in Int
  BY <1>2, FS_EmptySet, SlotAssumption DEF AvailableBatch
<1>4. IsFiniteSet(batch) /\ Cardinality(batch) \in Nat
  BY FiniteAssumption, FS_Subset, FS_CardinalityType
<1>5. Cardinality(batch) = 0 \/ Cardinality(batch) = 1 BY <1>3, <1>4
<1>6. batch = {} \/ \E t : batch = {t} BY <1>4, <1>5, FS_EmptySet, FS_Singleton, Zenon
<1> QED BY <1>2, <1>6

(* ClaimTasks: the new dispatch is named after the attempt it claimed.     *)
LEMMA ClaimKeepsSlots ==
    ASSUME Concurrency = 1, SInv, NEW w \in WorkerIds, ClaimTasks(w)
    PROVE  OneDispatch' /\ ClaimIsCurrent' /\ InFlightTracksDispatches'
<1>0. /\ tasks \in [TaskIds -> Row]
      /\ \A t \in TaskIds : tasks[t] \in Row
  BY DEF SInv, Inv
<1>1. PICK q \in Queues, batch \in SUBSET TaskIds :
        /\ Cardinality(batch) <= AvailableBatch(w)
        /\ Claim(w, q, batch)
        /\ dispatch' = [d \in Dispatches |->
                           IF d[1] \in batch /\ d[2] = tasks[d[1]].attempts + 1
                           THEN [owner |-> w, at |-> "received", cancelled |-> FALSE]
                           ELSE dispatch[d]]
  BY DEF ClaimTasks
<1>2. inFlight' = inFlight /\ Cardinality(Of(w)) < Concurrency BY DEF ClaimTasks
<1>3. Of(w) = {} /\ \A t, u \in batch : t = u BY <1>1, <1>2, ClaimWithOneSlot
<1>4. ASSUME NEW d \in Of(w)'
      PROVE  d \in Dispatches /\ d[1] \in batch /\ d[2] = tasks[d[1]].attempts + 1
  BY <1>1, <1>3, <1>4 DEF Of
<1>5. ASSUME NEW v \in WorkerIds, v # w, NEW d \in Of(v)' PROVE d \in Of(v)
  BY <1>1, <1>5 DEF Of
<1>6. ASSUME NEW t \in TaskIds
      PROVE  /\ t \in batch => /\ tasks'[t].claimed_by = w
                               /\ tasks'[t].attempts = tasks[t].attempts + 1
             /\ t \notin batch => tasks'[t] = tasks[t]
  BY <1>0, <1>1 DEF Claim, Claimed, Row
<1>7. ASSUME NEW d \in Of(w)', NEW e \in Of(w)' PROVE d = e
  <2>1. d[1] = e[1] /\ d[2] = e[2] BY <1>3, <1>4
  <2>2. d = <<d[1], d[2]>> /\ e = <<e[1], e[2]>> BY <1>4 DEF Dispatches
  <2> QED BY <2>1, <2>2
<1>8. OneDispatch' BY <1>5, <1>7 DEF SInv, OneDispatch
<1>9. ASSUME NEW v \in WorkerIds, NEW d \in Of(v)', Holds(v, d[1])'
      PROVE  tasks'[d[1]].attempts = d[2]
  <2>1. d \in Dispatches /\ d[1] \in TaskIds BY <1>9 DEF Of, Dispatches
  <2>2. CASE v = w BY <1>4, <1>6, <1>9, <2>1, <2>2
  <2>3. CASE v # w
    <3>1. d \in Of(v) BY <1>5, <1>9, <2>3
    <3>2. d[1] \notin batch /\ Holds(v, d[1]) BY <1>6, <1>9, <2>1, <2>3 DEF Holds
    <3> QED BY <1>6, <2>1, <3>1, <3>2 DEF SInv, ClaimIsCurrent
  <2> QED BY <2>2, <2>3
<1>10. InFlightTracksDispatches'
  BY <1>1, <1>2 DEF SInv, InFlightTracksDispatches
<1> QED BY <1>8, <1>9, <1>10 DEF ClaimIsCurrent

(* The steps that leave dispatch and inFlight alone, or only cancel.       *)
LEMMA QuietSteps ==
    ASSUME SInv, inFlight' = inFlight,
           \A d \in Dispatches : /\ dispatch'[d].owner = dispatch[d].owner
                                 /\ dispatch'[d].at = dispatch[d].at
    PROVE  InFlightTracksDispatches'
BY DEF SInv, InFlightTracksDispatches

LEMMA GoneKeepsTrack ==
    ASSUME SInv, NEW w \in WorkerIds, NEW how, Gone(w, how)
    PROVE  /\ InFlightTracksDispatches'
           /\ \A d \in Dispatches : dispatch'[d].owner \in {dispatch[d].owner, NULL}
BY NullAssumption DEF SInv, Shape, Gone, NoDispatch, InFlightTracksDispatches, Of

(* Every other step: nobody gains a dispatch, and the map keeps up.        *)
LEMMA OtherStepsKeepSlots ==
    ASSUME SInv, WNext
    PROVE  \/ \E w \in WorkerIds : ClaimTasks(w)
           \/ /\ InFlightTracksDispatches'
              /\ \A d \in Dispatches : dispatch'[d].owner \in {dispatch[d].owner, NULL}
<1> DEFINE Kept == /\ InFlightTracksDispatches'
                   /\ \A d \in Dispatches : dispatch'[d].owner \in {dispatch[d].owner, NULL}
<1> SUFFICES (\E w \in WorkerIds : ClaimTasks(w)) \/ Kept OBVIOUS
<1>0. Shape /\ InFlightTracksDispatches /\ OneDispatch BY DEF SInv
<1>1. ASSUME UNCHANGED <<dispatch, inFlight>> PROVE Kept BY <1>1, QuietSteps
<1>2. ASSUME NEW w \in WorkerIds, NEW t \in TaskIds, CancelEntry(w, t), UNCHANGED inFlight
      PROVE  Kept
  BY <1>0, <1>2, CancelKeepsDispatch, QuietSteps
<1>3. ASSUME NEW w \in WorkerIds, ClaimReplyLost(w) PROVE Kept
  BY <1>0, <1>3 DEF ClaimReplyLost, NoDispatch, InFlightTracksDispatches, Shape
<1>4. ASSUME NEW w \in WorkerIds, NEW d \in Dispatches, StartDispatch(w, d) PROVE Kept
  <2>1. d \in Of(w) /\ d[1] \in TaskIds BY <1>4 DEF StartDispatch, Received, Dispatches
  <2>2. /\ dispatch' = [dispatch EXCEPT ![d].at = "handling"]
        /\ inFlight' = [inFlight EXCEPT ![w][d[1]] = d[2]]
    BY <1>4 DEF StartDispatch
  <2>3. \A e \in Dispatches : dispatch'[e].owner = dispatch[e].owner
    BY <1>0, <2>2 DEF Shape
  <2>4. ASSUME NEW v \in WorkerIds, NEW e \in Dispatches,
               dispatch'[e].owner = v, dispatch'[e].at = "handling"
        PROVE  inFlight'[v][e[1]] = e[2]
    <3>1. CASE v = w
      <4>1. e = d BY <1>0, <2>1, <2>3, <2>4, <3>1 DEF OneDispatch, Of
      <4> QED BY <1>0, <2>1, <2>2, <3>1, <4>1 DEF Shape
    <3>2. CASE v # w
      <4>1. e # d BY <2>1, <2>3, <2>4, <3>2 DEF Of
      <4>2. dispatch'[e] = dispatch[e] /\ inFlight'[v] = inFlight[v]
        BY <1>0, <2>2, <3>2, <4>1 DEF Shape
      <4> QED BY <1>0, <2>4, <4>2 DEF InFlightTracksDispatches
    <3> QED BY <3>1, <3>2
  <2> QED BY <2>3, <2>4 DEF InFlightTracksDispatches
<1>5. ASSUME NEW w \in WorkerIds, NEW d \in Dispatches, NEW success \in BOOLEAN,
             Report(w, d, success)
      PROVE  Kept
  <2>1. dispatch' = [dispatch EXCEPT ![d].at = "leaving"] /\ inFlight' = inFlight
    BY <1>5 DEF Report
  <2> QED BY <1>0, <2>1 DEF InFlightTracksDispatches, Shape
<1>6. ASSUME NEW w \in WorkerIds, NEW d \in Dispatches, Leave(w, d) PROVE Kept
  <2>1. d \in Of(w) /\ d[1] \in TaskIds BY <1>6 DEF Leave, Of, Dispatches
  <2>2. /\ dispatch' = [dispatch EXCEPT ![d] = NoDispatch]
        /\ inFlight' = [inFlight EXCEPT ![w][d[1]] = 0]
    BY <1>6 DEF Leave
  <2>3. \A e \in Dispatches : /\ dispatch'[e].owner \in {dispatch[e].owner, NULL}
                              /\ e # d => dispatch'[e] = dispatch[e]
    BY <1>0, <2>2 DEF Shape, NoDispatch
  <2>4. ASSUME NEW v \in WorkerIds, NEW e \in Dispatches,
               dispatch'[e].owner = v, dispatch'[e].at = "handling"
        PROVE  inFlight'[v][e[1]] = e[2]
    <3>1. e # d BY <1>0, <2>2, <2>4 DEF NoDispatch, Shape
    <3>2. v # w BY <1>0, <2>1, <2>3, <2>4, <3>1 DEF OneDispatch, Of
    <3>3. inFlight'[v] = inFlight[v] BY <1>0, <2>2, <3>2 DEF Shape
    <3> QED BY <1>0, <2>3, <2>4, <3>1, <3>3 DEF InFlightTracksDispatches
  <2> QED BY <2>3, <2>4 DEF InFlightTracksDispatches
<1>7. ASSUME NEW w \in WorkerIds, NEW how, Gone(w, how) PROVE Kept BY <1>7, GoneKeepsTrack
<1>8. ASSUME NEW w \in WorkerIds, RunLoop(w) PROVE ClaimTasks(w) \/ Kept
  <2>1. CASE Shutdown(w) \/ GraceExpires(w) BY <1>1, <2>1 DEF Shutdown, GraceExpires
  <2>2. CASE Drained(w) \/ Released(w) BY <1>7, <2>2 DEF Drained, Released
  <2>3. ASSUME NEW t \in TaskIds, Release(w, t) PROVE Kept BY <1>2, <2>3 DEF Release
  <2> HIDE DEF Kept
  <2> QED BY <1>3, <1>4, <1>8, <2>1, <2>2, <2>3 DEF RunLoop
<1>9. ASSUME NEW w \in WorkerIds, HeartbeatLoop(w) PROVE Kept
  <2>1. CASE HeartbeatOnce(w) \/ Beat(w) \/ BeatFails(w)
    BY <1>1, <2>1 DEF HeartbeatOnce, Beat, BeatFails
  <2>2. ASSUME NEW t \in TaskIds, NEW found \in BOOLEAN, LookUp(w, t, found) PROVE Kept
    BY <1>1, <2>2 DEF LookUp
  <2>3. CASE CancelSuspect(w)
    <3>1. beat[w].suspect \in TaskIds BY <1>0, <2>3 DEF CancelSuspect, Shape, BeatState
    <3> QED BY <1>2, <2>3, <3>1 DEF CancelSuspect
  <2> HIDE DEF Kept
  <2> QED BY <1>9, <2>1, <2>2, <2>3 DEF HeartbeatLoop
<1>10. ASSUME NEW w \in WorkerIds, Terminate(w) \/ Crash(w) PROVE Kept
  BY <1>1, <1>7, <1>10 DEF Terminate, Crash
<1>11. CASE Submit \/ Sweep \/ Pass BY <1>1, <1>11 DEF Submit, Sweep, Pass, local
<1>12. ASSUME NEW t \in TaskIds, Withdraw(t) PROVE Kept BY <1>1, <1>12 DEF Withdraw, local
<1> HIDE DEF Kept
<1> QED BY <1>5, <1>6, <1>8, <1>9, <1>10, <1>11, <1>12 DEF WNext, Handler

LEMMA SlotsInit == WInit => SInv
<1> SUFFICES ASSUME WInit PROVE SInv OBVIOUS
<1>1. Inv /\ Shape BY InitInv, ShapeInit DEF WInit
<1>2. \A d \in Dispatches : dispatch[d].owner = NULL /\ dispatch[d].at = "none"
  BY DEF WInit, NoDispatch
<1>3. \A w \in WorkerIds : Of(w) = {} BY <1>2, NullAssumption DEF Of
<1> QED BY <1>1, <1>2, <1>3 DEF SInv, OneDispatch, ClaimIsCurrent, InFlightTracksDispatches

LEMMA SlotsStep ==
    ASSUME Concurrency = 1, SInv, [WNext]_wvars
    PROVE  SInv'
<1>1. Shape' BY ShapeStep DEF SInv
<1>2. Inv' BY StepsAreStoreSteps, NextInv DEF SInv
<1>3. OneDispatch' /\ ClaimIsCurrent' /\ InFlightTracksDispatches'
  <2>1. CASE UNCHANGED wvars
    BY <2>1 DEF wvars, SInv, OneDispatch, ClaimIsCurrent, InFlightTracksDispatches, Of, Holds
  <2>2. ASSUME NEW w \in WorkerIds, ClaimTasks(w)
        PROVE  OneDispatch' /\ ClaimIsCurrent' /\ InFlightTracksDispatches'
    BY <2>2, ClaimKeepsSlots
  <2>3. CASE WNext /\ ~\E w \in WorkerIds : ClaimTasks(w)
    <3>1. NoClaimStep BY <2>3, StepsOfTheTable DEF SInv
    <3>2. /\ InFlightTracksDispatches'
          /\ \A d \in Dispatches : dispatch'[d].owner \in {dispatch[d].owner, NULL}
      BY <2>3, OtherStepsKeepSlots
    <3> QED BY <3>1, <3>2, NothingGained
  <2> QED BY <2>1, <2>2, <2>3
<1> QED BY <1>1, <1>2, <1>3 DEF SInv

(* With one slot per process, a report from a dispatch whose claim was     *)
(* swept and taken again, by anybody, never reaches the row: the           *)
(* claimed_by guard of completeSQL and failSQL fences it off.  (With more  *)
(* slots it may: see WorkerSelfReclaim.)                                   *)
THEOREM SingleSlotFenced ==
    ASSUME Concurrency = 1
    PROVE  WSpec => ReportsFenced
<1>1. ASSUME SInv, WNext, NEW d \in Dispatches,
             dispatch[d].at = "handling", dispatch'[d].at = "leaving",
             tasks'[d[1]] # tasks[d[1]]
      PROVE  /\ tasks[d[1]].attempts = d[2]
             /\ tasks[d[1]].claimed_by = dispatch[d].owner
  <2>0. Shape BY <1>1 DEF SInv
  <2>1. PICK w \in WorkerIds, success \in BOOLEAN : Report(w, d, success)
    <3>1. ~\E v \in WorkerIds : ClaimTasks(v) BY <1>1 DEF ClaimTasks
    <3> QED BY <1>1, <2>0, <3>1, DispatchFields
  <2>2. Holds(w, d[1]) /\ dispatch[d].owner = w
    BY <1>1, <2>1 DEF Report, Complete, Fail
  <2>3. d \in Of(w) BY <2>2 DEF Of
  <2> QED BY <1>1, <2>2, <2>3 DEF SInv, ClaimIsCurrent, Holds
<1>2. SInv /\ [WNext]_wvars => [\A d \in Dispatches : ReportFenced(d)]_wvars
  BY <1>1 DEF ReportFenced
<1>3. SInv /\ [WNext]_wvars => SInv' BY SlotsStep
<1> QED BY <1>2, <1>3, SlotsInit, PTL DEF WSpec, ReportsFenced

-----------------------------------------------------------------------------
(* The dispatches of one batch are no more than its tasks: each task has   *)
(* one attempt number to be claimed under.                                 *)
LEMMA DispatchesOfBatch ==
    ASSUME NEW batch \in SUBSET TaskIds,
           NEW New \in SUBSET Dispatches, NEW n,
           \A d \in New : d[1] \in batch /\ d[2] = n[d[1]]
    PROVE  Cardinality(New) <= Cardinality(batch)
<1> DEFINE f == [d \in New |-> d[1]]
<1>1. \A d, e \in New : d[1] = e[1] => d = e
  <2>1. \A d \in New : d = <<d[1], d[2]>> BY DEF Dispatches
  <2> QED BY <2>1
<1>2. f \in Injection(New, batch) BY <1>1 DEF Injection, IsInjective
<1>3. IsFiniteSet(batch) BY FiniteAssumption, FS_Subset
<1> HIDE DEF f
<1> QED BY <1>2, <1>3, FS_Injection

LEMMA ClaimWithinCapacity ==
    ASSUME WithinCapacity, NEW w \in WorkerIds, ClaimTasks(w)
    PROVE  WithinCapacity'
<1>1. PICK q \in Queues, batch \in SUBSET TaskIds :
        /\ Cardinality(batch) <= AvailableBatch(w)
        /\ dispatch' = [d \in Dispatches |->
                           IF d[1] \in batch /\ d[2] = tasks[d[1]].attempts + 1
                           THEN [owner |-> w, at |-> "received", cancelled |-> FALSE]
                           ELSE dispatch[d]]
  BY DEF ClaimTasks
<1> DEFINE New == {d \in Dispatches : d[1] \in batch /\ d[2] = tasks[d[1]].attempts + 1}
<1>2. Cardinality(New) <= Cardinality(batch)
  <2> DEFINE n == [t \in TaskIds |-> tasks[t].attempts + 1]
  <2>1. \A d \in New : d[1] \in batch /\ d[2] = n[d[1]] BY DEF Dispatches
  <2> QED BY <2>1, DispatchesOfBatch
<1>3. \A v \in WorkerIds : IsFiniteSet(Of(v)) /\ Cardinality(Of(v)) \in Nat
  BY FiniteDispatches, FS_Subset, FS_CardinalityType DEF Of
<1>4. IsFiniteSet(New) /\ IsFiniteSet(batch)
  BY FiniteDispatches, FiniteAssumption, FS_Subset
<1>5. Cardinality(New) \in Nat /\ Cardinality(batch) \in Nat
  BY <1>4, FS_CardinalityType
<1>6. /\ IsFiniteSet(Of(w) \cup New)
      /\ Cardinality(Of(w) \cup New) <= Cardinality(Of(w)) + Cardinality(New)
      /\ Cardinality(Of(w) \cup New) \in Nat
  <2>1. IsFiniteSet(Of(w) \cap New) BY <1>3, FS_Subset
  <2>2. Cardinality(Of(w) \cap New) \in Nat BY <2>1, FS_CardinalityType
  <2> HIDE DEF New
  <2>3. IsFiniteSet(Of(w) \cup New) BY <1>3, <1>4, FS_Union
  <2>4. Cardinality(Of(w) \cup New) =
          Cardinality(Of(w)) + Cardinality(New) - Cardinality(Of(w) \cap New)
    BY <1>3, <1>4, FS_Union
  <2>5. Cardinality(Of(w) \cup New) \in Nat BY <2>3, FS_CardinalityType
  <2> QED BY <1>3, <1>5, <2>2, <2>3, <2>4, <2>5
<1>7. Cardinality(Of(w)) + Cardinality(New) <= Concurrency
  <2> HIDE DEF New
  <2>1. AvailableBatch(w) \in Int /\ AvailableBatch(w) <= Concurrency - Cardinality(Of(w))
    BY <1>3, SlotAssumption DEF AvailableBatch
  <2> QED BY <1>1, <1>2, <1>3, <1>5, <2>1, SlotAssumption
<1>8. Of(w)' \subseteq Of(w) \cup New BY <1>1 DEF Of
<1>9. \A v \in WorkerIds : v # w => Of(v)' \subseteq Of(v) BY <1>1 DEF Of
<1> HIDE DEF New
<1>10. Cardinality(Of(w)') <= Concurrency
  <2>1. IsFiniteSet(Of(w)') /\ Cardinality(Of(w)') <= Cardinality(Of(w) \cup New)
    BY <1>6, <1>8, FS_Subset
  <2>2. Cardinality(Of(w)') \in Nat BY <2>1, FS_CardinalityType
  <2> QED BY <1>3, <1>5, <1>6, <1>7, <2>1, <2>2, SlotAssumption
<1>11. ASSUME NEW v \in WorkerIds, v # w PROVE Cardinality(Of(v)') <= Concurrency
  <2>1. IsFiniteSet(Of(v)') /\ Cardinality(Of(v)') <= Cardinality(Of(v))
    BY <1>3, <1>9, <1>11, FS_Subset
  <2>2. Cardinality(Of(v)') \in Nat BY <2>1, FS_CardinalityType
  <2> QED BY <1>3, <2>1, <2>2, SlotAssumption DEF WithinCapacity
<1> QED BY <1>10, <1>11 DEF WithinCapacity

(* availableBatch is enough: whatever the number of slots and the batch    *)
(* size, a worker never has more dispatches, claimed ones not yet started  *)
(* included, than slots, so `sem <- struct{}{}` never blocks the loop.     *)
THEOREM CapacityKept == WSpec => []WithinCapacity
<1>1. WInit => Shape /\ WithinCapacity
  <2> SUFFICES ASSUME WInit PROVE Shape /\ WithinCapacity OBVIOUS
  <2>1. \A w \in WorkerIds : Of(w) = {} BY NullAssumption DEF WInit, NoDispatch, Of
  <2>2. Cardinality({}) = 0 BY FS_EmptySet
  <2> QED BY <2>1, <2>2, ShapeInit, SlotAssumption DEF WithinCapacity
<1>2. ASSUME Shape, WithinCapacity, [WNext]_wvars PROVE WithinCapacity'
  <2>1. CASE UNCHANGED wvars BY <1>2, <2>1 DEF wvars, WithinCapacity, Of
  <2>2. ASSUME NEW w \in WorkerIds, ClaimTasks(w) PROVE WithinCapacity'
    BY <1>2, <2>2, ClaimWithinCapacity
  <2>3. ASSUME \A d \in Dispatches : dispatch'[d].owner \in {dispatch[d].owner, NULL},
               NEW w \in WorkerIds
        PROVE  Cardinality(Of(w)') <= Concurrency
    <3>1. Of(w)' \subseteq Of(w) BY <2>3, NullAssumption DEF Of
    <3>2. IsFiniteSet(Of(w)) /\ Cardinality(Of(w)) \in Nat
      BY FiniteDispatches, FS_Subset, FS_CardinalityType DEF Of
    <3>3. IsFiniteSet(Of(w)') /\ Cardinality(Of(w)') <= Cardinality(Of(w))
      BY <3>1, <3>2, FS_Subset
    <3>4. Cardinality(Of(w)') \in Nat BY <3>3, FS_CardinalityType
    <3> QED BY <1>2, <3>2, <3>3, <3>4, SlotAssumption DEF WithinCapacity
  <2> QED BY <1>2, <2>1, <2>2, <2>3, DispatchFields DEF WithinCapacity
<1>3. Shape /\ WithinCapacity /\ [WNext]_wvars => (Shape /\ WithinCapacity)'
  BY <1>2, ShapeStep
<1> QED BY <1>1, <1>3, PTL DEF WSpec

-----------------------------------------------------------------------------
(* Where the Run loop is while its process has dispatches: alive as long   *)
(* as there are any, and receiving or dispatching as long as a claimed     *)
(* task has not been started.                                              *)
OwnerIsUp(d) ==
    /\ dispatch[d].at # "none" => dispatch[d].owner # NULL
    /\ dispatch[d].owner # NULL => run[dispatch[d].owner] \in Alive
    /\ dispatch[d].at = "received" => run[dispatch[d].owner] \in {"receiving", "dispatching"}

Modes ==
    /\ run \in [WorkerIds -> Alive \cup {"exited", "crashed"}]
    /\ releasing \in [WorkerIds -> SUBSET TaskIds]
    /\ gap \in [WorkerIds -> Nat]
    /\ \A d \in Dispatches : OwnerIsUp(d)

LEMMA ModesInit == WInit => Modes
BY DEF WInit, Modes, OwnerIsUp, NoDispatch, Alive

LEMMA GoneKeepsModes ==
    ASSUME Shape, Modes, NEW w \in WorkerIds, NEW how \in {"exited", "crashed"}, Gone(w, how)
    PROVE  Modes'
<1>1. /\ run' \in [WorkerIds -> Alive \cup {"exited", "crashed"}]
      /\ releasing' \in [WorkerIds -> SUBSET TaskIds]
      /\ gap' \in [WorkerIds -> Nat]
  BY DEF Modes, Gone
<1>2. ASSUME NEW d \in Dispatches PROVE OwnerIsUp(d)'
  <2>1. CASE d \in Of(w) BY <2>1 DEF Gone, NoDispatch, OwnerIsUp
  <2>2. CASE d \notin Of(w)
    <3>1. dispatch'[d] = dispatch[d] /\ dispatch[d].owner # w BY <2>2 DEF Gone, Of
    <3>2. \A v \in WorkerIds : v # w => run'[v] = run[v] BY DEF Gone, Modes
    <3> QED BY <3>1, <3>2 DEF Modes, Shape, OwnerIsUp
  <2> QED BY <2>1, <2>2
<1> QED BY <1>1, <1>2 DEF Modes

(* Steps that leave the dispatches where they are, and the Run loops that  *)
(* have any alive and, if something is still to be started, where it was.  *)
LEMMA ModesKept ==
    ASSUME Shape, Modes,
           run' \in [WorkerIds -> Alive \cup {"exited", "crashed"}],
           releasing' \in [WorkerIds -> SUBSET TaskIds],
           gap' \in [WorkerIds -> Nat],
           \A v \in WorkerIds :
               run'[v] = run[v] \/ (run[v] \in {"polling", "grace"} /\ run'[v] \in Alive),
           \A d \in Dispatches : /\ dispatch'[d].owner = dispatch[d].owner
                                 /\ \/ dispatch'[d].at = dispatch[d].at
                                    \/ dispatch[d].at = "handling" /\ dispatch'[d].at = "leaving"
    PROVE  Modes'
<1>1. ASSUME NEW d \in Dispatches PROVE OwnerIsUp(d)'
  <2>1. dispatch[d].owner \in WorkerIds \cup {NULL} BY DEF Shape
  <2>2. OwnerIsUp(d) BY DEF Modes
  <2>3. CASE dispatch[d].owner = NULL BY <2>2, <2>3 DEF OwnerIsUp
  <2>4. CASE dispatch[d].owner # NULL
    <3>1. dispatch[d].owner \in WorkerIds BY <2>1, <2>4
    <3> QED BY <2>2, <2>4, <3>1 DEF OwnerIsUp
  <2> QED BY <2>3, <2>4
<1> QED BY <1>1 DEF Modes

LEMMA RunLoopKeepsModes ==
    ASSUME Shape, Modes, NEW w \in WorkerIds, RunLoop(w)
    PROVE  Modes'
<1>0. /\ run \in [WorkerIds -> Alive \cup {"exited", "crashed"}]
      /\ releasing \in [WorkerIds -> SUBSET TaskIds]
      /\ gap \in [WorkerIds -> Nat]
  BY DEF Modes
<1>1. CASE ClaimTasks(w)
  <2>1. run' = [run EXCEPT ![w] = "receiving"] /\ releasing' = releasing /\ gap' = gap
    BY <1>1 DEF ClaimTasks
  <2>2. \A v \in WorkerIds : run[v] \in Alive => run'[v] \in Alive BY <1>0, <2>1 DEF Alive
  <2>3. \A v \in WorkerIds :
          run[v] \in {"receiving", "dispatching"} => run'[v] \in {"receiving", "dispatching"}
    BY <1>0, <2>1
  <2>4. \A d \in Dispatches :
          dispatch'[d] \in {dispatch[d], [owner |-> w, at |-> "received", cancelled |-> FALSE]}
    BY <1>1 DEF ClaimTasks
  <2>5. run'[w] = "receiving" /\ run'[w] \in Alive BY <1>0, <2>1 DEF Alive
  <2>6. ASSUME NEW d \in Dispatches PROVE OwnerIsUp(d)'
    <3>1. CASE dispatch'[d] = dispatch[d]
      <4>1. dispatch[d].owner \in WorkerIds \cup {NULL} /\ OwnerIsUp(d) BY DEF Shape, Modes
      <4> QED BY <2>2, <2>3, <3>1, <4>1 DEF OwnerIsUp
    <3>2. CASE dispatch'[d] = [owner |-> w, at |-> "received", cancelled |-> FALSE]
      BY <2>5, <3>2, NullAssumption DEF OwnerIsUp
    <3> QED BY <2>4, <3>1, <3>2
  <2> QED BY <1>0, <2>1, <2>6 DEF Modes, Alive
<1>2. CASE ClaimReplyLost(w)
  <2>1. run' = [run EXCEPT ![w] = "polling"] /\ releasing' = releasing /\ gap' = gap
        /\ run[w] = "receiving"
    BY <1>2 DEF ClaimReplyLost
  <2>2. \A v \in WorkerIds : run[v] \in Alive => run'[v] \in Alive BY <1>0, <2>1 DEF Alive
  <2>3. ASSUME NEW d \in Dispatches PROVE OwnerIsUp(d)'
    <3>1. CASE d \in Received(w) BY <1>2, <3>1 DEF ClaimReplyLost, NoDispatch, OwnerIsUp
    <3>2. CASE d \notin Received(w)
      <4>1. dispatch'[d] = dispatch[d] BY <1>2, <3>2 DEF ClaimReplyLost
      <4>2. dispatch[d].owner \in WorkerIds \cup {NULL} /\ OwnerIsUp(d) BY DEF Shape, Modes
      <4>3. dispatch[d].at = "received" =>
              dispatch[d].owner \in WorkerIds /\ run'[dispatch[d].owner] = run[dispatch[d].owner]
        BY <1>0, <2>1, <3>2, <4>2 DEF Received, Of, OwnerIsUp
      <4> QED BY <2>2, <4>1, <4>2, <4>3 DEF OwnerIsUp
    <3> QED BY <3>1, <3>2
  <2> QED BY <1>0, <2>1, <2>3 DEF Modes, Alive
<1>3. ASSUME NEW d \in Dispatches, StartDispatch(w, d) PROVE Modes'
  <2>1. /\ dispatch' = [dispatch EXCEPT ![d].at = "handling"]
        /\ run' = [run EXCEPT ![w] = IF Received(w) = {d} THEN "polling" ELSE "dispatching"]
        /\ releasing' = releasing /\ gap' = gap
        /\ d \in Received(w)
    BY <1>3 DEF StartDispatch
  <2>2. \A v \in WorkerIds : run[v] \in Alive => run'[v] \in Alive BY <1>0, <2>1 DEF Alive
  <2>3. ASSUME NEW e \in Dispatches PROVE OwnerIsUp(e)'
    <3>0. dispatch[e].owner \in WorkerIds \cup {NULL} /\ OwnerIsUp(e) BY DEF Shape, Modes
    <3>1. CASE e = d
      <4>1. dispatch'[e].owner = w /\ dispatch'[e].at = "handling" /\ dispatch[e].owner = w
        BY <2>1, <3>1 DEF Shape, Received, Of
      <4> QED BY <2>2, <3>0, <4>1, NullAssumption DEF OwnerIsUp
    <3>2. CASE e # d
      <4>1. dispatch'[e] = dispatch[e] BY <2>1, <3>2 DEF Shape
      <4>2. dispatch[e].at = "received" => run'[dispatch[e].owner] \in {"receiving", "dispatching"}
        <5> SUFFICES ASSUME dispatch[e].at = "received"
                     PROVE  run'[dispatch[e].owner] \in {"receiving", "dispatching"}
          OBVIOUS
        <5>1. dispatch[e].owner \in WorkerIds BY <3>0 DEF OwnerIsUp
        <5>2. CASE dispatch[e].owner = w
          <6>1. e \in Received(w) BY <5>2 DEF Received, Of
          <6>2. run' = [run EXCEPT ![w] = "dispatching"] BY <2>1, <3>2, <6>1
          <6> QED BY <1>0, <5>2, <6>2
        <5>3. CASE dispatch[e].owner # w BY <1>0, <2>1, <3>0, <5>1, <5>3 DEF OwnerIsUp
        <5> QED BY <5>2, <5>3
      <4> QED BY <2>2, <3>0, <4>1, <4>2 DEF OwnerIsUp
    <3> QED BY <3>1, <3>2
  <2> QED BY <1>0, <2>1, <2>3 DEF Modes, Alive
<1>4. CASE Shutdown(w) BY <1>0, <1>4, ModesKept DEF Shutdown, Alive
<1>5. CASE GraceExpires(w)
  <2>1. InFlightIds(w) \in SUBSET TaskIds BY DEF InFlightIds
  <2> QED BY <1>0, <1>5, <2>1, ModesKept DEF GraceExpires, Alive
<1>6. CASE Drained(w) \/ Released(w) BY <1>6, GoneKeepsModes DEF Drained, Released
<1>7. ASSUME NEW t \in TaskIds, Release(w, t) PROVE Modes'
  <2>1. /\ CancelEntry(w, t) /\ run' = run /\ gap' = gap
        /\ releasing' = [releasing EXCEPT ![w] = @ \ {t}]
    BY <1>7 DEF Release
  <2>2. releasing' \in [WorkerIds -> SUBSET TaskIds] BY <1>0, <2>1
  <2> QED BY <1>0, <2>1, <2>2, CancelKeepsDispatch, ModesKept
<1> QED BY <1>1, <1>2, <1>3, <1>4, <1>5, <1>6, <1>7 DEF RunLoop

LEMMA HeartbeatKeepsModes ==
    ASSUME Shape, Modes, NEW w \in WorkerIds, HeartbeatLoop(w)
    PROVE  Modes'
<1>0. /\ run \in [WorkerIds -> Alive \cup {"exited", "crashed"}]
      /\ releasing \in [WorkerIds -> SUBSET TaskIds]
      /\ gap \in [WorkerIds -> Nat]
  BY DEF Modes
<1>1. run' = run /\ releasing' = releasing
  BY DEF HeartbeatLoop, HeartbeatOnce, Beat, BeatFails, LookUp, CancelSuspect
<1>2. gap' \in [WorkerIds -> Nat]
  <2>1. gap' = gap \/ gap' = [gap EXCEPT ![w] = 0]
    BY DEF HeartbeatLoop, HeartbeatOnce, Beat, BeatFails, LookUp, CancelSuspect
  <2> QED BY <1>0, <2>1
<1>3. \A d \in Dispatches : /\ dispatch'[d].owner = dispatch[d].owner
                            /\ dispatch'[d].at = dispatch[d].at
  <2>1. CASE CancelSuspect(w)
    <3>1. beat[w].suspect \in TaskIds BY <2>1 DEF CancelSuspect, Shape, BeatState
    <3> QED BY <2>1, <3>1, CancelKeepsDispatch DEF CancelSuspect
  <2> QED BY <2>1 DEF HeartbeatLoop, HeartbeatOnce, Beat, BeatFails, LookUp
<1> QED BY <1>0, <1>1, <1>2, <1>3, ModesKept

LEMMA ModesStep == Shape /\ Modes /\ [WNext]_wvars => Modes'
<1> SUFFICES ASSUME Shape, Modes, [WNext]_wvars PROVE Modes' OBVIOUS
<1>0. /\ run \in [WorkerIds -> Alive \cup {"exited", "crashed"}]
      /\ releasing \in [WorkerIds -> SUBSET TaskIds]
      /\ gap \in [WorkerIds -> Nat]
  BY DEF Modes
<1>1. ASSUME NEW w \in WorkerIds, NEW d \in Dispatches, Handler(w, d) PROVE Modes'
  <2>1. ASSUME NEW success \in BOOLEAN, Report(w, d, success) PROVE Modes'
    <3>1. /\ dispatch' = [dispatch EXCEPT ![d].at = "leaving"] /\ dispatch[d].at = "handling"
          /\ run' = run /\ releasing' = releasing /\ gap' = gap
      BY <2>1 DEF Report
    <3>2. \A e \in Dispatches : /\ dispatch'[e].owner = dispatch[e].owner
                                /\ \/ dispatch'[e].at = dispatch[e].at
                                   \/ dispatch[e].at = "handling" /\ dispatch'[e].at = "leaving"
      BY <3>1 DEF Shape
    <3> QED BY <1>0, <3>1, <3>2, ModesKept
  <2>2. CASE Leave(w, d)
    <3>1. /\ dispatch' = [dispatch EXCEPT ![d] = NoDispatch]
          /\ run' = run /\ releasing' = releasing /\ gap' = gap
      BY <2>2 DEF Leave
    <3>2. \A e \in Dispatches : dispatch'[e] \in {dispatch[e], NoDispatch} BY <3>1 DEF Shape
    <3>3. ASSUME NEW e \in Dispatches PROVE OwnerIsUp(e)'
      BY <3>1, <3>2 DEF Modes, OwnerIsUp, NoDispatch
    <3> QED BY <1>0, <3>1, <3>3 DEF Modes
  <2> QED BY <1>1, <2>1, <2>2 DEF Handler
<1>2. ASSUME UNCHANGED <<run, dispatch, releasing>>, gap' \in [WorkerIds -> Nat] PROVE Modes'
  BY <1>0, <1>2, ModesKept
<1>3. ASSUME NEW w \in WorkerIds, Terminate(w) PROVE Modes' BY <1>0, <1>2, <1>3 DEF Terminate
<1>4. ASSUME NEW w \in WorkerIds, Crash(w) PROVE Modes' BY <1>4, GoneKeepsModes DEF Crash
<1>5. CASE Submit \/ Sweep BY <1>0, <1>2, <1>5 DEF Submit, Sweep, local
<1>6. CASE Pass
  <2>1. gap' \in [WorkerIds -> Nat] BY <1>0, <1>6 DEF Pass
  <2> QED BY <1>2, <1>6, <2>1 DEF Pass
<1>7. ASSUME NEW t \in TaskIds, Withdraw(t) PROVE Modes' BY <1>0, <1>2, <1>7 DEF Withdraw, local
<1>8. CASE UNCHANGED wvars BY <1>0, <1>2, <1>8 DEF wvars
<1> QED
  BY <1>1, <1>3, <1>4, <1>5, <1>6, <1>7, <1>8, RunLoopKeepsModes, HeartbeatKeepsModes DEF WNext

-----------------------------------------------------------------------------
(* Shutdown.  While releaseRemaining is at work, every dispatch that still *)
(* executes and holds its row is on the list it works through.             *)
ReleaseLists ==
    \A w \in WorkerIds : run[w] = "releasing" =>
        \A d \in Of(w) : (dispatch[d].at = "handling" /\ Holds(w, d[1])) => d[1] \in releasing[w]

(* What may happen to a Run loop's list and to where it is, when it is or  *)
(* gets to releasing.                                                      *)
LEMMA ReleasingSteps ==
    ASSUME Modes, WNext, NEW w \in WorkerIds, run'[w] = "releasing"
    PROVE  \/ GraceExpires(w)
           \/ run[w] = "releasing" /\ \E t \in TaskIds : Release(w, t)
           \/ run[w] = "releasing" /\ releasing'[w] = releasing[w]
<1>0. /\ run \in [WorkerIds -> Alive \cup {"exited", "crashed"}]
      /\ releasing \in [WorkerIds -> SUBSET TaskIds]
  BY DEF Modes
<1> DEFINE Goal == \/ GraceExpires(w)
                   \/ run[w] = "releasing" /\ \E t \in TaskIds : Release(w, t)
                   \/ run[w] = "releasing" /\ releasing'[w] = releasing[w]
<1> SUFFICES Goal OBVIOUS
<1>1. ASSUME UNCHANGED <<run, releasing>> PROVE Goal BY <1>1
<1>2. ASSUME NEW v \in WorkerIds, NEW how \in {"exited", "crashed"}, Gone(v, how) PROVE Goal
  BY <1>0, <1>2 DEF Gone
<1>3. ASSUME NEW v \in WorkerIds, RunLoop(v) PROVE Goal
  <2>1. CASE ClaimTasks(v) BY <1>0, <2>1 DEF ClaimTasks
  <2>2. CASE ClaimReplyLost(v) BY <1>0, <2>2 DEF ClaimReplyLost
  <2>3. ASSUME NEW d \in Dispatches, StartDispatch(v, d) PROVE Goal
    BY <1>0, <2>3 DEF StartDispatch
  <2>4. CASE Shutdown(v) BY <1>0, <2>4 DEF Shutdown
  <2>5. CASE GraceExpires(v) BY <1>0, <2>5 DEF GraceExpires
  <2>6. CASE Drained(v) \/ Released(v) BY <1>2, <2>6 DEF Drained, Released
  <2>7. ASSUME NEW t \in TaskIds, Release(v, t) PROVE Goal BY <1>0, <2>7 DEF Release
  <2> HIDE DEF Goal
  <2> QED BY <1>3, <2>1, <2>2, <2>3, <2>4, <2>5, <2>6, <2>7 DEF RunLoop
<1>4. ASSUME NEW v \in WorkerIds, HeartbeatLoop(v) PROVE Goal
  BY <1>1, <1>4 DEF HeartbeatLoop, HeartbeatOnce, Beat, BeatFails, LookUp, CancelSuspect
<1>5. ASSUME NEW v \in WorkerIds, NEW d \in Dispatches, Handler(v, d) PROVE Goal
  <2>1. ASSUME NEW success \in BOOLEAN, Report(v, d, success) PROVE UNCHANGED <<run, releasing>>
    BY <2>1 DEF Report
  <2>2. ASSUME Leave(v, d) PROVE UNCHANGED <<run, releasing>> BY <2>2 DEF Leave
  <2> HIDE DEF Goal
  <2> QED BY <1>1, <1>5, <2>1, <2>2 DEF Handler
<1>6. ASSUME NEW v \in WorkerIds, Terminate(v) \/ Crash(v) PROVE Goal
  BY <1>1, <1>2, <1>6 DEF Terminate, Crash
<1>7. CASE Submit \/ Sweep \/ Pass BY <1>1, <1>7 DEF Submit, Sweep, Pass, local
<1>8. ASSUME NEW t \in TaskIds, Withdraw(t) PROVE Goal BY <1>1, <1>8 DEF Withdraw, local
<1> HIDE DEF Goal
<1> QED BY <1>3, <1>4, <1>5, <1>6, <1>7, <1>8 DEF WNext

(* Only its own Claim gives a worker a row it did not hold.                *)
LEMMA OnlyOwnClaimHolds ==
    ASSUME Inv, Shape, WNext, NEW w \in WorkerIds, NEW t \in TaskIds, Holds(w, t)'
    PROVE  ClaimTasks(w) \/ (Holds(w, t) /\ tasks'[t].attempts = tasks[t].attempts)
<1>0. tasks \in [TaskIds -> Row] /\ tasks[t] \in Row BY DEF Inv
<1>1. CASE NoClaimStep
  <2>1. ClaimKept(t) BY <1>1, OnlyClaimClaims
  <2> QED BY <2>1, NullAssumption DEF ClaimKept, Holds
<1>2. ASSUME NEW v \in WorkerIds, ClaimTasks(v), v # w
      PROVE  Holds(w, t) /\ tasks'[t].attempts = tasks[t].attempts
  <2>1. PICK q \in Queues, batch \in SUBSET TaskIds : Claim(v, q, batch) BY <1>2 DEF ClaimTasks
  <2>2. tasks'[t] = IF t \in batch THEN Claimed(tasks[t], v) ELSE tasks[t] BY <2>1 DEF Claim
  <2>3. t \notin batch BY <1>0, <1>2, <2>2 DEF Holds, Claimed, Row
  <2> QED BY <2>2, <2>3 DEF Holds
<1> QED BY <1>1, <1>2, StepsOfTheTable

LEMMA ReleaseListsStep ==
    ASSUME ~StoreErrors, SInv, Modes, ReleaseLists, WNext
    PROVE  ReleaseLists'
<1>0. Inv /\ Shape BY DEF SInv
<1> SUFFICES ASSUME NEW w \in WorkerIds, run'[w] = "releasing", NEW d \in Of(w)',
                    dispatch'[d].at = "handling", Holds(w, d[1])'
             PROVE  d[1] \in releasing'[w]
  BY DEF ReleaseLists
<1>1. d \in Dispatches /\ d[1] \in TaskIds /\ dispatch'[d].owner = w BY DEF Of, Dispatches
<1>2. ~ClaimTasks(w)
  <2>1. ClaimTasks(w) => run'[w] = "receiving" BY DEF ClaimTasks, Modes
  <2> QED BY <2>1
<1>3. Holds(w, d[1]) BY <1>0, <1>1, <1>2, OnlyOwnClaimHolds
<1>4. CASE \E v \in WorkerIds : ClaimTasks(v)
  <2>1. PICK v \in WorkerIds : ClaimTasks(v) BY <1>4
  <2>2. dispatch'[d] = dispatch[d] BY <1>1, <2>1 DEF ClaimTasks
  <2>3. d \in Of(w) /\ dispatch[d].at = "handling" BY <1>1, <2>2 DEF Of
  <2>4. run[w] = "releasing" /\ releasing' = releasing
    BY <1>2, <2>1 DEF ClaimTasks, Modes
  <2> QED BY <1>3, <2>3, <2>4 DEF ReleaseLists
<1> SUFFICES ASSUME ~\E v \in WorkerIds : ClaimTasks(v) PROVE d[1] \in releasing'[w]
  BY <1>4
<1>5. d \in Of(w) /\ dispatch[d].at = "handling"
  <2>1. d \in Of(w) BY <1>0, <1>1, DispatchFields, NullAssumption DEF Of
  <2>2. ASSUME NEW v \in WorkerIds, StartDispatch(v, d) PROVE FALSE
    <3>1. v = w BY <2>1, <2>2 DEF StartDispatch, Received, Of
    <3> QED BY <2>2, <3>1 DEF StartDispatch, Modes
  <2> QED BY <1>0, <1>1, <2>1, <2>2, DispatchFields
<1>6. inFlight[w][d[1]] = d[2] /\ d[2] # 0
  <2>1. d[2] # 0 BY <1>1 DEF Dispatches, Attempts
  <2> QED BY <1>1, <1>5, <2>1 DEF SInv, InFlightTracksDispatches, Of
<1>7. CASE GraceExpires(w)
  <2>1. releasing'[w] = InFlightIds(w) BY <1>7 DEF GraceExpires, Modes
  <2> QED BY <1>1, <1>6, <2>1 DEF InFlightIds
<1>8. ASSUME run[w] = "releasing", releasing'[w] = releasing[w] PROVE d[1] \in releasing'[w]
  BY <1>3, <1>5, <1>8 DEF ReleaseLists
<1>9. ASSUME run[w] = "releasing", NEW t \in TaskIds, Release(w, t) PROVE d[1] \in releasing'[w]
  <2>1. releasing'[w] = releasing[w] \ {t} BY <1>9 DEF Release, Modes
  <2>2. d[1] \in releasing[w] BY <1>3, <1>5, <1>9 DEF ReleaseLists
  <2>3. ~Holds(w, t)'
    <3>1. CASE Fail(w, t)
      <4>1. tasks \in [TaskIds -> Row] /\ tasks[t] \in Row BY <1>0 DEF Inv
      <4>2. PICK delay : tasks' = [tasks EXCEPT ![t] = Failed(tasks[t], delay)]
        BY <3>1 DEF Fail
      <4>3. tasks'[t].claimed_by = NULL BY <4>1, <4>2 DEF Failed, RetryOrDead, Row
      <4> QED BY <4>3, NullAssumption DEF Holds
    <3>2. CASE ~Holds(w, t) /\ UNCHANGED tasks BY <3>2 DEF Holds
    <3> QED BY <1>9, <3>1, <3>2 DEF Release
  <2> QED BY <2>1, <2>2, <2>3
<1> QED BY <1>7, <1>8, <1>9, ReleasingSteps

(* With one slot per process and a store that answers, releaseRemaining    *)
(* leaves nothing behind: when it is through, no dispatch still executing  *)
(* holds its row, however the handlers, the heartbeat loop, the sweeper    *)
(* and the other workers interleave with it.                               *)
THEOREM ReleaseCovers ==
    ASSUME Concurrency = 1, ~StoreErrors
    PROVE  WSpec => []ReleaseCoversExecuting
<1> DEFINE RInv == SInv /\ Modes /\ ReleaseLists
<1>1. WInit => RInv
  <2>1. WInit => ReleaseLists BY DEF WInit, ReleaseLists
  <2> QED BY <2>1, SlotsInit, ModesInit
<1>2. RInv /\ [WNext]_wvars => RInv'
  <2> SUFFICES ASSUME RInv, [WNext]_wvars PROVE RInv' OBVIOUS
  <2>1. SInv' /\ Modes' BY SlotsStep, ModesStep DEF SInv
  <2>2. CASE UNCHANGED wvars BY <2>1, <2>2 DEF wvars, ReleaseLists, Of, Holds
  <2>3. CASE WNext BY <2>1, <2>3, ReleaseListsStep
  <2> QED BY <2>2, <2>3
<1>3. RInv => ReleaseCoversExecuting BY DEF ReleaseLists, ReleaseCoversExecuting
<1> QED BY <1>1, <1>2, <1>3, PTL DEF WSpec

-----------------------------------------------------------------------------
(* A healthy fleet: the store answers and no worker stalls for longer than *)
(* the TTL.  The row of a live dispatch is its own, and has been silent no *)
(* longer than the heartbeat loop has.                                     *)
AttemptOwner ==
    \A d \in Dispatches :
        (/\ dispatch[d].owner # NULL
         /\ tasks[d[1]].attempts = d[2]
         /\ tasks[d[1]].claimed_by # NULL) => Holds(dispatch[d].owner, d[1])

RowsHeld ==
    \A d \in Dispatches :
        (\/ dispatch[d].at = "received"
         \/ dispatch[d].at = "handling" /\ ~dispatch[d].cancelled)
            => Holds(dispatch[d].owner, d[1]) /\ tasks[d[1]].attempts = d[2]

(* What a row that dispatch d of worker w holds has heard of late.         *)
HeardOf(w, d) ==
    /\ dispatch[d].at = "received" => tasks[d[1]].silence = 0
    /\ dispatch[d].at = "handling" => tasks[d[1]].silence <= gap[w]
    /\ (dispatch[d].at = "handling" /\ beat[w].at = "sending")
          => d[1] \in beat[w].ids \/ tasks[d[1]].silence = 0

BeatsInTime ==
    \A w \in WorkerIds :
        /\ gap[w] <= BeatGap
        /\ \A d \in Of(w) : Holds(w, d[1]) => HeardOf(w, d)

HInv == SInv /\ Modes /\ AttemptOwner /\ RowsHeld /\ BeatsInTime

(* Short of time passing, a row that stays or becomes nobody's new claim   *)
(* is heard of or not, but is not silent for longer.                       *)
LEMMA NoSilenceGained ==
    ASSUME Inv, StillStep, NEW t \in TaskIds, tasks'[t].claimed_by # NULL
    PROVE  tasks'[t].silence \in {tasks[t].silence, 0}
<1>0. tasks \in [TaskIds -> Row] /\ RowOK(tasks[t]) /\ tasks[t] \in Row BY DEF Inv
<1>1. CASE UNCHANGED tasks BY <1>1
<1>2. CASE SomeEnqueue BY <1>0, <1>2 DEF SomeEnqueue, Enqueue, Inserted, NoRow
<1>3. CASE RecoverOrphans BY <1>0, <1>3 DEF RecoverOrphans, Recovered, RetryOrDead, Row
<1>4. ASSUME NEW u \in TaskIds, Cancel(u) PROVE tasks'[t].silence = tasks[t].silence
  BY <1>0, <1>4 DEF Cancel, Row
<1>5. ASSUME NEW w \in WorkerIds, NEW ids \in SUBSET TaskIds, Heartbeat(w, ids)
      PROVE  tasks'[t].silence \in {tasks[t].silence, 0}
  BY <1>0, <1>5 DEF Heartbeat, Row
<1>6. ASSUME NEW w \in WorkerIds, NEW u \in TaskIds, Complete(w, u)
      PROVE  tasks'[t].silence = tasks[t].silence
  BY <1>0, <1>6 DEF Complete, Completed, Row
<1>7. ASSUME NEW w \in WorkerIds, NEW u \in TaskIds, Fail(w, u)
      PROVE  tasks'[t].silence = tasks[t].silence
  <2>1. PICK delay : tasks' = [tasks EXCEPT ![u] = Failed(tasks[u], delay)]
    BY <1>7 DEF Fail
  <2>2. u # t BY <1>0, <2>1 DEF Failed, RetryOrDead, Row
  <2> QED BY <1>0, <2>1, <2>2
<1> QED BY <1>1, <1>2, <1>3, <1>4, <1>5, <1>6, <1>7 DEF StillStep

(* A claimed row is running and carries a heartbeat.                       *)
LEMMA ClaimedRow ==
    ASSUME Inv, NEW w \in WorkerIds, NEW t \in TaskIds, Holds(w, t)
    PROVE  /\ tasks \in [TaskIds -> Row] /\ tasks[t] \in Row
           /\ tasks[t].status = "running" /\ tasks[t].silence \in Silences
BY NullAssumption DEF Inv, RowOK, Row, Holds

(* What ClaimTasks does to the rows and to the dispatches of one batch.    *)
LEMMA ClaimEffect ==
    ASSUME Inv, NEW w \in WorkerIds, ClaimTasks(w), NEW d \in Dispatches
    PROVE  \/ /\ dispatch'[d] = [owner |-> w, at |-> "received", cancelled |-> FALSE]
              /\ tasks'[d[1]].claimed_by = w /\ tasks'[d[1]].silence = 0
              /\ tasks'[d[1]].attempts = d[2]
           \/ /\ dispatch'[d] = dispatch[d]
              /\ \/ tasks'[d[1]] = tasks[d[1]]
                 \/ /\ tasks[d[1]].claimed_by = NULL
                    /\ tasks'[d[1]].attempts # d[2]
                    /\ tasks'[d[1]].claimed_by = w
<1>1. PICK q \in Queues, batch \in SUBSET TaskIds :
        /\ Claim(w, q, batch)
        /\ dispatch' = [e \in Dispatches |->
                           IF e[1] \in batch /\ e[2] = tasks[e[1]].attempts + 1
                           THEN [owner |-> w, at |-> "received", cancelled |-> FALSE]
                           ELSE dispatch[e]]
  BY DEF ClaimTasks
<1>2. d[1] \in TaskIds BY DEF Dispatches
<1>3. tasks[d[1]] \in Row /\ RowOK(tasks[d[1]]) BY <1>2 DEF Inv
<1>4. d[1] \notin batch => tasks'[d[1]] = tasks[d[1]] BY <1>1, <1>2 DEF Claim
<1>5. d[1] \in batch => /\ tasks'[d[1]].claimed_by = w /\ tasks'[d[1]].silence = 0
                        /\ tasks'[d[1]].attempts = tasks[d[1]].attempts + 1
                        /\ tasks[d[1]].status = "pending"
  BY <1>1, <1>2, <1>3 DEF Claim, Claimed, Row, Due
<1>6. tasks[d[1]].status = "pending" => tasks[d[1]].claimed_by = NULL
  BY <1>3 DEF RowOK
<1> QED BY <1>1, <1>2, <1>4, <1>5, <1>6

LEMMA AttemptOwnerStep ==
    ASSUME Inv, Shape, AttemptOwner, WNext
    PROVE  AttemptOwner'
<1> SUFFICES ASSUME NEW d \in Dispatches, dispatch'[d].owner # NULL,
                    tasks'[d[1]].attempts = d[2], tasks'[d[1]].claimed_by # NULL
             PROVE  tasks'[d[1]].claimed_by = dispatch'[d].owner
  BY DEF AttemptOwner, Holds
<1>0. d[1] \in TaskIds BY DEF Dispatches
<1>1. ASSUME NEW w \in WorkerIds, ClaimTasks(w)
      PROVE  tasks'[d[1]].claimed_by = dispatch'[d].owner
  <2>1. CASE /\ dispatch'[d] = [owner |-> w, at |-> "received", cancelled |-> FALSE]
             /\ tasks'[d[1]].claimed_by = w
    BY <2>1
  <2>2. CASE dispatch'[d] = dispatch[d] /\ tasks'[d[1]] = tasks[d[1]]
    BY <2>2 DEF AttemptOwner, Holds
  <2> QED BY <1>1, <2>1, <2>2, ClaimEffect
<1>2. CASE ~\E w \in WorkerIds : ClaimTasks(w)
  <2>1. dispatch'[d].owner = dispatch[d].owner BY <1>2, DispatchFields
  <2>2. ClaimKept(d[1]) BY <1>0, <1>2, StepsOfTheTable, OnlyClaimClaims
  <2> QED BY <2>1, <2>2 DEF ClaimKept, AttemptOwner, Holds
<1> QED BY <1>1, <1>2

(* Live rows are not orphans: a dispatch received or executing that holds  *)
(* its row has been heard of within the TTL.                               *)
LEMMA LiveRowNotOrphaned ==
    ASSUME BeatGap <= HeartbeatTTL, HInv, NEW w \in WorkerIds, NEW d \in Of(w), Holds(w, d[1]),
           dispatch[d].at \in {"received", "handling"}
    PROVE  ~Orphaned(tasks[d[1]])
<1>1. d[1] \in TaskIds BY DEF Of, Dispatches
<1>2. tasks[d[1]].silence \in Silences BY <1>1, ClaimedRow DEF HInv, SInv
<1>3. gap[w] \in Nat /\ gap[w] <= BeatGap /\ HeardOf(w, d) BY DEF HInv, Modes, BeatsInTime
<1> QED BY <1>2, <1>3, TTLAssumption, TimingAssumption DEF HeardOf, Orphaned, Silences

(* The claim of a live dispatch outlasts every step that leaves it live:   *)
(* its own report ends it, a release cancels it, and no sweep comes in     *)
(* time.                                                                   *)
LEMMA LiveClaimKept ==
    ASSUME ~StoreErrors, BeatGap <= HeartbeatTTL, HInv, WNext,
           ~\E v \in WorkerIds : ClaimTasks(v),
           NEW w \in WorkerIds, NEW d \in Of(w), Holds(w, d[1]),
           \/ dispatch[d].at = "received" /\ dispatch'[d].at \in {"received", "handling"}
           \/ /\ dispatch[d].at = "handling" /\ dispatch'[d].at = "handling"
              /\ ~dispatch'[d].cancelled
    PROVE  tasks'[d[1]].claimed_by = w /\ tasks'[d[1]].attempts = tasks[d[1]].attempts
<1> DEFINE t == d[1]
           Kept == tasks'[t].claimed_by = w /\ tasks'[t].attempts = tasks[t].attempts
<1> SUFFICES Kept OBVIOUS
<1>0. Inv /\ Shape /\ OneDispatch /\ InFlightTracksDispatches /\ Modes
  BY DEF HInv, SInv
<1>1. d \in Dispatches /\ t \in TaskIds /\ dispatch[d].owner = w BY DEF Of, Dispatches
<1>2. /\ tasks \in [TaskIds -> Row] /\ tasks[t] \in Row
      /\ tasks[t].status = "running" /\ tasks[t].claimed_by = w
  BY <1>0, <1>1, ClaimedRow DEF Holds
<1>3. dispatch[d].at \in {"received", "handling"} OBVIOUS
<1>4. ASSUME UNCHANGED tasks PROVE Kept BY <1>2, <1>4
<1>5. ASSUME NEW v \in WorkerIds, NEW u \in TaskIds, Complete(v, u) \/ Fail(v, u), ~Kept
      PROVE  v = w /\ u = t
  <2>1. PICK row : tasks' = [tasks EXCEPT ![u] = row] BY <1>5 DEF Complete, Fail
  <2>2. u = t BY <1>1, <1>2, <1>5, <2>1
  <2> QED BY <1>2, <1>5, <2>2 DEF Complete, Fail, Holds
<1>6. ASSUME NEW v \in WorkerIds, NEW e \in Dispatches, NEW success \in BOOLEAN,
             Report(v, e, success)
      PROVE  Kept
  <2> SUFFICES ASSUME ~Kept PROVE FALSE OBVIOUS
  <2>1. e[1] \in TaskIds BY DEF Dispatches
  <2>2. UNCHANGED tasks \/ Complete(v, e[1]) \/ Fail(v, e[1]) BY <1>6 DEF Report
  <2>3. v = w BY <1>4, <1>5, <2>1, <2>2
  <2>4. dispatch[e].owner = v /\ dispatch' = [dispatch EXCEPT ![e].at = "leaving"]
    BY <1>6 DEF Report
  <2>5. e = d BY <1>0, <1>1, <2>3, <2>4 DEF OneDispatch, Of
  <2>6. dispatch'[d].at = "leaving" BY <1>0, <2>4, <2>5 DEF Shape
  <2> QED BY <2>6
<1>7. ASSUME NEW v \in WorkerIds, NEW u \in TaskIds, Release(v, u) PROVE Kept
  <2> SUFFICES ASSUME ~Kept PROVE FALSE OBVIOUS
  <2>1. UNCHANGED tasks \/ Fail(v, u) BY <1>7 DEF Release
  <2>2. v = w /\ u = t BY <1>4, <1>5, <2>1
  <2>3. run[w] = "releasing" /\ CancelEntry(w, t) BY <1>7, <2>2 DEF Release
  <2>4. dispatch[d].at = "handling" /\ ~dispatch'[d].cancelled
    BY <1>0, <1>1, <2>3 DEF Modes, OwnerIsUp
  <2>5. inFlight[w][t] = d[2] /\ d[2] # 0 /\ d = <<t, d[2]>>
    BY <1>0, <1>1, <2>4 DEF InFlightTracksDispatches, Dispatches, Attempts
  <2>6. dispatch' = [dispatch EXCEPT ![d].cancelled = TRUE]
    BY <2>3, <2>5 DEF CancelEntry
  <2> QED BY <1>0, <1>1, <2>4, <2>6 DEF Shape
<1>8. CASE Sweep
  <2>1. ~Orphaned(tasks[t]) BY <1>1, <1>3, LiveRowNotOrphaned
  <2> QED BY <1>1, <1>2, <1>8, <2>1 DEF Sweep, RecoverOrphans
<1>9. CASE Submit BY <1>1, <1>2, <1>9 DEF Submit, SomeEnqueue, Enqueue
<1>10. ASSUME NEW u \in TaskIds, Withdraw(u) PROVE Kept
  BY <1>1, <1>2, <1>10 DEF Withdraw, Cancel
<1>11. CASE Pass BY <1>1, <1>2, <1>11, TimeOnly DEF Pass, Elapse
<1>12. ASSUME NEW v \in WorkerIds, HeartbeatLoop(v) PROVE Kept
  <2>1. CASE Beat(v) BY <1>1, <1>2, <2>1, TimeOnly DEF Beat, Heartbeat
  <2> QED BY <1>4, <1>12, <2>1 DEF HeartbeatLoop, HeartbeatOnce, BeatFails, LookUp, CancelSuspect
<1>13. ASSUME NEW v \in WorkerIds, RunLoop(v) PROVE Kept
  <2> HIDE DEF Kept
  <2> QED BY <1>4, <1>7, <1>13 DEF RunLoop, ClaimReplyLost, StartDispatch, Shutdown, Drained,
                                   GraceExpires, Released
<1>14. ASSUME NEW v \in WorkerIds, Terminate(v) \/ Crash(v) PROVE Kept
  BY <1>4, <1>14 DEF Terminate, Crash
<1>15. ASSUME NEW v \in WorkerIds, NEW e \in Dispatches, Leave(v, e) PROVE Kept
  BY <1>4, <1>15 DEF Leave
<1> HIDE DEF Kept
<1> QED BY <1>6, <1>8, <1>9, <1>10, <1>11, <1>12, <1>13, <1>14, <1>15 DEF WNext, Handler

(* A dispatch that is received, or executes and has not been told to stop. *)
Live(d) == \/ dispatch[d].at = "received"
           \/ dispatch[d].at = "handling" /\ ~dispatch[d].cancelled

LEMMA LiveBefore ==
    ASSUME Shape, Modes, WNext, ~\E w \in WorkerIds : ClaimTasks(w),
           NEW d \in Dispatches, Live(d)'
    PROVE  /\ Live(d) /\ dispatch'[d].owner = dispatch[d].owner /\ dispatch[d].owner \in WorkerIds
           /\ dispatch'[d].at \in {dispatch[d].at, "handling"}
<1>1. dispatch[d] \in [owner : WorkerIds \cup {NULL},
                       at : {"none", "received", "handling", "leaving"}, cancelled : BOOLEAN]
  BY DEF Shape
<1>2. Live(d) /\ dispatch'[d].at \in {dispatch[d].at, "handling"}
  BY <1>1, DispatchFields DEF Live
<1>3. dispatch[d].owner # NULL BY <1>2 DEF Live, Modes, OwnerIsUp
<1>4. dispatch'[d].owner # NULL
  <2>1. Modes' BY ModesStep
  <2> QED BY <2>1 DEF Live, Modes, OwnerIsUp
<1> QED BY <1>1, <1>2, <1>3, <1>4, DispatchFields

LEMMA RowsHeldStep ==
    ASSUME ~StoreErrors, BeatGap <= HeartbeatTTL, HInv, WNext
    PROVE  RowsHeld'
<1>0. Inv /\ Shape /\ Modes /\ RowsHeld BY DEF HInv, SInv
<1> SUFFICES ASSUME NEW d \in Dispatches, Live(d)'
             PROVE  /\ tasks'[d[1]].claimed_by = dispatch'[d].owner
                    /\ tasks'[d[1]].attempts = d[2]
  BY DEF RowsHeld, Live, Holds
<1> DEFINE Goal == /\ tasks'[d[1]].claimed_by = dispatch'[d].owner
                   /\ tasks'[d[1]].attempts = d[2]
<1>1. ASSUME NEW w \in WorkerIds, ClaimTasks(w) PROVE Goal
  <2>1. CASE /\ dispatch'[d] = [owner |-> w, at |-> "received", cancelled |-> FALSE]
             /\ tasks'[d[1]].claimed_by = w /\ tasks'[d[1]].attempts = d[2]
    BY <2>1
  <2>2. CASE dispatch'[d] = dispatch[d] /\ tasks'[d[1]] = tasks[d[1]]
    <3>1. Live(d) BY <2>2 DEF Live
    <3>2. tasks[d[1]].claimed_by = dispatch[d].owner /\ tasks[d[1]].attempts = d[2]
      BY <1>0, <3>1 DEF Live, RowsHeld, Holds
    <3> QED BY <2>2, <3>2
  <2>3. CASE dispatch'[d] = dispatch[d] /\ tasks[d[1]].claimed_by = NULL
    <3>1. Live(d) BY <2>3 DEF Live
    <3>2. tasks[d[1]].claimed_by = dispatch[d].owner BY <1>0, <3>1 DEF Live, RowsHeld, Holds
    <3>3. dispatch[d].owner # NULL BY <1>0, <3>1 DEF Live, Modes, OwnerIsUp
    <3> QED BY <2>3, <3>2, <3>3
  <2> QED BY <1>0, <1>1, <2>1, <2>2, <2>3, ClaimEffect
<1>2. CASE ~\E w \in WorkerIds : ClaimTasks(w)
  <2> DEFINE w == dispatch[d].owner
  <2>1. /\ Live(d) /\ dispatch'[d].owner = w /\ w \in WorkerIds
        /\ dispatch'[d].at \in {dispatch[d].at, "handling"}
    BY <1>0, <1>2, LiveBefore
  <2>2. d \in Of(w) /\ Holds(w, d[1]) /\ tasks[d[1]].attempts = d[2]
    BY <1>0, <2>1 DEF Live, RowsHeld, Of
  <2>3. \/ dispatch[d].at = "received" /\ dispatch'[d].at \in {"received", "handling"}
        \/ /\ dispatch[d].at = "handling" /\ dispatch'[d].at = "handling"
           /\ ~dispatch'[d].cancelled
    BY <2>1 DEF Live
  <2> HIDE DEF w
  <2> QED BY <1>2, <2>1, <2>2, <2>3, LiveClaimKept
<1> QED BY <1>1, <1>2

(* The heartbeat loop's snapshot and clock change in its own steps only.   *)
LEMMA BeatSteps ==
    ASSUME Shape, Modes, WNext, ~Pass, NEW w \in WorkerIds
    PROVE  \/ HeartbeatOnce(w) \/ Beat(w)
           \/ Of(w)' = {} /\ gap'[w] = 0
           \/ /\ gap'[w] = gap[w]
              /\ beat'[w].at = "sending" => beat[w].at = "sending" /\ beat'[w].ids = beat[w].ids
<1> DEFINE Same == /\ gap'[w] = gap[w]
                   /\ beat'[w].at = "sending" => beat[w].at = "sending" /\ beat'[w].ids = beat[w].ids
           Goal == HeartbeatOnce(w) \/ Beat(w) \/ (Of(w)' = {} /\ gap'[w] = 0) \/ Same
<1> SUFFICES Goal OBVIOUS
<1>0. beat \in [WorkerIds -> BeatState] /\ gap \in [WorkerIds -> Nat] BY DEF Shape, Modes
<1>1. ASSUME UNCHANGED <<beat, gap>> PROVE Same BY <1>1
<1>2. ASSUME NEW v \in WorkerIds, NEW how, Gone(v, how) PROVE (Of(w)' = {} /\ gap'[w] = 0) \/ Same
  <2>1. CASE v = w
    <3>1. Of(w)' = {} BY <1>2, <2>1, NullAssumption DEF Gone, Of, NoDispatch
    <3>2. gap'[w] = 0 BY <1>0, <1>2, <2>1 DEF Gone
    <3> QED BY <3>1, <3>2
  <2>2. CASE v # w
    <3>1. gap'[w] = gap[w] /\ beat'[w] = beat[w] BY <1>0, <1>2, <2>2 DEF Gone
    <3> QED BY <3>1
  <2> QED BY <2>1, <2>2
<1>3. ASSUME NEW v \in WorkerIds, HeartbeatLoop(v), v # w PROVE Same
  <2>1. \A b : beat' = [beat EXCEPT ![v] = b] => beat'[w] = beat[w] BY <1>0, <1>3
  <2>2. \A g : gap' = [gap EXCEPT ![v] = g] => gap'[w] = gap[w] BY <1>0, <1>3
  <2>3. gap'[w] = gap[w]
    BY <1>3, <2>2 DEF HeartbeatLoop, HeartbeatOnce, Beat, BeatFails, LookUp, CancelSuspect
  <2>4. beat'[w] = beat[w]
    BY <1>3, <2>1 DEF HeartbeatLoop, HeartbeatOnce, Beat, BeatFails, LookUp, CancelSuspect
  <2> QED BY <2>3, <2>4
<1>4. ASSUME HeartbeatLoop(w), ~HeartbeatOnce(w), ~Beat(w) PROVE Same
  <2>1. CASE BeatFails(w) BY <1>0, <2>1 DEF BeatFails, NoBeat
  <2>2. ASSUME NEW t \in TaskIds, NEW found \in BOOLEAN, LookUp(w, t, found) PROVE Same
    <3> DEFINE s == IF ~found \/ Holds(w, t) THEN NULL ELSE t
               b == [beat[w] EXCEPT !.ids = beat[w].ids \ {t}, !.suspect = s]
    <3>1. beat'[w] = WaitIfDone(b) /\ gap'[w] = gap[w] /\ beat[w].at = "checking"
      BY <1>0, <2>2 DEF LookUp
    <3>2. b.at = "checking" BY <1>0, <3>1 DEF BeatState
    <3> HIDE DEF b
    <3> QED BY <3>1, <3>2 DEF WaitIfDone, NoBeat
  <2>3. CASE CancelSuspect(w)
    <3> DEFINE b == [beat[w] EXCEPT !.suspect = NULL]
    <3>1. beat'[w] = WaitIfDone(b) /\ gap'[w] = gap[w] BY <1>0, <2>3 DEF CancelSuspect
    <3>2. b.at = beat[w].at /\ b.ids = beat[w].ids BY <1>0 DEF BeatState
    <3> HIDE DEF b
    <3> QED BY <3>1, <3>2 DEF WaitIfDone, NoBeat
  <2> HIDE DEF Same
  <2> QED BY <1>4, <2>1, <2>2, <2>3 DEF HeartbeatLoop
<1>5. ASSUME NEW v \in WorkerIds, RunLoop(v) PROVE Goal
  <2>1. CASE ClaimTasks(v) BY <1>1, <2>1 DEF ClaimTasks
  <2>2. CASE ClaimReplyLost(v) BY <1>1, <2>2 DEF ClaimReplyLost
  <2>3. ASSUME NEW d \in Dispatches, StartDispatch(v, d) PROVE Goal
    BY <1>1, <2>3 DEF StartDispatch
  <2>4. CASE Shutdown(v) \/ GraceExpires(v) BY <1>1, <2>4 DEF Shutdown, GraceExpires
  <2>5. CASE Drained(v) \/ Released(v) BY <1>2, <2>5 DEF Drained, Released
  <2>6. ASSUME NEW t \in TaskIds, Release(v, t) PROVE Goal BY <1>1, <2>6 DEF Release
  <2> HIDE DEF Goal
  <2> QED BY <1>5, <2>1, <2>2, <2>3, <2>4, <2>5, <2>6 DEF RunLoop
<1>6. ASSUME NEW v \in WorkerIds, NEW d \in Dispatches, Handler(v, d) PROVE Goal
  <2>1. ASSUME NEW success \in BOOLEAN, Report(v, d, success) PROVE UNCHANGED <<beat, gap>>
    BY <2>1 DEF Report
  <2>2. ASSUME Leave(v, d) PROVE UNCHANGED <<beat, gap>> BY <2>2 DEF Leave
  <2> HIDE DEF Same
  <2> QED BY <1>1, <1>6, <2>1, <2>2 DEF Handler
<1>7. ASSUME NEW v \in WorkerIds, Terminate(v) \/ Crash(v) PROVE Goal
  BY <1>1, <1>2, <1>7 DEF Terminate, Crash
<1>8. CASE Submit \/ Sweep BY <1>1, <1>8 DEF Submit, Sweep, local
<1>9. ASSUME NEW t \in TaskIds, Withdraw(t) PROVE Goal BY <1>1, <1>9 DEF Withdraw, local
<1>10. ASSUME NEW v \in WorkerIds, HeartbeatLoop(v) PROVE Goal
  <2> HIDE DEF Same
  <2> QED BY <1>3, <1>4, <1>10
<1> HIDE DEF Goal
<1> QED BY <1>5, <1>6, <1>7, <1>8, <1>9, <1>10 DEF WNext

(* One more unit of time adds one unit of silence at most.                 *)
LEMMA AgedSilence ==
    ASSUME NEW row \in Row, row.silence \in Silences
    PROVE  Aged(row).silence \in Silences /\ Aged(row).silence <= row.silence + 1
BY TTLAssumption, NullAssumption DEF Aged, Row, Silences

LEMMA HeardOfStep ==
    ASSUME ~Stalls, Concurrency = 1, HInv, WNext,
           NEW w \in WorkerIds, NEW d \in Of(w)', Holds(w, d[1])'
    PROVE  HeardOf(w, d)'
<1>0. Inv /\ Shape /\ Modes /\ InFlightTracksDispatches /\ BeatsInTime BY DEF HInv, SInv
<1>1. d \in Dispatches /\ d[1] \in TaskIds /\ dispatch'[d].owner = w BY DEF Of, Dispatches
<1>2. gap[w] \in Nat /\ gap'[w] \in Nat
  <2>1. Modes' BY <1>0, ModesStep
  <2> QED BY <1>0, <2>1 DEF Modes
<1>3. CASE ClaimTasks(w)
  <2>1. Of(w) = {} BY <1>3, ClaimWithOneSlot DEF ClaimTasks
  <2>2. dispatch'[d] # dispatch[d] BY <1>1, <2>1 DEF Of
  <2>3. /\ dispatch'[d] = [owner |-> w, at |-> "received", cancelled |-> FALSE]
        /\ tasks'[d[1]].silence = 0
    BY <1>0, <1>1, <1>3, <2>2, ClaimEffect
  <2> QED BY <2>3 DEF HeardOf
<1>4. ASSUME NEW v \in WorkerIds, ClaimTasks(v), v # w PROVE HeardOf(w, d)'
  <2>1. dispatch'[d] = dispatch[d] /\ tasks'[d[1]] = tasks[d[1]]
    <3>1. dispatch'[d].owner # v /\ tasks'[d[1]].claimed_by # v BY <1>1, <1>4 DEF Holds
    <3> QED BY <1>0, <1>1, <1>4, <3>1, ClaimEffect
  <2>2. gap' = gap /\ beat' = beat BY <1>4 DEF ClaimTasks
  <2>3. HeardOf(w, d) BY <1>0, <1>1, <2>1 DEF BeatsInTime, Of, Holds
  <2> QED BY <2>1, <2>2, <2>3 DEF HeardOf
<1>5. CASE ~\E v \in WorkerIds : ClaimTasks(v)
  <2>1. Holds(w, d[1]) BY <1>0, <1>1, <1>5, OnlyOwnClaimHolds
  <2>2. dispatch[d].owner = w
    BY <1>0, <1>1, <1>5, DispatchFields, NullAssumption
  <2>3. d \in Of(w) /\ HeardOf(w, d) BY <1>0, <1>1, <2>1, <2>2 DEF BeatsInTime, Of
  <2>4. tasks[d[1]].silence \in Silences /\ tasks[d[1]] \in Row /\ tasks[d[1]].claimed_by = w
        /\ tasks[d[1]].status = "running"
    BY <1>0, <1>1, <2>1, ClaimedRow DEF Holds
  <2>5. /\ dispatch'[d].at = "received" => dispatch[d].at = "received"
        /\ dispatch'[d].at = "handling" => dispatch[d].at \in {"received", "handling"}
    BY <1>0, <1>1, <1>5, DispatchFields
  <2>6. CASE Pass
    <3>1. Prompt(w) /\ run[w] \in Alive /\ dispatch' = dispatch /\ beat' = beat
      BY <1>0, <1>1, <2>2, <2>6, NullAssumption DEF Pass, Modes, OwnerIsUp
    <3>2. gap'[w] = gap[w] + 1 BY <2>6, <3>1 DEF Pass
    <3>3. beat[w].at = "waiting" /\ run[w] \notin {"receiving", "dispatching"}
      BY <3>1 DEF Prompt, NoBeat
    <3>4. dispatch[d].at # "received" BY <1>0, <1>1, <2>2, <3>3 DEF Modes, OwnerIsUp
    <3>5. /\ tasks'[d[1]].silence \in Silences
          /\ tasks'[d[1]].silence <= tasks[d[1]].silence + 1
      BY <1>1, <2>4, <2>6, AgedSilence DEF Pass, Elapse
    <3>6. dispatch[d].at = "handling" => tasks'[d[1]].silence <= gap'[w]
      BY <1>2, <2>3, <2>4, <3>2, <3>5, TTLAssumption DEF HeardOf, Silences
    <3> QED BY <3>1, <3>3, <3>4, <3>6 DEF HeardOf
  <2>7. CASE ~Pass
    <3>1. tasks'[d[1]].silence \in {tasks[d[1]].silence, 0}
      <4>1. StillStep BY <1>0, <1>5, <2>7, StillSteps
      <4> QED BY <1>0, <1>1, <4>1, NoSilenceGained, NullAssumption DEF Holds
    <3>2. CASE tasks'[d[1]].silence = 0 BY <1>2, <3>2 DEF HeardOf
    <3>3. CASE tasks'[d[1]].silence # 0
      <4>1. /\ tasks'[d[1]].silence = tasks[d[1]].silence
            /\ dispatch[d].at # "received" /\ dispatch'[d].at # "received"
            /\ dispatch'[d].at = "handling" => dispatch[d].at = "handling"
        BY <2>3, <2>5, <3>1, <3>3 DEF HeardOf
      <4> SUFFICES ASSUME dispatch'[d].at = "handling"
                   PROVE  /\ tasks[d[1]].silence <= gap'[w]
                          /\ beat'[w].at = "sending" => d[1] \in beat'[w].ids
        BY <4>1 DEF HeardOf
      <4>2. d[1] \in InFlightIds(w)
        BY <1>0, <1>1, <2>2, <4>1 DEF InFlightTracksDispatches, InFlightIds, Dispatches, Attempts
      <4>3. CASE HeartbeatOnce(w)
        <5>1. beat' = [beat EXCEPT ![w] = [NoBeat EXCEPT !.at = "sending", !.ids = InFlightIds(w)]]
              /\ gap' = gap
          BY <4>2, <4>3 DEF HeartbeatOnce
        <5>2. beat'[w].ids = InFlightIds(w) BY <1>0, <5>1 DEF Shape, NoBeat
        <5> QED BY <2>3, <4>1, <4>2, <5>1, <5>2 DEF HeardOf
      <4>4. CASE Beat(w)
        <5>1. beat[w].at = "sending" /\ Heartbeat(w, beat[w].ids) BY <4>4 DEF Beat
        <5>2. d[1] \in beat[w].ids BY <2>3, <3>3, <4>1, <5>1 DEF HeardOf
        <5>3. d[1] \in Refreshed(w, beat[w].ids) BY <2>4, <5>2 DEF Refreshed
        <5>4. tasks'[d[1]] = [tasks[d[1]] EXCEPT !.silence = 0]
          BY <1>1, <5>1, <5>3 DEF Heartbeat
        <5>5. tasks'[d[1]].silence = 0 BY <2>4, <5>4 DEF Row
        <5> QED BY <3>3, <5>5
      <4>5. CASE /\ gap'[w] = gap[w]
                 /\ beat'[w].at = "sending" =>
                       beat[w].at = "sending" /\ beat'[w].ids = beat[w].ids
        BY <2>3, <3>3, <4>1, <4>5 DEF HeardOf
      <4>6. Of(w)' # {} OBVIOUS
      <4> QED BY <1>0, <2>7, <4>3, <4>4, <4>5, <4>6, BeatSteps
    <3> QED BY <3>2, <3>3
  <2> QED BY <2>6, <2>7
<1> QED BY <1>3, <1>4, <1>5

LEMMA BeatsInTimeStep ==
    ASSUME ~Stalls, Concurrency = 1, HInv, WNext
    PROVE  BeatsInTime'
<1>0. Shape /\ Modes /\ BeatsInTime BY DEF HInv, SInv
<1>1. ASSUME NEW w \in WorkerIds PROVE gap'[w] <= BeatGap
  <2>0. gap[w] \in Nat /\ gap[w] <= BeatGap /\ gap \in [WorkerIds -> Nat]
    BY <1>0 DEF Modes, BeatsInTime
  <2>1. CASE Pass
    <3>1. run[w] \in Alive => gap[w] < BeatGap /\ gap'[w] = gap[w] + 1 BY <2>1 DEF Pass, Prompt
    <3>2. run[w] \notin Alive => gap'[w] = 0 BY <2>1 DEF Pass
    <3> QED BY <2>0, <3>1, <3>2, TimingAssumption
  <2>2. CASE ~Pass
    <3>1. gap'[w] \in {gap[w], 0}
      BY <1>0, <2>0, <2>2, BeatSteps DEF HeartbeatOnce, Beat
    <3> QED BY <2>0, <3>1, TimingAssumption
  <2> QED BY <2>1, <2>2
<1> QED BY <1>1, HeardOfStep DEF BeatsInTime

LEMMA HealthyInit == WInit => HInv
<1> SUFFICES ASSUME WInit PROVE HInv OBVIOUS
<1>1. SInv /\ Modes BY SlotsInit, ModesInit
<1>2. \A d \in Dispatches : dispatch[d].owner = NULL /\ dispatch[d].at = "none"
  BY DEF WInit, NoDispatch
<1>3. \A w \in WorkerIds : Of(w) = {} /\ gap[w] = 0 BY <1>2, NullAssumption DEF WInit, Of
<1> QED BY <1>1, <1>2, <1>3, TimingAssumption DEF HInv, AttemptOwner, RowsHeld, BeatsInTime

LEMMA HealthyStep ==
    ASSUME Concurrency = 1, ~StoreErrors, ~Stalls, BeatGap <= HeartbeatTTL, HInv, [WNext]_wvars
    PROVE  HInv'
<1>1. SInv' /\ Modes' BY SlotsStep, ModesStep DEF HInv, SInv
<1>2. CASE UNCHANGED wvars
  BY <1>1, <1>2 DEF wvars, HInv, AttemptOwner, RowsHeld, BeatsInTime, HeardOf, Of, Holds
<1>3. CASE WNext
  <2>1. AttemptOwner' BY <1>3, AttemptOwnerStep DEF HInv, SInv
  <2>2. RowsHeld' BY <1>3, RowsHeldStep
  <2>3. BeatsInTime' BY <1>3, BeatsInTimeStep
  <2> QED BY <1>1, <2>1, <2>2, <2>3 DEF HInv
<1> QED BY <1>2, <1>3

(* "Two workers never execute one task": with one slot per process, a      *)
(* store that answers and no longer than the TTL between two heartbeats,   *)
(* at most one execution of a task is under way that nobody has told to    *)
(* stop, through crashes, shutdowns, retries and sweeps.                   *)
THEOREM HealthyOneExecution ==
    ASSUME Concurrency = 1, ~StoreErrors, ~Stalls, BeatGap <= HeartbeatTTL
    PROVE  WSpec => []OneExecution
<1>1. HInv /\ [WNext]_wvars => HInv' BY HealthyStep
<1>2. HInv => OneExecution
  <2> SUFFICES ASSUME HInv, NEW d \in Dispatches, NEW e \in Dispatches, d[1] = e[1],
                      Live(d), Live(e)
               PROVE  d = e
    BY DEF OneExecution, Live
  <2>1. d[2] = e[2] BY DEF HInv, RowsHeld, Live
  <2>2. d = <<d[1], d[2]>> /\ e = <<e[1], e[2]>> BY DEF Dispatches
  <2> QED BY <2>1, <2>2
<1> QED BY <1>1, <1>2, HealthyInit, PTL DEF WSpec

(* In the same fleet the sweeper (recoverOrphansSQL) takes no task away    *)
(* from a dispatch that is executing it, cancelled or not.                 *)
THEOREM HealthyNotSwept ==
    ASSUME Concurrency = 1, ~StoreErrors, ~Stalls, BeatGap <= HeartbeatTTL
    PROVE  WSpec => LiveTasksNotSwept
<1> DEFINE NotSwept ==
       \A d \in Dispatches : (dispatch[d].at = "handling" /\ tasks[d[1]].attempts = d[2])
                                => ~Orphaned(tasks[d[1]])
<1>1. HInv /\ [WNext]_wvars => HInv' BY HealthyStep
<1>2. HInv => NotSwept
  <2> SUFFICES ASSUME HInv, NEW d \in Dispatches, dispatch[d].at = "handling",
                      tasks[d[1]].attempts = d[2], Orphaned(tasks[d[1]])
               PROVE  FALSE
    OBVIOUS
  <2> DEFINE w == dispatch[d].owner
  <2>0. d[1] \in TaskIds BY DEF Dispatches
  <2>1. w \in WorkerIds /\ w # NULL BY DEF HInv, SInv, Shape, Modes, OwnerIsUp
  <2>2. tasks[d[1]].claimed_by # NULL BY <2>0 DEF HInv, SInv, Inv, RowOK, Orphaned
  <2>3. Holds(w, d[1]) BY <2>1, <2>2 DEF HInv, AttemptOwner
  <2>4. d \in Of(w) BY <2>1 DEF Of
  <2> HIDE DEF w
  <2> QED BY <2>1, <2>3, <2>4, LiveRowNotOrphaned
<1>3. HInv /\ [WNext]_wvars => [Sweep => NotSwept]_wvars BY <1>2
<1> QED BY <1>1, <1>3, HealthyInit, PTL DEF WSpec, LiveTasksNotSwept
=============================================================================
