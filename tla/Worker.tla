------------------------------- MODULE Worker --------------------------------
(***************************************************************************)
(* Worker processes (internal/worker) and the sweeper at work on the tasks *)
(* table.  A worker has three kinds of goroutine that interleave freely:   *)
(* the Run loop that claims, the heartbeat loop, and one dispatch per      *)
(* claimed task.  They share the inFlight map.  A claim increments the     *)
(* attempt count, so a dispatch is named by its task and attempt number.   *)
(*                                                                         *)
(* A worker process that dies comes back under another identity (Identity  *)
(* draws a fresh suffix), so a crashed member of WorkerIds stays crashed.  *)
(***************************************************************************)
EXTENDS TaskStore

CONSTANTS Concurrency,    \* execution slots: the capacity of sem
          BatchLimit,     \* cfg.ClaimBatch
          StoreErrors,    \* may a store call fail, or its reply be lost?
          Stalls,         \* may a worker be starved of CPU or network for long?
          BeatGap,        \* when not: the longest time between two heartbeats
          Crashable,      \* workers that may be killed
          Terminable      \* workers that may be sent SIGTERM

ASSUME FiniteAssumption == IsFiniteSet(TaskIds)
ASSUME SlotAssumption == Concurrency \in Nat \ {0} /\ BatchLimit \in Nat \ {0}
ASSUME TimingAssumption == /\ StoreErrors \in BOOLEAN /\ Stalls \in BOOLEAN
                           /\ BeatGap \in Nat \ {0}
ASSUME FaultAssumption == Crashable \subseteq WorkerIds /\ Terminable \subseteq WorkerIds

VARIABLES run,       \* where the Run loop of each worker is
          signalled, \* whether its ctx has been cancelled
          dispatch,  \* the dispatches, by task and attempt
          inFlight,  \* per worker and task: the attempt whose cancel func is registered, 0 if none
          beat,      \* the heartbeat loop: ids sent, or still to look up; the one found lost
          gap,       \* time since the heartbeat loop last completed a beat
          releasing  \* the ids releaseRemaining has yet to fail

wvars == <<tasks, run, signalled, dispatch, inFlight, beat, gap, releasing>>
local == <<run, signalled, dispatch, inFlight, beat, gap, releasing>>

Attempts == 1..MaxBudget
Dispatches == TaskIds \X Attempts
Alive == {"polling", "receiving", "dispatching", "grace", "releasing"}

NoDispatch == [owner |-> NULL, at |-> "none", cancelled |-> FALSE]
NoBeat == [at |-> "waiting", ids |-> {}, suspect |-> NULL]

(* Init: New, for every worker, on an empty table.                         *)
WInit ==
    /\ Init
    /\ run = [w \in WorkerIds |-> "polling"]
    /\ signalled = [w \in WorkerIds |-> FALSE]
    /\ dispatch = [d \in Dispatches |-> NoDispatch]
    /\ inFlight = [w \in WorkerIds |-> [t \in TaskIds |-> 0]]
    /\ beat = [w \in WorkerIds |-> NoBeat]
    /\ gap = [w \in WorkerIds |-> 0]
    /\ releasing = [w \in WorkerIds |-> {}]

Of(w) == {d \in Dispatches : dispatch[d].owner = w}
Received(w) == {d \in Of(w) : dispatch[d].at = "received"}

(* Faulty variant: a whole batch, whatever is running.                     *)
AvailableBatchWhole(w) == BatchLimit

(* availableBatch: the slots that are free, at most one batch.             *)
AvailableBatch(w) ==
    LET free == Concurrency - Cardinality(Of(w))
    IN  IF free < BatchLimit THEN free ELSE BatchLimit

-----------------------------------------------------------------------------
(* The Run loop.  It waits for a free slot and issues one Claim, whose     *)
(* UPDATE commits before the worker learns anything.  A Claim that finds   *)
(* nothing, or fails, changes nothing: the loop comes round again.  Which  *)
(* queue a worker serves plays no part here: it may claim from any.        *)
ClaimTasks(w) ==
    /\ run[w] = "polling" /\ ~signalled[w]
    /\ Cardinality(Of(w)) < Concurrency
    /\ \E q \in Queues, batch \in SUBSET TaskIds :
          /\ Cardinality(batch) <= AvailableBatch(w)
          /\ Claim(w, q, batch)
          /\ dispatch' = [d \in Dispatches |->
                             IF d[1] \in batch /\ d[2] = tasks[d[1]].attempts + 1
                             THEN [owner |-> w, at |-> "received", cancelled |-> FALSE]
                             ELSE dispatch[d]]
    /\ run' = [run EXCEPT ![w] = "receiving"]
    /\ UNCHANGED <<signalled, inFlight, beat, gap, releasing>>

(* The rows do not make it back: the query, a scan or the iteration fails, *)
(* or ctx is cancelled while the reply is under way.  Nothing is started.  *)
ClaimReplyLost(w) ==
    /\ run[w] = "receiving"
    /\ StoreErrors \/ signalled[w]
    /\ dispatch' = [d \in Dispatches |-> IF d \in Received(w) THEN NoDispatch ELSE dispatch[d]]
    /\ run' = [run EXCEPT ![w] = "polling"]
    /\ UNCHANGED <<tasks, signalled, inFlight, beat, gap, releasing>>

(* One turn of the loop over the claimed tasks: take a slot, register the  *)
(* cancel function under the task's ID, start the goroutine.               *)
StartDispatch(w, d) ==
    /\ run[w] \in {"receiving", "dispatching"}
    /\ d \in Received(w)
    /\ dispatch' = [dispatch EXCEPT ![d].at = "handling"]
    /\ inFlight' = [inFlight EXCEPT ![w][d[1]] = d[2]]
    /\ run' = [run EXCEPT ![w] = IF Received(w) = {d} THEN "polling" ELSE "dispatching"]
    /\ UNCHANGED <<tasks, signalled, beat, gap, releasing>>

-----------------------------------------------------------------------------
(* A dispatch.  The handler returns, panics, times out or was never found; *)
(* the outcome is reported under the dispatch's own context.  A cancelled  *)
(* context makes the store call fail before it reaches the database.       *)
Report(w, d, success) ==
    /\ dispatch[d].owner = w /\ dispatch[d].at = "handling"
    /\ LET t == d[1]
           reaches == ~dispatch[d].cancelled /\ Holds(w, t)
       IN  \/ reaches /\ success /\ Complete(w, t)
           \/ reaches /\ ~success /\ Fail(w, t)
           \/ ~reaches /\ UNCHANGED tasks
           \/ StoreErrors /\ UNCHANGED tasks
    /\ dispatch' = [dispatch EXCEPT ![d].at = "leaving"]
    /\ UNCHANGED <<run, signalled, inFlight, beat, gap, releasing>>

(* The deferred calls: the entry under the task's ID is removed from       *)
(* inFlight, then the slot is given back.  In between the worker claims at *)
(* most less than it might, which ClaimTasks allows anyway.                *)
Leave(w, d) ==
    /\ dispatch[d].owner = w /\ dispatch[d].at = "leaving"
    /\ dispatch' = [dispatch EXCEPT ![d] = NoDispatch]
    /\ inFlight' = [inFlight EXCEPT ![w][d[1]] = 0]
    /\ UNCHANGED <<tasks, run, signalled, beat, gap, releasing>>

-----------------------------------------------------------------------------
(* heartbeatOnce, on a tick: a snapshot of the ids in inFlight.  With none *)
(* there is nothing to send.                                               *)
InFlightIds(w) == {t \in TaskIds : inFlight[w][t] # 0}

HeartbeatOnce(w) ==
    /\ run[w] \in Alive /\ beat[w] = NoBeat
    /\ IF InFlightIds(w) = {}
       THEN gap' = [gap EXCEPT ![w] = 0] /\ UNCHANGED beat
       ELSE /\ beat' = [beat EXCEPT ![w] = [NoBeat EXCEPT !.at = "sending", !.ids = InFlightIds(w)]]
            /\ UNCHANGED gap
    /\ UNCHANGED <<tasks, run, signalled, dispatch, inFlight, releasing>>

(* The loop goes back to its ticker once no id is left to look at.         *)
WaitIfDone(b) == IF b.ids = {} /\ b.suspect = NULL THEN NoBeat ELSE b

(* The UPDATE refreshes the rows still held.  When it counts fewer rows    *)
(* than ids the loop goes on to look every id up.                          *)
Beat(w) ==
    /\ run[w] \in Alive /\ beat[w].at = "sending"
    /\ LET ids == beat[w].ids
       IN  /\ Heartbeat(w, ids)
           /\ beat' = [beat EXCEPT ![w] = IF Refreshed(w, ids) = ids THEN NoBeat
                                          ELSE [@ EXCEPT !.at = "checking"]]
    /\ gap' = [gap EXCEPT ![w] = 0]
    /\ UNCHANGED <<run, signalled, dispatch, inFlight, releasing>>

BeatFails(w) ==
    /\ StoreErrors
    /\ run[w] \in Alive /\ beat[w].at = "sending"
    /\ beat' = [beat EXCEPT ![w] = NoBeat]
    /\ UNCHANGED <<tasks, run, signalled, dispatch, inFlight, gap, releasing>>

(* One Get: a row still held, or one that cannot be read, is passed over.  *)
LookUp(w, t, found) ==
    /\ run[w] \in Alive /\ beat[w].at = "checking"
    /\ beat[w].suspect = NULL /\ t \in beat[w].ids
    /\ found \/ StoreErrors
    /\ beat' = [beat EXCEPT ![w] = WaitIfDone([beat[w] EXCEPT
                   !.ids = beat[w].ids \ {t},
                   !.suspect = IF ~found \/ Holds(w, t) THEN NULL ELSE t])]
    /\ UNCHANGED <<tasks, run, signalled, dispatch, inFlight, gap, releasing>>

(* Cancelling whatever dispatch inFlight names for the task, if any.       *)
CancelEntry(w, t) ==
    dispatch' = IF inFlight[w][t] = 0 THEN dispatch
                ELSE [dispatch EXCEPT ![<<t, inFlight[w][t]>>].cancelled = TRUE]

CancelSuspect(w) ==
    /\ run[w] \in Alive /\ beat[w].suspect # NULL
    /\ CancelEntry(w, beat[w].suspect)
    /\ beat' = [beat EXCEPT ![w] = WaitIfDone([@ EXCEPT !.suspect = NULL])]
    /\ UNCHANGED <<tasks, run, signalled, inFlight, gap, releasing>>

-----------------------------------------------------------------------------
(* Shutdown.  SIGTERM cancels ctx; the Run loop notices at the top of the  *)
(* loop, or in Claim (ClaimReplyLost).                                     *)
Terminate(w) ==
    /\ w \in Terminable
    /\ run[w] \in Alive /\ ~signalled[w]
    /\ signalled' = [signalled EXCEPT ![w] = TRUE]
    /\ UNCHANGED <<tasks, run, dispatch, inFlight, beat, gap, releasing>>

Shutdown(w) ==
    /\ run[w] = "polling" /\ signalled[w]
    /\ run' = [run EXCEPT ![w] = "grace"]
    /\ UNCHANGED <<tasks, signalled, dispatch, inFlight, beat, gap, releasing>>

(* The end of a process, in order or not: every goroutine goes with it.    *)
Gone(w, how) ==
    /\ run' = [run EXCEPT ![w] = how]
    /\ dispatch' = [d \in Dispatches |-> IF d \in Of(w) THEN NoDispatch ELSE dispatch[d]]
    /\ inFlight' = [inFlight EXCEPT ![w] = [t \in TaskIds |-> 0]]
    /\ beat' = [beat EXCEPT ![w] = NoBeat]
    /\ gap' = [gap EXCEPT ![w] = 0]
    /\ releasing' = [releasing EXCEPT ![w] = {}]
    /\ UNCHANGED signalled

(* wg.Wait returned within the grace period.                               *)
Drained(w) ==
    /\ run[w] = "grace" /\ Of(w) = {}
    /\ Gone(w, "exited")
    /\ UNCHANGED tasks

(* Faulty variant: the wait is not cut short while anything is in flight.  *)
GraceExpiresWhenIdle(w) ==
    /\ run[w] = "grace" /\ InFlightIds(w) = {}
    /\ run' = [run EXCEPT ![w] = "releasing"]
    /\ UNCHANGED <<tasks, signalled, dispatch, inFlight, beat, gap, releasing>>

(* It did not: releaseRemaining takes its snapshot of inFlight.            *)
GraceExpires(w) ==
    /\ run[w] = "grace"
    /\ run' = [run EXCEPT ![w] = "releasing"]
    /\ releasing' = [releasing EXCEPT ![w] = InFlightIds(w)]
    /\ UNCHANGED <<tasks, signalled, dispatch, inFlight, beat, gap>>

(* Faulty variant: the dispatch is cancelled but its task not failed.      *)
ReleaseCancelOnly(w, t) ==
    /\ run[w] = "releasing" /\ t \in releasing[w]
    /\ CancelEntry(w, t)
    /\ releasing' = [releasing EXCEPT ![w] = @ \ {t}]
    /\ UNCHANGED <<tasks, run, signalled, inFlight, beat, gap>>

(* One turn of releaseRemaining: cancel the dispatch, fail the task.       *)
Release(w, t) ==
    /\ run[w] = "releasing" /\ t \in releasing[w]
    /\ CancelEntry(w, t)
    /\ \/ Fail(w, t)
       \/ ~Holds(w, t) /\ UNCHANGED tasks
       \/ StoreErrors /\ UNCHANGED tasks
    /\ releasing' = [releasing EXCEPT ![w] = @ \ {t}]
    /\ UNCHANGED <<run, signalled, inFlight, beat, gap>>

Released(w) ==
    /\ run[w] = "releasing" /\ releasing[w] = {}
    /\ Gone(w, "exited")
    /\ UNCHANGED tasks

Crash(w) ==
    /\ w \in Crashable
    /\ run[w] \in Alive
    /\ Gone(w, "crashed")
    /\ UNCHANGED tasks

-----------------------------------------------------------------------------
(* The rest of the world: clients submit and cancel, the sweeper sweeps    *)
(* and time passes.  A worker that does not stall answers the store, and   *)
(* completes a heartbeat, within BeatGap.                                  *)
Prompt(w) == run[w] \in Alive => /\ run[w] \notin {"receiving", "dispatching"}
                                 /\ beat[w] = NoBeat
                                 /\ gap[w] < BeatGap

Submit == SomeEnqueue /\ UNCHANGED local
Withdraw(t) == Cancel(t) /\ UNCHANGED local
Sweep == RecoverOrphans /\ UNCHANGED local

Pass ==
    /\ Stalls \/ \A w \in WorkerIds : Prompt(w)
    /\ Elapse
    /\ gap' = [w \in WorkerIds |-> IF Stalls \/ run[w] \notin Alive THEN 0 ELSE gap[w] + 1]
    /\ UNCHANGED <<run, signalled, dispatch, inFlight, beat, releasing>>

RunLoop(w) == \/ ClaimTasks(w) \/ ClaimReplyLost(w)
              \/ \E d \in Dispatches : StartDispatch(w, d)
              \/ Shutdown(w) \/ Drained(w) \/ GraceExpires(w)
              \/ \E t \in TaskIds : Release(w, t)
              \/ Released(w)
HeartbeatLoop(w) == \/ HeartbeatOnce(w) \/ Beat(w) \/ BeatFails(w)
                    \/ \E t \in TaskIds, found \in BOOLEAN : LookUp(w, t, found)
                    \/ CancelSuspect(w)
Handler(w, d) == (\E success \in BOOLEAN : Report(w, d, success)) \/ Leave(w, d)

WNext == \/ \E w \in WorkerIds : \/ RunLoop(w) \/ HeartbeatLoop(w)
                                 \/ \E d \in Dispatches : Handler(w, d)
                                 \/ Terminate(w) \/ Crash(w)
         \/ Submit \/ Sweep \/ Pass
         \/ \E t \in TaskIds : Withdraw(t)

WSpec == WInit /\ [][WNext]_wvars

(* A process whose handlers never return, and that time itself may leave   *)
(* alone: only the Run loop can be counted on.                             *)
WStuckSpec == WSpec /\ \A w \in WorkerIds : WF_wvars(RunLoop(w))

(* What a live system adds: handlers return (TaskTimeout cancels the       *)
(* context they are given), timers fire, the sweeper's ticker goes on      *)
(* after every error.  Nobody has to submit, cancel, signal or crash.      *)
Lively ==
    /\ WF_wvars(Pass) /\ WF_wvars(Sweep)
    /\ \A w \in WorkerIds : /\ WF_wvars(HeartbeatLoop(w))
                            /\ \A d \in Dispatches : WF_wvars(Handler(w, d))

-----------------------------------------------------------------------------
(* availableBatch keeps every claim within the free slots, so the loop     *)
(* that starts the claimed tasks never blocks on sem while a claimed task, *)
(* not yet heartbeaten, waits.                                             *)
WithinCapacity == \A w \in WorkerIds : Cardinality(Of(w)) <= Concurrency

(* The fence of Complete and Fail: a dispatch's report changes the row     *)
(* only while the row still belongs to the claim that dispatch was started *)
(* for, so an earlier execution never settles or releases a later one.     *)
ReportFenced(d) ==
    (/\ dispatch[d].at = "handling" /\ dispatch'[d].at = "leaving"
     /\ tasks'[d[1]] # tasks[d[1]]) =>
        /\ tasks[d[1]].attempts = d[2]
        /\ tasks[d[1]].claimed_by = dispatch[d].owner

ReportsFenced == [][\A d \in Dispatches : ReportFenced(d)]_wvars

(* While workers keep up their heartbeats, the sweeper takes no task from  *)
(* a dispatch that is executing it.                                        *)
LiveTasksNotSwept ==
    [][Sweep => \A d \in Dispatches :
          (dispatch[d].at = "handling" /\ tasks[d[1]].attempts = d[2])
             => ~Orphaned(tasks[d[1]])]_wvars

(* "two workers never execute one task": of the executions that nobody has *)
(* told to stop, at most one is of the same task.  It takes the heartbeats *)
(* of the live, the TTL, and the release at shutdown to keep it.           *)
OneExecution ==
    \A d, e \in Dispatches :
        (/\ d[1] = e[1]
         /\ dispatch[d].at = "handling" /\ ~dispatch[d].cancelled
         /\ dispatch[e].at = "handling" /\ ~dispatch[e].cancelled) => d = e

(* Once releaseRemaining is through, no dispatch that is still executing   *)
(* holds its row: the process can exit without orphaning what it started.  *)
ReleaseCoversExecuting ==
    \A w \in WorkerIds : (run[w] = "releasing" /\ releasing[w] = {}) =>
        \A d \in Of(w) : dispatch[d].at = "handling" =>
            ~(Holds(w, d[1]) /\ tasks[d[1]].attempts = d[2])

(* In a live system every submitted task is settled in the end, whatever   *)
(* crashes, stalls, lost replies and shutdowns it meets, as long as one    *)
(* worker survives.                                                        *)
EveryTaskSettles ==
    Lively => \A t \in TaskIds : tasks[t].status # "absent" ~> tasks[t].status \in Terminal

(* A worker told to stop does stop, whether or not its handlers do.        *)
ShutdownEnds ==
    \A w \in WorkerIds : signalled[w] ~> run[w] \in {"exited", "crashed"}
=============================================================================
