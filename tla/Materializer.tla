---------------------------- MODULE Materializer -----------------------------
(***************************************************************************)
(* The materializer (internal/materializer) on any number of scheduler     *)
(* nodes, over the schedules table (internal/store/postgres/schedule.go).  *)
(* A pass lists the enabled schedules, then plans, inserts and advances    *)
(* them one after the other; other nodes, clients and crashes come between *)
(* any two of these steps.  A node works from the rows it listed.          *)
(*                                                                         *)
(* The tasks table is abstracted to the number of tasks generated for each *)
(* fire time of each schedule; what keeps it at one is the unique index on *)
(* the idempotency key that TaskFor builds.                                *)
(***************************************************************************)
EXTENDS Integers, FiniteSets

CONSTANTS Nodes,         \* scheduler nodes
          Schedules,     \* ids of schedules
          Kind,          \* Kind[s]: "cron" or "every"
          Period,        \* Period[s]: time between two fire times
          Horizon,       \* how far ahead of now a pass plans
          MaxPlanned,    \* MaxPlannedFireTimes
          MaxTime,       \* bound of the model: the clock stops here
          MaxPass,       \* bound on the time one pass may take
          Skew,          \* Skew[n]: how far ahead node n's own clock is
          Crashable,     \* nodes that may die in the middle of a pass
          NULL

ASSUME ScheduleAssumption ==
    /\ Kind \in [Schedules -> {"cron", "every"}]
    /\ Period \in [Schedules -> Nat \ {0}]
ASSUME PlanAssumption == Horizon \in Nat /\ MaxPlanned \in Nat \ {0}
ASSUME ClockAssumption == /\ MaxTime \in Nat /\ MaxPass \in Nat
                          /\ Skew \in [Nodes -> Nat]
                          /\ NULL \notin Nat \cup (Schedules \X Nat)
ASSUME CrashAssumption == Crashable \subseteq Nodes

VARIABLES clock,     \* the database's clock
          row,       \* the schedules table
          tasks,     \* per schedule and fire time: the tasks generated for it
          pass,      \* per node: the pass under way
          anchor     \* per schedule: the first resume point it was given (history)

vars == <<clock, row, tasks, pass, anchor>>

Latest == MaxTime + Horizon + MaxPass + 1
NoRow == [exists |-> FALSE, enabled |-> FALSE, last |-> NULL]

(* listed: the schedules still to do, with the resume point read for them; *)
(* planned: the fire times inserted for "current", not yet recorded.       *)
Idle == [listed |-> {}, resume |-> [s \in Schedules |-> NULL], now |-> 0,
         current |-> NULL, planned |-> {}, age |-> 0]

Init == /\ clock = 0
        /\ row = [s \in Schedules |-> NoRow]
        /\ tasks = [s \in Schedules |-> [f \in 1..Latest |-> 0]]
        /\ pass = [n \in Nodes |-> Idle]
        /\ anchor = [s \in Schedules |-> NULL]

-----------------------------------------------------------------------------
(* NextN: the fire times after a given instant, up to a bound.  Those of a *)
(* cron expression are fixed instants; "@every d" counts from the instant  *)
(* it is asked about.                                                      *)
NextN(s, after, until) ==
    {f \in (after + 1)..until :
        IF Kind[s] = "cron" THEN f % Period[s] = 0
                            ELSE (f - after) % Period[s] = 0}

(* Faulty variant: a plan that is too long loses its oldest fire times.    *)
PlanNewest(s, last, now) ==
    LET after == IF last = NULL THEN now ELSE last
        due   == NextN(s, after, now + Horizon)
    IN  {f \in due : Cardinality({g \in due : g >= f}) <= MaxPlanned}

(* Faulty variant: only what is due already is planned, not the horizon.   *)
PlanDueOnly(s, last, now) ==
    LET after == IF last = NULL THEN now ELSE last
        due   == NextN(s, after, now)
    IN  {f \in due : Cardinality({g \in due : g <= f}) <= MaxPlanned}

(* Plan: from the resume point, or from now when there is none.            *)
Plan(s, last, now) ==
    LET after == IF last = NULL THEN now ELSE last
        due   == NextN(s, after, now + Horizon)
    IN  {f \in due : Cardinality({g \in due : g <= f}) <= MaxPlanned}

(* IdempotencyKeyFor: the schedule and the instant, written in UTC, so     *)
(* that every node writes the same instant in the same way.                *)
IdempotencyKeyFor(s, runAt) == <<s, runAt>>

(* The unique index; the instants of a task without a key are not in it.   *)
KeyTaken(key) ==
    /\ key # NULL
    /\ \E s \in Schedules : \E f \in 1..Latest :
          tasks[s][f] > 0 /\ IdempotencyKeyFor(s, f) = key

(* Materialize: a task for each fire time, in one EnqueueBulk, which leaves*)
(* alone the keys that are there already.                                  *)
InsertTasks(s, fireTimes) ==
    [tasks EXCEPT ![s] = [f \in 1..Latest |->
        IF f \in fireTimes /\ ~KeyTaken(IdempotencyKeyFor(s, f)) THEN @[f] + 1 ELSE @[f]]]

Maximum(S) == CHOOSE x \in S : \A y \in S : y <= x

-----------------------------------------------------------------------------
(* createSchedule: a row that is enabled and has no resume point.          *)
NewRow == [exists |-> TRUE, enabled |-> TRUE, last |-> NULL]

CreateSchedule(s) ==
    /\ ~row[s].exists
    /\ row' = [row EXCEPT ![s] = NewRow]
    /\ UNCHANGED <<clock, tasks, pass, anchor>>

SetScheduleEnabled(s, on) ==
    /\ row[s].exists /\ row[s].enabled # on
    /\ row' = [row EXCEPT ![s].enabled = on]
    /\ UNCHANGED <<clock, tasks, pass, anchor>>

UpdateSchedule(s) == \E on \in BOOLEAN : SetScheduleEnabled(s, on)

(* RunOnce returns after its last schedule; its variables go with it.      *)
EndIfDone(p) == IF p.listed = {} /\ p.current = NULL THEN Idle ELSE p

Enabled == {s \in Schedules : row[s].enabled}
Between(n) == pass[n] = Idle

(* RunOnce: list the enabled schedules, then read the node's own clock.    *)
StartPass(n) ==
    /\ Between(n)
    /\ Enabled # {}
    /\ pass' = [pass EXCEPT ![n] = [Idle EXCEPT
                   !.listed = Enabled,
                   !.resume = [s \in Schedules |-> row[s].last],
                   !.now = clock + Skew[n]]]
    /\ UNCHANGED <<clock, row, tasks, anchor>>

(* materializeOne, first half: plan, and insert in one transaction.        *)
Materialize(n, s) ==
    /\ pass[n].current = NULL /\ s \in pass[n].listed
    /\ LET plan == Plan(s, pass[n].resume[s], pass[n].now)
       IN  /\ tasks' = InsertTasks(s, plan)
           /\ pass' = [pass EXCEPT ![n] = EndIfDone([pass[n] EXCEPT
                           !.listed = pass[n].listed \ {s},
                           !.current = IF plan = {} THEN NULL ELSE s,
                           !.planned = plan])]
    /\ UNCHANGED <<clock, row, anchor>>

(* The plan or the insert fails: the schedule is left as it is.            *)
MaterializeFails(n, s) ==
    /\ pass[n].current = NULL /\ s \in pass[n].listed
    /\ pass' = [pass EXCEPT ![n] = EndIfDone([pass[n] EXCEPT !.listed = pass[n].listed \ {s}])]
    /\ UNCHANGED <<clock, row, tasks, anchor>>

(* Faulty variant: only a schedule without a resume point is updated.      *)
LaterOnlyFirst(last, at) == last = NULL

(* AdvanceLastMaterializedAt to the last fire time of the batch, forward   *)
(* only.                                                                   *)
Later(last, at) == last = NULL \/ last < at

Advance(n) ==
    /\ pass[n].current # NULL
    /\ LET s  == pass[n].current
           at == Maximum(pass[n].planned)
       IN  IF Later(row[s].last, at)
           THEN /\ row' = [row EXCEPT ![s].last = at]
                /\ anchor' = [anchor EXCEPT ![s] = IF @ = NULL THEN at ELSE @]
           ELSE UNCHANGED <<row, anchor>>
    /\ pass' = [pass EXCEPT ![n] = EndIfDone([@ EXCEPT !.current = NULL, !.planned = {}])]
    /\ UNCHANGED <<clock, tasks>>

(* The UPDATE fails: the error is logged and the next schedule is taken.   *)
AdvanceFails(n) ==
    /\ pass[n].current # NULL
    /\ pass' = [pass EXCEPT ![n] = EndIfDone([@ EXCEPT !.current = NULL, !.planned = {}])]
    /\ UNCHANGED <<clock, row, tasks, anchor>>

(* The node dies wherever it is in its pass and is started again.          *)
Crash(n) ==
    /\ n \in Crashable /\ ~Between(n)
    /\ pass' = [pass EXCEPT ![n] = Idle]
    /\ UNCHANGED <<clock, row, tasks, anchor>>

Tick ==
    /\ clock < MaxTime
    /\ \A n \in Nodes : ~Between(n) => pass[n].age < MaxPass
    /\ clock' = clock + 1
    /\ pass' = [n \in Nodes |-> IF Between(n) THEN pass[n]
                                ELSE [pass[n] EXCEPT !.age = @ + 1]]
    /\ UNCHANGED <<row, tasks, anchor>>

Next == \/ \E s \in Schedules : CreateSchedule(s) \/ UpdateSchedule(s)
        \/ \E n \in Nodes : \/ StartPass(n) \/ Advance(n) \/ AdvanceFails(n) \/ Crash(n)
                            \/ \E s \in Schedules : Materialize(n, s) \/ MaterializeFails(n, s)
        \/ Tick

Spec == Init /\ [][Next]_vars

(* Every node's ticker keeps firing and its passes run to their end; a     *)
(* statement that is tried again and again goes through in the end.        *)
FairSpec ==
    /\ Spec
    /\ WF_vars(Tick)
    /\ \A n \in Nodes \ Crashable :
          /\ WF_vars(StartPass(n)) /\ SF_vars(Advance(n))
          /\ \A s \in Schedules : SF_vars(Materialize(n, s))

-----------------------------------------------------------------------------
FiresOf(s) == {f \in 1..Latest : f % Period[s] = 0}

(* Two nodes that both find no resume point read clocks so close together, *)
(* a long pass and their skew included, that the plan of the one covers    *)
(* the instants at which the other can start.                              *)
PlansOverlap ==
    \A n, m \in Nodes :
        LET d == MaxPass + Skew[n] - Skew[m]
        IN  /\ d <= Horizon
            /\ \A s \in Schedules : Kind[s] = "cron" => d <= MaxPlanned * Period[s]

(* From the first resume point on, the resume point of a cron schedule     *)
(* never passes a fire time that has no task: not when several nodes work  *)
(* from different listings, not when one dies between insert and advance,  *)
(* not when the plan was cut off at MaxPlannedFireTimes.  It needs         *)
(* PlansOverlap.                                                           *)
NoFireTimeSkipped ==
    \A s \in Schedules :
        (Kind[s] = "cron" /\ anchor[s] # NULL) =>
            \A f \in FiresOf(s) :
                anchor[s] <= f /\ f <= row[s].last => tasks[s][f] > 0

(* Once a schedule has a resume point, every fire time that comes due is   *)
(* generated, however long the nodes were down, unless it is disabled.     *)
DowntimeCaughtUp ==
    \A s \in Schedules : \A f \in FiresOf(s) :
        (Kind[s] = "cron" /\ row[s].last # NULL /\ row[s].last < f /\ f <= clock)
            ~> (tasks[s][f] > 0 \/ ~row[s].enabled)

(* A schedule that stays enabled generates a task at some time.            *)
EnabledScheduleFires ==
    \A s \in Schedules : row[s].enabled ~> ((\E f \in 1..Latest : tasks[s][f] > 0) \/ ~row[s].enabled)
=============================================================================
