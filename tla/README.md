# Tick in TLA+

Tick is a distributed task scheduler in Go over PostgreSQL: an API accepts
tasks and recurring schedules, scheduler nodes expand schedules into tasks and
recover orphaned ones, workers claim tasks with `FOR UPDATE SKIP LOCKED`,
execute them and report.  This project models the parts in which the
correctness of Tick lies, model-checks them with TLC on small instances and
proves the main safety properties with TLAPS for every instance.

`PROJECT.json` is the index: components, runs, the source lines behind every
definition (`map`), the hazards, the findings and the theorems.

## 1. The system

| Part | State | Operations | Interacts with |
|---|---|---|---|
| Task store (`internal/store/postgres`, `internal/migrate/sql`, `internal/domain/task.go`) | the `tasks` table | Enqueue, EnqueueBulk, Claim, Heartbeat, Complete, Fail, Cancel, RecoverOrphans; Get, QueueStats read only | everybody; every operation but EnqueueBulk is one SQL statement, and the claim is one that locks rows one by one |
| Worker (`internal/worker`, `cmd/tick-worker`) | `sem`, `inFlight`, one goroutine per dispatch, the heartbeat loop, its context | claim, start, handle, report, heartbeat, cancel lost dispatches, graceful shutdown | store; its own goroutines share `inFlight` |
| Sweeper (`internal/sweeper`) | a ticker | RecoverOrphans | store; races with heartbeats and reports |
| Materializer (`internal/materializer`, `internal/store/postgres/schedule.go`) | the `schedules` table; a pass in progress | list, plan, insert, advance | other nodes doing the same; clients that create, enable and disable |
| Cron (`internal/cron`) | none | NextN | the materializer resumes it from the last fire time |
| Submission (`internal/api/tasks_*.go`) | one transaction per batch, a connection of the pool | submit, bulk submit, cancel | other submissions of the same keys, or waiting for the same pool |
| API process (`cmd/tick-api`, `internal/store/postgres/postgres.go`, `internal/api/server.go`) | the pool, the listener, the grace period | boot, serve, shut down, close, exit | signals; the requests it is serving |
| Schedules API (`internal/api/schedules_*.go`) | none | create, enable, disable | the materializer's passes |
| Migrations (`internal/migrate`) | `schema_migrations`, an advisory lock | Apply | other processes booting |
| Configuration (`internal/config`) | none | Load | fixes the timing of heartbeats and sweeps |
| Retry curve, request validation, registry, HTTP middleware, scheduler main, logging, Redis hybrid | | | see section 7 |

What is hard here: a worker may stall, be swept, and come back; reports,
heartbeats and sweeps race at the TTL; the goroutines of a worker share a map
keyed by task id only; a committed statement's reply may be lost; nodes plan
from rows they read earlier; overlapping claims choose from snapshots and skip
each other's locks; batches hold index entries while they wait for others; a
signal meets requests in every state; DST repeats wall-clock times; timers have arbitrary phases.

What makes each part correct:

* store: a row names a holder exactly while it runs; attempts never exceed the
  budget; a settled task stays settled; a claim ends only through its holder or through silence; the claim statement, row
  locks and all, is as good as atomic, overtakes nobody and starves nobody;
* worker: claims fit into the free slots; what executes is released at a forced
  shutdown; a report settles only the claim it belongs to;
  healthy workers never execute one task twice at a time; every task is settled
  in the end; a stopped worker stops;
* lease: a live worker survives two missed beats, a dead one's claim is found
  in bounded time;
* materializer: no fire time after the first resume point is skipped, whatever
  fails; downtime is caught up; an enabled schedule fires;
* cron: each wall-clock time fires at most once and none is lost;
* submission: a key is inserted once, a batch is all or nothing, requests end;
* API process: a clean exit has served everybody, no transaction outlives the
  process, and it stops when told;
* migrations: each version takes effect once, in order, and booting terminates.

## 2. The modules

| Module | Models | Uses |
|---|---|---|
| `TaskLifecycle` | the promise: the state machine of one task and its budget | |
| `TaskStore` | the tasks table and every statement on it | refines `TaskLifecycle` |
| `ClaimStatement` | the claim statement, row by row, among the other statements | extends and refines `TaskStore` |
| `Worker` | worker processes, the sweeper and clients around the table | extends `TaskStore` |
| `Lease` | the two tickers and the TTL, under the accepted settings | |
| `Materializer` | scheduler nodes over the schedules table | |
| `Cron` | NextN across one change of UTC offset | |
| `BulkSubmit` | submissions, with the bulk transaction taken apart, over a bounded pool | |
| `ApiProcess` | the tick-api process: boot, serving, shutdown | extends `BulkSubmit` |
| `Migrate` | migrate.Apply in several processes | |
| `TaskStoreProofs`, `ClaimStatementProofs`, `WorkerProofs`, `LeaseProofs`, `CronProofs`, `MaterializerProofs`, `ApiProcessProofs`, `MigrateProofs` | theorems | extend the above |
| `MC*` | constants for TLC | |

Operators that a comment calls "faulty variant" are not part of any
specification.  Each stands for a plausible mistake in the definition that
follows it, and is used to confirm that a property would notice the mistake.

### TaskStore
One row per id with the columns the statements look at; `"absent"` is an id not
yet handed out.  Every statement is one action, because PostgreSQL runs it
atomically: `Enqueue`, `Claim`, `Heartbeat`, `Complete`, `Fail`, `Cancel`,
`RecoverOrphans`.  A statement whose WHERE matches nothing changes nothing, so
its guard is that it matches.  Callers are unconstrained: any worker may report
on any task at any time.  Time is kept as the two differences that the SQL
compares: `due_in` (`run_at - now()`) and `silence` (`now() - heartbeat_at`,
saturating just past the TTL).  `Fail` draws the delay from zero to the
ceiling and resets `heartbeat_at`; `RecoverOrphans` applies the full ceiling
and leaves `heartbeat_at` behind, as the SQL does.  `Claim` takes any non-empty
set of due rows of a queue: that covers the LIMIT, the rows SKIP LOCKED passes
over, and abstracts from the priority order.

### ClaimStatement
What PostgreSQL does with `claimSQL` under READ COMMITTED.  `BeginClaim` takes
the snapshot (the due rows of the queue, with the attempts they had), `LockNext`
goes on to the best row that is left by priority and `run_at`, and passes over
it if another claim holds its lock; `CommitClaim` writes the locked rows once
LIMIT is reached or none is left; `AbortClaim` is a cancelled context or a dead
process.  `run_at` is kept as an order of the due rows (`line`): a row that becomes
due joins at the end, one that is submitted joins anywhere, since a client may
name any past instant (`InLine(moved)`: any order that keeps all pairs but those
of the rows that move).  `Current` is the recheck PostgreSQL makes on the latest
version of a row that changed since the snapshot.  The other statements are those
of `TaskStore`; a cancellation waits for a locked row.  Assumed of PostgreSQL: the
subquery is evaluated once, and no database time passes while a claim is open (a
claim takes milliseconds).

### Worker
Per worker: the position of the Run loop, whether its context is cancelled, the
`inFlight` map, the heartbeat loop's position and the ids `releaseRemaining` has
still to fail.  A dispatch is named by task and attempt, since a claim
increments the attempt.  Steps are cut where the code lets other goroutines in:
the commit of the claim / the arrival of its reply / the start of each
goroutine; the report / the deferred removal from `inFlight`; the snapshot / the
heartbeat UPDATE / each Get / each cancel; the grace timer / each release.  A
cancelled dispatch context makes the report fail before it reaches the
database.  `StoreErrors` lets calls fail or lose their reply, `Stalls` lets
arbitrary time pass between any two steps; without `Stalls` a live worker
answers at once and completes a beat every `BeatGap`.  A killed process does not
return under its identity (`Identity` draws a random suffix).

### Lease
Settings are any that `Load` accepts: an unset variable gets its default, one that
is not positive is refused.  `silence` is exact here.  Time stops
while a timer is due, and timers due together fire in either order, so all
phases of the two tickers are covered.  The TTL the sweeper uses is the 90
seconds of the SQL (`SweepTTL`), not the configured one.

### Materializer
A pass (`StartPass`) keeps the listing and the resume points it read and the
node's own clock (`Skew`), in one step: nothing else of the pass lies between the
two, and a clock read later is a larger skew; `Materialize` is plan and bulk insert, `Advance` the
forward-only UPDATE; each may fail, and a node may crash in between.  The tasks
table is reduced to the number of tasks per schedule and fire time;
`IdempotencyKeyFor` and the unique index decide whether an insert adds one.  A
scheduler that is stopped in the middle of a pass is `MaterializeFails` and
`AdvanceFails` for the rest of the pass, since its context is cancelled.  `anchor` is a
history variable.  `NoFireTimeSkipped` needs one thing of the timing, stated as
`PlansOverlap`: two nodes that both find no resume point read clocks closer
together than one plan reaches (the horizon, or 10000 fire times).  `MCMaterializer`
asserts it of the instances.

### Cron
A zone is a transition instant and two offsets.  `Date` reproduces Go's
`time.Date`: the offset in force at the wall clock read as UTC, looked up again
if it does not fit.  `Step` is a turn of the loop, `Resume` a later call from
the last fire time.

### BulkSubmit
A batch is a sequence of keys, of `NULL` for items without one and of `INVALID`
for items validation turns down; `Valid` is the index with which the results
find back to their items: an item is appended to the tasks, so its place is the
number of valid items up to it (`PlaceOf`).  A transaction holds a connection from `Begin` to
`Commit`; a single submission gives its connection back after its INSERT and asks
for another to select the row it collided with.  `Insert` waits while another
open transaction holds the key; circles of waits are broken by `AbortVictim`,
PostgreSQL's deadlock detector.  `StatusOf` is the comparison of `created_at` with
`requestStart`: the row's time is the database's at the beginning of its
transaction, `requestStart` the API host's, which is `Skew[r]` ahead when request
`r` arrives.  The reply to a commit may be lost.  The refusals of a body that is not
JSON, empty or too long come before any state is touched and are left out.

### ApiProcess
`main` is the position of `run()`: pinging, in the select, in `Shutdown`, in the
deferred `Close`, exited.  A signal may come at any time; pings fail at once when
it has.  `Shutdown` closes the listener and returns when no request is active
(`Drained`) or when the grace period ends (`GraceExpires`, at any moment while one
is).  `Close` waits for the connections in use and gives out no more, so requests
that still wait for one are turned away, and `Exit` cuts off whatever is left.
After a failed listener (`ServeError`) clients keep their open connections, and
new requests arrive over them until the exit.  During a graceful shutdown no
request arrives (net/http may still serve one whose connection was just accepted;
it would be one that arrived before).  `Break` is the request timeout, a
client that hangs up, or a failed statement.

### Migrate
One transaction per run holds the lock, reads the applied versions, applies and
records; any failure rolls everything back and the process starts over.  If the reply to the
commit is lost (`CommitReplyLost`) the migrations are there and the process starts
over not knowing it.  The primary key of `schema_migrations` is left out, so that
`ExactlyOnce` shows what the lock and the reading of the table achieve without it.

## 3. The runs

Passing runs (state counts are distinct states):

| Run | Instance | Shows |
|---|---|---|
| `task_store` | 2 tasks, 2 workers, 2 queues, 1 key, budgets 1 and 2, TTL 2; 50 000 states | invariants, finality, claim protection and the refinement of `TaskLifecycle` with completely unconstrained callers; silent claims end |
| `claim_statement` | 2 tasks, 2 workers, limits 1 and 2, equal and different priorities, 1 claim cut off; 169 000 states | row locks hold, the refinement of `TaskStore`, nobody is overtaken, due tasks are claimed |
| `worker_single_slot` | 1 task, 2 workers with 1 slot, 3 attempts, stalls, store errors, crash and SIGTERM of one; 111 000 states | reports are fenced, shutdown ends even if handlers and heartbeat loop stop for ever, and every task settles if they do not |
| `worker_healthy` | 2 tasks, 2 workers with 1 slot and batches of 2, no stalls, crashes and SIGTERM of both; 1 040 000 states up to symmetry | one execution per task at a time, capacity, release at shutdown, no live task is swept |
| `materializer` | 2 nodes with skewed clocks, one crashes, at most 2 fire times per pass; 50 000 states | no fire time is skipped, downtime is caught up, an enabled schedule fires |
| `cron_zones` | offsets -3..3, shifts of 1 and 2 either way, all sets of up to 3 of 7 wall-clock times, 10 starts | at most once, none lost, the first occurrence in the west |
| `api_process` | 2 batches with shared keys, in one or in opposite orders and with an invalid item, 1 single submission, 2 connections, 5 pings, 1 failure, the API host's clock ahead for one batch, behind or level for the others, a signal and a failing listener at any time; 148 000 states | key once, all or nothing, batches in one order are never aborted, a reported duplicate is one where the host's clock is not ahead, a clean exit cuts nobody off, nothing is left open, requests end, the process stops |
| `migrate` | 3 processes, an old and a new binary, 2 failures or lost commit replies; 800 states | exactly once, in order, boot completes |
| `lease_default` | heartbeat intervals up to 30 s, sweeps of 10, 30, 40 s, 2 failed sweeps | three misses, bounded detection |

Runs in which TLC finds what the code does to contradict what a comment or
document says (each has an entry under `findings` with the quotation):

| Run | What happens |
|---|---|
| `worker_self_reclaim` | two slots, one worker, no stall and no fault: attempt 1 fails and its retry is claimed into the second slot before attempt 1 has left `inFlight`; leaving, it removes attempt 2's entry; attempt 2 gets no heartbeats, is swept and claimed again as attempt 3, and its report settles attempt 3's row |
| `materializer_every_never` | an `@every` schedule longer than the horizon never fires |
| `lease_slow` | the configured TTL is ignored; one missed beat loses the task |

### Further observations
Seen in the same models while they were built, and without a run of their own:

* `Cancel` takes any pending row (`get_cancel.go:30`), so a task that waits for
  a retry is cancelled with attempts spent; `domain/task.go:41` says "cancelled
  before it was ever claimed".
* The window of `worker_self_reclaim` is narrow, from the commit of `Fail` to the
  deferred `inFlight.remove` (`worker.go:153`), and the retry has to be due within it
  (its delay is random from 0, `fail.go:28`).  The same ending needs no such window
  when a worker with two slots stalls past the TTL and reclaims its own task.  In both
  cases `LiveTasksNotSwept` or `OneExecution` fails as well, so the theorems on
  workers that depend on it have the hypothesis `Concurrency = 1`.
* `heartbeatOnce` looks a row up and then cancels what `inFlight` holds by then
  (`heartbeat.go:96`): possibly the next attempt, which does hold its claim.
* SIGTERM between the commit of a claim and the arrival of its rows
  (`worker.go:122`): the worker exits in order and the tasks wait out the TTL.
* Fire times between a schedule's creation and its first pass are not generated
  (`plan.go:37`: the first plan starts at the pass's now).
* Two nodes whose first passes over an `@every` schedule read different clocks
  generate two interleaved series (`plan.go:37`).
* A pass that listed a schedule before it was disabled still inserts its tasks
  (`run.go:119`).
* At or east of UTC `time.Date` resolves a repeated wall-clock time to its second
  occurrence, so that is the one that fires (`nextn.go:66`; lines 44-46 say the
  first).  `WestFiresFirst` is the part that holds.
* All missing migrations share the lock transaction (`migrate.go:182`; lines
  127-129 say each has its own).
* Two batches that share two keys in opposite orders deadlock and one is rejected
  as a whole (`enqueue_bulk.go:54`).  `OrderedBatchesAccepted` is the part that
  holds.
* A key another batch inserts after `requestStart`, or twice in one batch, is
  reported as created (`tasks_bulk.go:86`).  And when the API host's clock is ahead
  of the database's, an item the batch has just inserted is reported as a duplicate:
  `requestStart` is `time.Now()` (`tasks_bulk.go:77`), `created_at` PostgreSQL's
  `now()`, and lines 73-75 speak of "a row created before this instant" as if there
  were one clock.  `DuplicateIsTrue` is the part that holds.
* A task waits as long as tasks of higher priority keep coming (`claim.go:49`), by
  design; `DueTasksClaimed` is checked with finitely many.
* A signal while the process still pings ends it with exit code 1
  (`postgres.go:104`, `main.go:39`), like a database that never came up.
* When the signal and a failed listener are ready together, the select may take
  either (`main.go:61`): a graceful shutdown with exit code 0, or code 1 at once
  with the requests cut off.
* A request that runs into `RequestTimeout` is answered with a 500 by the handler
  whose context was cancelled; `server.go:25-26` says "the client sees a timeout
  response".

### Bounds
Named in the modules: `MaxBudget`, `HeartbeatTTL`, `Ceiling` (TaskStore),
`Concurrency`, `BatchLimit`, `BeatGap` (Worker), `MaxMissed`, `MaxFailedSweeps`
(Lease), `MaxTime`, `MaxPass`, `MaxPlanned`, `Horizon` (Materializer),
`Limits`, `MaxAborts` (ClaimStatement), `MaxTime`, `MaxFailures`, `MaxConns`
(BulkSubmit; `Skew` is -1, 0 and 1 there), `PingAttempts` (ApiProcess), `MaxFailures` (Migrate).  They are chosen
so that the boundary cases occur: a budget of two has a first, a last and no
attempt left (three for the worker run, so that a zombie can be two attempts
late); a TTL of two has a value below, at and past it; the cap on planned fire
times and the horizon are both reached; two keys and two batches suffice for a
circle of waits, and a third request arrives in every state of it (deadlocks of
three batches would need a third key); two connections for three requests have a
request wait for the pool while the others wait for each other; two nodes suffice
for a stale listing.  `Concurrency` 1 against 2 is the difference
between the passing and the violating worker runs.  `worker_healthy` uses the
symmetry of tasks and of workers: it checks no liveness, and all workers may
crash and be stopped.  `claim_statement`, which does check liveness, starts from
two assignments of priorities (equal, different) instead of four, the tasks being
interchangeable.  `CHECK_DEADLOCK FALSE` is
set where the system may come to rest: all requests answered, all processes
migrated, an enumeration at its end.

### Fairness
* `FairSpec` of TaskStore: the clock advances and the sweeper's loop goes on
  after every error.  Nothing is assumed of workers.
* `CFairSpec`: workers with room keep polling, the server gets on with an open
  statement, the sweeper sweeps; time passes between claims however densely they
  come (strong fairness, since in the model it stands still during a claim).
* `WStuckSpec`: only the Run loop of a live worker goes on, to show that shutdown
  does not depend on handlers.  `Lively`, the premise of `EveryTaskSettles`, adds
  the rest: the clock, the sweeper, the heartbeat loop and each dispatch go on;
  handlers return because `TaskTimeout` cancels their context.  No client has to
  act and no fault has to happen.
* Materializer: the nodes that do not crash for ever keep starting passes; a
  statement that is tried in pass after pass goes through in the end (strong
  fairness, since a failing attempt disables it until the next pass).
* ApiProcess: main and the handlers are scheduled, a statement that is not blocked
  completes, a free connection or lock is granted.  The end of the grace period is
  not assumed (the code does have it): `StopsWhenTold` holds even if the process would
  wait for its requests without limit.  Migrate: statements complete,
  and PostgreSQL hands the lock on to each waiter in turn (strong fairness).

## 4. What is proved

TLAPS checks these for every value of the constants that satisfies the named
ASSUMEs; no other assumption is made, except where a theorem names a hypothesis
of its own.  Every safety property that a run checks, invariants and action
properties alike, is stated by a theorem.

* `TaskStoreProofs`.  The inductive invariant `Inv` is one conjunction per row
  (`RowOK`: type, claim consistency, budget, justified outcome).
  None of its parts is inductive alone: the budget needs `claimed_by # NULL` to
  mean running (or `Fail` could put a settled row back), and that needs every
  statement that leaves running to clear the holder.  There is a lemma for what
  each statement makes of one row; the step lemma lifts them to the table.  From
  it: `TypeCorrect`, `ClaimsConsistent`, `BudgetKept`, `OutcomesJustified`,
  the action properties `TerminalStays` and `ClaimsProtected`, and
  `Refinement`: initial states map to initial states and every statement moves
  every row along an edge of `TaskLifecycle` or not at all.
* `ClaimStatementProofs`.  The inductive invariant `CInv` is `LockedRowsStay` with
  `Inv` of the table and, of every snapshot, that its rows are of the claim's queue.
  It needs the waiting of `Cancelled`, and that reports and
  sweeps touch running rows only.  `RowLocksHold` is its consequence;
  `ClaimIsAtomic` uses it at `CommitClaim`, where the locked rows are then a set the
  atomic `Claim` may take; every other step is a step of `TaskStore` or none.  With
  it all theorems of `TaskStoreProofs` hold of the statement taken apart.
  `ClaimsInOrder` proves `NobodyOvertaken` from `OInv`, which adds to `CInv` that a
  row of a snapshot has since been claimed, been cancelled, or stayed due
  (`SnapshotsAge`: so nobody who left the line comes back with the attempts the
  snapshot saw) and that what a claim has locked comes before whatever of its
  snapshot it has not yet come to (`TakenFirst`).  The order of `line` never changes
  between rows that stay due, which is why the second part survives the steps of
  others.
* `WorkerProofs`.  `ImplementsStore`: `WSpec => Spec`, so that every theorem
  above holds of the composed system.  `SingleSlotFenced`, for `Concurrency = 1` (the hypothesis cannot be dropped:
  see `worker_self_reclaim`): the invariant `SInv` adds that a
  worker has at most one dispatch, that a dispatch which has not left is of the
  row's current attempt whenever its worker holds the row, and that `inFlight`
  names it.  `CapacityKept`, for any number of slots and any batch limit: the
  dispatches of a worker, claimed ones not yet started included, are counted from
  one step to the next, and `availableBatch` leaves room for all a claim may bring.
  `ReleaseCovers`, for one slot and a database that answers (`~StoreErrors`; a release
  that fails does leave its row behind): what is executing and still held when the
  grace period ends is in the list of releases, and leaves it only by being failed.
  `HealthyOneExecution` and `HealthyNotSwept`, the claim "two workers never execute
  one task", under the conditions under which it is meant: one slot,
  `~StoreErrors`, `~Stalls`, and `BeatGap <= HeartbeatTTL`.  Their invariant `HInv` says
  that an execution nobody has cancelled is of the row's current attempt
  and its worker holds the row (`RowsHeld`), that nobody but its owner holds the
  attempt of a dispatch (`AttemptOwner`), and that the silence of a held row never exceeds the time since
  its worker's last beat, which never exceeds `BeatGap` (`BeatsInTime`).  A stall
  longer than the TTL, or heartbeats that fail for as long, is a sweep and may be a
  second execution; for more than one slot see `worker_self_reclaim`.
* `LeaseProofs`.  `LInv` bounds the silence of a claim by the beats missed and
  the time to the next tick, and an orphan's by the failed sweeps and the time
  to the next sweep; `OrphansFoundInTime` and `ThreeMisses` follow, the latter
  for three intervals not exceeding the 90 seconds of the SQL.
* `CronProofs`.  Everything emitted has passed the round trip, and the round
  trip is injective on wall clocks; so `AtMostOnce`, for every zone with one
  transition, every expression and every pattern of resumption.  `NoneLost` needs
  more (`CInv`): the cursor is a point of the enumeration, `lastWallClock` is the
  wall clock of the start or of something that fired, and every matching instant behind the cursor that passes the round
  trip has its wall clock fired.  A wall-clock time that exists at all has an
  instant that passes it, namely the one `Date` returns, and `FoldAssumption` (the
  instants considered include the one `Date` resolves any of them to) says that it is
  one of the model's.  `WestFirst`: at or west of Greenwich `Date` returns the first of
  two occurrences, so the second never passes the round trip.
* `MaterializerProofs`.  `NothingSkipped`, from `PlansOverlap`: the invariant `MInv` says that what a
  node is about to record is its whole plan and has its tasks (`Inserted`), that the
  resume point it read is not past the row's (`Resumes`), that its clock reading is as
  old as its pass (`OnTime`), and that a node which read no resume point while
  another has set one since read a clock before the next fire time (`Near`).  A
  plan is a prefix of the due times (`PlanHasNoGap`), so recording its maximum passes
  nothing over.  `Near` is established when the first resume point is set: by
  `PlansOverlap` the plan just recorded reaches past the clock of everyone under way,
  and that many periods are not cut off by `MaxPlanned` (`FewMultiples`: a span of
  `m` periods has at most `m` fire times).
* `ApiProcessProofs`.  `AInv`: uncommitted rows belong to requests that hold a
  connection, no two rows of the table and the open transactions share a key, and
  how far `run()` has got says what may have become of the requests: nobody is cut
  off before it closes the pool, and with exit code 0 the listener is shut and
  everybody at rest, so that nobody can come any more.  From it `KeysInsertedOnce`,
  `CleanExit` and `NoTransactionOutlives` (`Close` waits for the connections in use),
  for any number of requests, keys, connections and failures.  `RInv` follows each
  request through its handler: what is still to be sent, the open rows, the rows
  `enqueued` holds and the results, and what a committed or answered request must
  have; it depends on the other requests only through the table, which only grows,
  and through keys in doubt.  `BatchesWhole` and `DuplicatesTrue` are its
  consequences, the latter for every skew of the clocks: in a batch that arrives when
  the host's clock is not ahead, `requestStart` is at or before the times of the
  batch's own rows, so an older row is somebody else's; that results find back to their items rests on `PlaceOf` being a
  bijection from the valid items to the tasks (`TaskIsItem`, `ItemHasTask`,
  `TasksInOrder`).  `OrderedBatchesPass`: take the greatest key, in the common order,
  that a batch in the circle waits for (the keys are finite: `KeyAssumption`);
  whoever holds it has sent it already and waits for a later one, which is greater.
* `MigrateProofs`.  `MInv`: whoever has read the version table holds the lock, only
  the holder has work under way, what it has read is still what is committed, and
  it repeats none of that; a lost reply changes the table as the commit does
  (`PublishPreserves`).  From it `EachOnce` and `LowerFirst`.

Only model-checked: what holds under fairness (`SilentClaimsEnd`, `DueTasksClaimed`,
`EveryTaskSettles`, `ShutdownEnds`, `DowntimeCaughtUp`, `EnabledScheduleFires`, `RequestsEnd`,
`StopsWhenTold`, `BootCompletes`), which is outside the prover.

## 5. Hazards
`PROJECT.json` lists them at their lines with the properties that cover them.  One
has none: a worker whose claim fails asks again at once, without backoff, which is
a matter of load and not of states.

## 6. Plan

1. Done: `TaskStore`/`TaskLifecycle`, `Worker`, `Lease`, `Materializer`, `Cron`,
   `BulkSubmit`, `Migrate`, `ClaimStatement`, `ApiProcess`, with their proofs.
2. Further models: the materializer composed with `BulkSubmit` (its batches take part
   in the waits for keys); zones with two transitions.
3. Further proofs: every safety property of the runs has its theorem.  What is left is
   to widen them: `OneExecution` with stalls that stay below the TTL, `ReleaseCovers`
   with failing releases (which rows remain), zones with two transitions in `Cron`,
   and `BulkSubmit` as a refinement of an insert of the whole batch in one step.

## 7. Not modelled

Reading endpoints and queue statistics (single SELECTs), HTTP routing,
middleware, error bodies and health checks, the handler registry and the sample
handlers, logging and metrics, cron parsing and its error messages, and the Redis
hybrid backend, which is a package comment at this commit.  Of the scheduler's
`main` only the waiting for its two loops is left out: the loops are `Materializer`
and `Lease`, its boot is that of `ApiProcess`.  `internal/retry` is not called by any
command; its curve appears as the constant `Ceiling`, which the SQL computes.  No
command calls `migrate.Apply` at this commit; `Migrate` models what happens when
processes do.

## 8. Running it

    tlc -config WorkerHealthy.cfg MCWorker     # any run: cfg and module are in PROJECT.json
    tlapm WorkerProofs.tla
