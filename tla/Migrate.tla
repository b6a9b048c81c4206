------------------------------- MODULE Migrate -------------------------------
(***************************************************************************)
(* migrate.Apply (internal/migrate/migrate.go) run by any number of        *)
(* processes at once, each with the migrations its own binary embeds (a    *)
(* rolling deploy mixes binaries).  One transaction per run takes the      *)
(* advisory lock, reads schema_migrations, applies and records what is     *)
(* missing, and commits; the end of the transaction releases the lock.     *)
(***************************************************************************)
EXTENDS Integers, FiniteSets

CONSTANTS Procs,      \* migrating processes
          Known,      \* Known[p]: the versions Load finds in p's binary
          MaxFailures,\* bound: how many runs fail or crash
          NULL

ASSUME KnownAssumption == \A p \in Procs : Known[p] \subseteq Nat /\ IsFiniteSet(Known[p])
ASSUME FailureAssumption == MaxFailures \in Nat /\ NULL \notin Procs

VARIABLES committed,  \* schema_migrations, as committed
          executions, \* per version: runs of its SQL that were committed (history)
          holder,     \* who holds the advisory lock
          pc,         \* per process
          done,       \* per process: the versions it read as applied
          work,       \* per process: versions applied in its open transaction
          failures

vars == <<committed, executions, holder, pc, done, work, failures>>

Versions == UNION {Known[p] : p \in Procs}

Init == /\ committed = {}
        /\ executions = [v \in Versions |-> 0]
        /\ holder = NULL
        /\ pc = [p \in Procs |-> "start"]
        /\ done = [p \in Procs |-> {}]
        /\ work = [p \in Procs |-> {}]
        /\ failures = 0

(* Begin the transaction and ask for the lock.  Under READ COMMITTED no    *)
(* snapshot is kept from here.                                             *)
Begin(p) ==
    /\ pc[p] = "start"
    /\ pc' = [pc EXCEPT ![p] = "locking"]
    /\ UNCHANGED <<committed, executions, holder, done, work, failures>>

(* pg_advisory_xact_lock returns; CREATE TABLE IF NOT EXISTS follows.      *)
Lock(p) ==
    /\ pc[p] = "locking" /\ holder = NULL
    /\ holder' = p
    /\ pc' = [pc EXCEPT ![p] = "reading"]
    /\ UNCHANGED <<committed, executions, done, work, failures>>

AppliedVersions(p) ==
    /\ pc[p] = "reading"
    /\ done' = [done EXCEPT ![p] = committed]
    /\ pc' = [pc EXCEPT ![p] = "applying"]
    /\ UNCHANGED <<committed, executions, holder, work, failures>>

(* Faulty variant: what others applied meanwhile is not taken into account.*)
MissingAll(p) == Known[p] \ work[p]

Missing(p) == Known[p] \ (done[p] \cup work[p])

(* Faulty variant: the versions are taken in no particular order.          *)
ApplyAnyOne(p, v) ==
    /\ pc[p] = "applying" /\ v \in Missing(p)
    /\ work' = [work EXCEPT ![p] = @ \cup {v}]
    /\ UNCHANGED <<committed, executions, holder, pc, done, failures>>

(* applyOne, for the lowest missing version: its SQL and the row that      *)
(* records it, both in the transaction that holds the lock.                *)
ApplyOne(p, v) ==
    /\ pc[p] = "applying" /\ v \in Missing(p)
    /\ \A u \in Missing(p) : v <= u
    /\ work' = [work EXCEPT ![p] = @ \cup {v}]
    /\ UNCHANGED <<committed, executions, holder, pc, done, failures>>

(* The end of p's transaction releases the lock if it is p's.              *)
Unlocked(p) == IF holder = p THEN NULL ELSE holder

(* The commit goes through: what was applied and recorded takes effect and *)
(* the lock is free.                                                       *)
Publish(p) ==
    /\ pc[p] = "applying" /\ Missing(p) = {}
    /\ committed' = committed \cup work[p]
    /\ executions' = [v \in Versions |-> executions[v] + IF v \in work[p] THEN 1 ELSE 0]
    /\ holder' = Unlocked(p)
    /\ work' = [work EXCEPT ![p] = {}]

Commit(p) ==
    /\ Publish(p)
    /\ pc' = [pc EXCEPT ![p] = "done"]
    /\ UNCHANGED <<done, failures>>

(* It does, and its reply is lost: Apply returns an error, and the process *)
(* is restarted all the same.                                              *)
CommitReplyLost(p) ==
    /\ failures < MaxFailures
    /\ Publish(p)
    /\ failures' = failures + 1
    /\ pc' = [pc EXCEPT ![p] = "start"]
    /\ done' = [done EXCEPT ![p] = {}]

(* Faulty variant: a failed run keeps its session, and with it the lock.   *)
RollbackKeepingLock(p) ==
    /\ failures < MaxFailures
    /\ pc[p] \in {"locking", "reading", "applying"}
    /\ failures' = failures + 1
    /\ pc' = [pc EXCEPT ![p] = "start"]
    /\ work' = [work EXCEPT ![p] = {}]
    /\ done' = [done EXCEPT ![p] = {}]
    /\ UNCHANGED <<committed, executions, holder>>

(* A statement fails, or the process dies and its connection with it: the  *)
(* transaction is rolled back, the lock released, the process restarted.   *)
Rollback(p) ==
    /\ failures < MaxFailures
    /\ pc[p] \in {"locking", "reading", "applying"}
    /\ failures' = failures + 1
    /\ holder' = Unlocked(p)
    /\ pc' = [pc EXCEPT ![p] = "start"]
    /\ work' = [work EXCEPT ![p] = {}]
    /\ done' = [done EXCEPT ![p] = {}]
    /\ UNCHANGED <<committed, executions>>

Run(p) == \/ Begin(p) \/ Lock(p) \/ AppliedVersions(p)
          \/ (\E v \in Versions : ApplyOne(p, v)) \/ Commit(p)

Next == \E p \in Procs : Run(p) \/ Rollback(p) \/ CommitReplyLost(p)

Spec == Init /\ [][Next]_vars

(* A process is scheduled, and PostgreSQL grants the lock in turn.         *)
FairSpec == Spec /\ \A p \in Procs : WF_vars(Run(p)) /\ SF_vars(Lock(p))

-----------------------------------------------------------------------------
(* "a rolling deploy of thirty workers applies each migration exactly      *)
(* once": the SQL of a version takes effect as often as it is recorded,    *)
(* once, whoever crashes and whatever mix of binaries is starting.         *)
ExactlyOnce == \A v \in Versions : executions[v] = IF v \in committed THEN 1 ELSE 0

(* A migration is applied after the lower versions its binary knows of,    *)
(* including the ones in the same, still open, transaction.                *)
InVersionOrder ==
    \A p \in Procs : \A v \in work[p] : \A u \in Known[p] :
        u < v => u \in committed \cup work[p]

(* Every process that boots gets its migrations applied: the lock is never *)
(* left behind by a run that failed.                                       *)
BootCompletes == \A p \in Procs : <>(pc[p] = "done" /\ Known[p] \subseteq committed)
=============================================================================
