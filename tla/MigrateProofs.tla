---------------------------- MODULE MigrateProofs ----------------------------
(***************************************************************************)
(* Migrations take effect once and in order, for any number of processes,  *)
(* any mix of binaries and any number of failed runs.  The argument is the *)
(* advisory lock: whoever has read schema_migrations holds it, so what was *)
(* read is still what is committed, and nobody else has work under way.    *)
(***************************************************************************)
EXTENDS Migrate, TLAPS

MTypeOK ==
    /\ committed \subseteq Versions
    /\ executions \in [Versions -> Nat]
    /\ pc \in [Procs -> {"start", "locking", "reading", "applying", "done"}]
    /\ done \in [Procs -> SUBSET Versions]
    /\ work \in [Procs -> SUBSET Versions]

(* The lock is held from before the versions are read to the end of the    *)
(* transaction, and only its holder has unfinished work.                   *)
HeldWhileReading == \A p \in Procs : pc[p] \in {"reading", "applying"} => holder = p
OnlyHolderWorks  == \A p \in Procs : pc[p] # "applying" => work[p] = {}

(* What the holder read is still true, and it repeats none of it.          *)
ReadIsCurrent == \A p \in Procs : pc[p] = "applying" => done[p] = committed
NothingRepeated == \A p \in Procs : work[p] \cap committed = {}

MInv == /\ MTypeOK /\ HeldWhileReading /\ OnlyHolderWorks /\ ReadIsCurrent
        /\ NothingRepeated /\ ExactlyOnce /\ InVersionOrder

LEMMA MInitEstablishes == Init => MInv
<1> SUFFICES ASSUME Init PROVE MInv OBVIOUS
<1> QED BY DEF Init, MInv, MTypeOK, HeldWhileReading, OnlyHolderWorks, ReadIsCurrent,
               NothingRepeated, ExactlyOnce, InVersionOrder

(* The version a process applies is one that nobody has applied, and the   *)
(* lower ones of its binary are all there.                                 *)
LEMMA ApplyPreserves ==
    ASSUME MInv, NEW p \in Procs, NEW v \in Versions, ApplyOne(p, v)
    PROVE  MInv'
<1> USE DEF MInv
<1>1. /\ pc[p] = "applying" /\ v \in Known[p] /\ v \notin committed /\ v \notin work[p]
      /\ \A u \in Known[p] : u \notin committed \cup work[p] => v <= u
  BY DEF ApplyOne, Missing, ReadIsCurrent
<1>2. /\ UNCHANGED <<committed, executions, holder, pc, done, failures>>
      /\ work' = [work EXCEPT ![p] = @ \cup {v}]
  BY DEF ApplyOne
<1>3. MTypeOK' BY <1>2 DEF MTypeOK
<1>4. HeldWhileReading' /\ ReadIsCurrent' BY <1>2 DEF HeldWhileReading, ReadIsCurrent
<1>5. OnlyHolderWorks' BY <1>1, <1>2 DEF OnlyHolderWorks, MTypeOK
<1>6. NothingRepeated' BY <1>1, <1>2 DEF NothingRepeated, MTypeOK
<1>7. ExactlyOnce' BY <1>2 DEF ExactlyOnce
<1>8. InVersionOrder'
  <2> SUFFICES ASSUME NEW q \in Procs, NEW w \in work'[q], NEW u \in Known[q], u < w
               PROVE  u \in committed \cup work'[q]
    BY <1>2 DEF InVersionOrder
  <2>1. CASE w \in work[q]
    BY <2>1, <1>2 DEF InVersionOrder, MTypeOK
  <2>2. CASE w \notin work[q]
    <3>1. q = p /\ w = v BY <2>2, <1>2 DEF MTypeOK
    <3>2. u \in Nat /\ v \in Nat BY <3>1, <1>1, KnownAssumption
    <3>3. ~(v <= u) BY <3>1, <3>2
    <3>4. u \in committed \cup work[p] BY <3>1, <3>3, <1>1
    <3> QED BY <3>1, <3>4, <1>2 DEF MTypeOK
  <2> QED BY <2>1, <2>2
<1> QED BY <1>3, <1>4, <1>5, <1>6, <1>7, <1>8

(* A commit publishes work that was disjoint from the table, while all the *)
(* other processes are outside the lock and have none; it makes no         *)
(* difference whether its reply arrives.                                   *)
LEMMA PublishPreserves ==
    ASSUME MInv, NEW p \in Procs, Publish(p), MTypeOK',
           NEW next \in {"done", "start"}, pc' = [pc EXCEPT ![p] = next]
    PROVE  MInv'
<1> USE DEF MInv
<1>1. /\ pc[p] = "applying"
      /\ committed' = committed \cup work[p]
      /\ executions' = [v \in Versions |-> executions[v] + IF v \in work[p] THEN 1 ELSE 0]
      /\ work' = [work EXCEPT ![p] = {}]
  BY DEF Publish
<1>2. holder = p BY <1>1 DEF HeldWhileReading
<1>3. ASSUME NEW q \in Procs, q # p PROVE pc[q] \notin {"reading", "applying"} /\ work[q] = {}
  <2>1. pc[q] \notin {"reading", "applying"} BY <1>2, <1>3 DEF HeldWhileReading
  <2> QED BY <2>1 DEF OnlyHolderWorks
<1>5. HeldWhileReading' /\ ReadIsCurrent'
  <2> SUFFICES ASSUME NEW q \in Procs PROVE pc'[q] \notin {"reading", "applying"}
    BY DEF HeldWhileReading, ReadIsCurrent
  <2> QED BY <1>1, <1>3 DEF MTypeOK
<1>6. \A q \in Procs : work'[q] = {} BY <1>1, <1>3 DEF MTypeOK
<1>7. OnlyHolderWorks' /\ NothingRepeated' /\ InVersionOrder'
  BY <1>6 DEF OnlyHolderWorks, NothingRepeated, InVersionOrder
<1>8. ExactlyOnce'
  <2> SUFFICES ASSUME NEW v \in Versions
               PROVE  executions'[v] = IF v \in committed' THEN 1 ELSE 0
    BY DEF ExactlyOnce
  <2>1. executions[v] = IF v \in committed THEN 1 ELSE 0 BY DEF ExactlyOnce
  <2>2. CASE v \in work[p]
    <3>1. v \notin committed BY <2>2 DEF NothingRepeated
    <3> QED BY <1>1, <2>1, <2>2, <3>1
  <2>3. CASE v \notin work[p] BY <1>1, <2>1, <2>3
  <2> QED BY <2>2, <2>3
<1> QED BY <1>5, <1>7, <1>8

LEMMA CommitPreserves ==
    ASSUME MInv, NEW p \in Procs, Commit(p) \/ CommitReplyLost(p)
    PROVE  MInv'
<1>1. MTypeOK' BY DEF Commit, CommitReplyLost, Publish, MInv, MTypeOK
<1>2. CASE Commit(p)
  <2>1. Publish(p) /\ pc' = [pc EXCEPT ![p] = "done"] BY <1>2 DEF Commit
  <2> QED BY <1>1, <2>1, PublishPreserves
<1>3. CASE CommitReplyLost(p)
  <2>1. Publish(p) /\ pc' = [pc EXCEPT ![p] = "start"] BY <1>3 DEF CommitReplyLost
  <2> QED BY <1>1, <2>1, PublishPreserves
<1> QED BY <1>2, <1>3

(* A failed run takes its work and its lock with it, and nothing else.     *)
LEMMA RollbackPreserves ==
    ASSUME MInv, NEW p \in Procs, Rollback(p)
    PROVE  MInv'
<1> USE DEF MInv
<1>1. /\ holder' = Unlocked(p)
      /\ pc' = [pc EXCEPT ![p] = "start"]
      /\ work' = [work EXCEPT ![p] = {}]
      /\ done' = [done EXCEPT ![p] = {}]
      /\ UNCHANGED <<committed, executions>>
  BY DEF Rollback
<1>2. MTypeOK' BY <1>1 DEF MTypeOK
<1>3. HeldWhileReading'
  <2> SUFFICES ASSUME NEW q \in Procs, pc'[q] \in {"reading", "applying"} PROVE holder' = q
    BY DEF HeldWhileReading
  <2>1. q # p /\ holder = q BY <1>1 DEF HeldWhileReading, MTypeOK
  <2> QED BY <1>1, <2>1 DEF Unlocked
<1>4. OnlyHolderWorks' BY <1>1 DEF OnlyHolderWorks, MTypeOK
<1>5. ReadIsCurrent' BY <1>1 DEF ReadIsCurrent, MTypeOK
<1>6. NothingRepeated' BY <1>1 DEF NothingRepeated, MTypeOK
<1>7. ExactlyOnce' BY <1>1 DEF ExactlyOnce
<1>8. InVersionOrder' BY <1>1 DEF InVersionOrder, MTypeOK
<1> QED BY <1>2, <1>3, <1>4, <1>5, <1>6, <1>7, <1>8

LEMMA MStepPreserves == MInv /\ [Next]_vars => MInv'
<1> SUFFICES ASSUME MInv, [Next]_vars PROVE MInv' OBVIOUS
<1>1. CASE UNCHANGED vars
  BY <1>1 DEF vars, MInv, MTypeOK, HeldWhileReading, OnlyHolderWorks, ReadIsCurrent,
              NothingRepeated, ExactlyOnce, InVersionOrder
<1>2. ASSUME NEW p \in Procs, Begin(p) PROVE MInv'
  BY <1>2 DEF Begin, MInv, MTypeOK, HeldWhileReading, OnlyHolderWorks, ReadIsCurrent,
              NothingRepeated, ExactlyOnce, InVersionOrder
<1>3. ASSUME NEW p \in Procs, Lock(p) PROVE MInv'
  <2> USE <1>3 DEF Lock, MInv
  <2>1. MTypeOK' BY DEF MTypeOK
  <2>2. HeldWhileReading'
    <3> SUFFICES ASSUME NEW q \in Procs, pc'[q] \in {"reading", "applying"} PROVE holder' = q
      BY DEF HeldWhileReading
    <3>1. q = p BY FailureAssumption DEF HeldWhileReading, MTypeOK
    <3> QED BY <3>1
  <2>3. OnlyHolderWorks' /\ ReadIsCurrent' BY DEF OnlyHolderWorks, ReadIsCurrent, MTypeOK
  <2>4. NothingRepeated' /\ ExactlyOnce' /\ InVersionOrder'
    BY DEF NothingRepeated, ExactlyOnce, InVersionOrder
  <2> QED BY <2>1, <2>2, <2>3, <2>4
<1>4. ASSUME NEW p \in Procs, AppliedVersions(p) PROVE MInv'
  BY <1>4 DEF AppliedVersions, MInv, MTypeOK, HeldWhileReading, OnlyHolderWorks, ReadIsCurrent,
              NothingRepeated, ExactlyOnce, InVersionOrder
<1> QED BY <1>1, <1>2, <1>3, <1>4, ApplyPreserves, CommitPreserves, RollbackPreserves
        DEF Next, Run

THEOREM MigrationsSerialized == Spec => []MInv
BY MInitEstablishes, MStepPreserves, PTL DEF Spec

(* Every migration's SQL takes effect exactly as often as it is recorded,  *)
(* once, for any number of processes starting, failing and starting again. *)
THEOREM EachOnce == Spec => []ExactlyOnce
<1>1. MInv => ExactlyOnce BY DEF MInv
<1> QED BY <1>1, MigrationsSerialized, PTL

(* No version is applied before a lower one that the same binary knows.    *)
THEOREM LowerFirst == Spec => []InVersionOrder
<1>1. MInv => InVersionOrder BY DEF MInv
<1> QED BY <1>1, MigrationsSerialized, PTL
=============================================================================
