------------------------- MODULE MaterializerProofs --------------------------
(***************************************************************************)
(* No fire time is skipped: the resume point of a cron schedule passes no  *)
(* fire time that has no task.  What a node records is a plan it has       *)
(* inserted; its plan has no gap from the resume point it read, which is   *)
(* not after the row's, or, when it read none, from its clock, which is    *)
(* before the first fire time after whatever another node has recorded     *)
(* since (Near).                                                           *)
(***************************************************************************)
EXTENDS Materializer, TLAPS, FiniteSetTheorems

(* Whatever a node plans, and however old the listing it plans from, the   *)
(* key collides with that of the task already there: none, or one.         *)
Counted == tasks \in [Schedules -> [1..Latest -> {0, 1}]]

(* A task that is there holds its key.                                     *)
LEMMA GeneratedHoldsKey ==
    ASSUME Counted, NEW s \in Schedules, NEW f \in 1..Latest, tasks[s][f] = 1
    PROVE  KeyTaken(IdempotencyKeyFor(s, f))
<1>1. Latest \in Nat BY ClockAssumption, PlanAssumption DEF Latest
<1>2. f \in Nat BY <1>1
<1>3. <<s, f>> # NULL BY <1>2, ClockAssumption
<1>4. tasks[s][f] > 0 BY DEF Counted
<1> QED BY <1>3, <1>4 DEF KeyTaken, IdempotencyKeyFor

(* So EnqueueBulk only adds to the fire times that have none.              *)
LEMMA InsertTasksOnce ==
    ASSUME Counted, NEW s \in Schedules, NEW fireTimes
    PROVE  InsertTasks(s, fireTimes) \in [Schedules -> [1..Latest -> {0, 1}]]
<1> DEFINE count(f) == IF f \in fireTimes /\ ~KeyTaken(IdempotencyKeyFor(s, f))
                       THEN tasks[s][f] + 1 ELSE tasks[s][f]
<1>1. ASSUME NEW f \in 1..Latest PROVE count(f) \in {0, 1}
  <2>1. CASE tasks[s][f] = 1 BY <2>1, GeneratedHoldsKey
  <2>2. CASE tasks[s][f] = 0 BY <2>2
  <2> QED BY <2>1, <2>2 DEF Counted
<1>2. [f \in 1..Latest |-> count(f)] \in [1..Latest -> {0, 1}] BY <1>1
<1>3. InsertTasks(s, fireTimes) = [tasks EXCEPT ![s] = [f \in 1..Latest |-> count(f)]]
  BY DEF InsertTasks, Counted
<1> HIDE DEF count
<1> QED BY <1>2, <1>3 DEF Counted

-----------------------------------------------------------------------------
LEMMA Monotone ==
    ASSUME NEW p \in Nat, NEW j \in Int, NEW k \in Int, j <= k
    PROVE  p * j <= p * k
<1>1. PICK d \in Nat : k = j + d BY k - j \in Nat
<1>2. p * k = p * j + p * d BY <1>1
<1>3. p * d >= 0 OBVIOUS
<1>4. p * j \in Int /\ p * k \in Int /\ p * d \in Int OBVIOUS
<1> QED BY <1>2, <1>3, <1>4

(* At most m multiples of p lie in an interval of length m * p.            *)
LEMMA FewMultiples ==
    ASSUME NEW p \in Nat \ {0}, NEW a \in Nat, NEW m \in Nat, NEW d \in Int, d <= m * p
    PROVE  LET S == {f \in (a + 1)..(a + d) : f % p = 0}
           IN  IsFiniteSet(S) /\ Cardinality(S) <= m
<1> DEFINE S == {f \in (a + 1)..(a + d) : f % p = 0}
           q == a \div p
           T == (q + 1)..(q + m)
           h == [f \in S |-> f \div p]
<1>1. q \in Int /\ p * q <= a /\ a < p * q + p
  <2>1. q \in Int /\ a % p \in Int /\ 0 <= a % p /\ a % p < p /\ a = p * q + (a % p) OBVIOUS
  <2>2. p * q \in Int BY <2>1
  <2> HIDE DEF q
  <2> QED BY <2>1, <2>2
<1>2. ASSUME NEW f \in S PROVE f \div p \in T /\ f = p * (f \div p)
  <2> DEFINE k == f \div p
  <2>1. f \in Int /\ f % p = 0 /\ a < f /\ f <= a + d OBVIOUS
  <2>2. k \in Int /\ f = p * k + (f % p) BY <2>1
  <2>3. f = p * k /\ p * k \in Int BY <2>1, <2>2
  <2> HIDE DEF k, q, S
  <2>4. ~ (k <= q)
    <3> SUFFICES ASSUME k <= q PROVE FALSE OBVIOUS
    <3>1. p * k <= p * q BY <1>1, <2>2, Monotone
    <3>2. p * q \in Int BY <1>1
    <3> QED BY <1>1, <2>1, <2>3, <3>1, <3>2
  <2>5. ~ (q + m + 1 <= k)
    <3> SUFFICES ASSUME q + m + 1 <= k PROVE FALSE OBVIOUS
    <3>1. p * (q + m + 1) <= p * k BY <1>1, <2>2, Monotone
    <3>2. p * (q + m + 1) = p * q + p * m + p BY <1>1
    <3>3. p * q \in Int /\ p * m \in Int /\ p * m = m * p BY <1>1
    <3> QED BY <1>1, <2>1, <2>3, <3>1, <3>2, <3>3
  <2>6. k \in T BY <1>1, <2>2, <2>4, <2>5
  <2> QED BY <2>3, <2>6 DEF k
<1> HIDE DEF q
<1>3. IsFiniteSet(T) /\ Cardinality(T) = m
  <2>1. q + 1 \in Int /\ q + m \in Int BY <1>1
  <2>2. IsFiniteSet(T) /\ Cardinality(T) = IF q + 1 > q + m THEN 0 ELSE (q + m) - (q + 1) + 1
    BY <2>1, FS_Interval
  <2> QED BY <1>1, <2>2
<1> HIDE DEF T, S
<1>4. h \in [S -> T] BY <1>2
<1>5. \A f, g \in S : h[f] = h[g] => f = g BY <1>2
<1>6. h \in Injection(S, T) BY <1>4, <1>5 DEF Injection, IsInjective
<1>7. IsFiniteSet(S) /\ Cardinality(S) <= Cardinality(T) BY <1>3, <1>6, FS_Injection
<1> QED BY <1>3, <1>7 DEF S

(* A bounded set of numbers that is not empty has a greatest element.      *)
LEMMA GreatestOf ==
    ASSUME NEW S \in SUBSET Nat, S # {}, NEW top \in Nat, \A f \in S : f <= top
    PROVE  \E x \in S : \A y \in S : y <= x
<1> DEFINE T == {k \in Nat : top - k \in S}
<1>1. \A f \in S : top - f \in T
  <2> SUFFICES ASSUME NEW f \in S PROVE top - f \in Nat /\ top - (top - f) = f OBVIOUS
  <2> QED OBVIOUS
<1>2. T # {} /\ T \subseteq Nat BY <1>1
<1> HIDE DEF T
<1>3. PICK k \in T : \A l \in T : ~ (<<l, k>> \in OpToRel(<, Nat))
  BY <1>2, NatLessThanWellFounded, WFMin
<1>4. \A l \in T : ~ (l < k) BY <1>2, <1>3 DEF OpToRel
<1>5. top - k \in S BY DEF T
<1>6. \A y \in S : y <= top - k
  <2> SUFFICES ASSUME NEW y \in S PROVE y <= top - k OBVIOUS
  <2>1. ~ (top - y < k) BY <1>1, <1>4
  <2> QED BY <1>2, <2>1
<1> QED BY <1>5, <1>6

-----------------------------------------------------------------------------
(* Plan: the fire times from a resume point on, without a gap.             *)
After(last, now) == IF last = NULL THEN now ELSE last
DueTimes(s, last, now) == NextN(s, After(last, now), now + Horizon)
Moments == Nat \cup {NULL}

LEMMA PlanDef ==
    ASSUME NEW s, NEW last, NEW now
    PROVE  Plan(s, last, now) = {f \in DueTimes(s, last, now) :
              Cardinality({g \in DueTimes(s, last, now) : g <= f}) <= MaxPlanned}
BY DEF Plan, DueTimes, After

LEMMA DueBounds ==
    ASSUME NEW s \in Schedules, NEW last \in Moments, NEW now \in Nat
    PROVE  /\ IsFiniteSet(DueTimes(s, last, now)) /\ DueTimes(s, last, now) \subseteq Nat
           /\ \A f \in DueTimes(s, last, now) : After(last, now) < f /\ f <= now + Horizon
           /\ now + Horizon \in Nat /\ After(last, now) \in Nat
<1> DEFINE I == (After(last, now) + 1)..(now + Horizon)
<1>1. After(last, now) \in Nat /\ now + Horizon \in Nat BY PlanAssumption DEF After, Moments
<1>2. IsFiniteSet(I) BY <1>1, FS_Interval
<1>3. DueTimes(s, last, now) \in SUBSET I BY DEF DueTimes, NextN
<1>4. IsFiniteSet(DueTimes(s, last, now)) BY <1>2, <1>3, FS_Subset
<1> QED BY <1>1, <1>3, <1>4

(* A plan that is cut off keeps the first of the due times.                *)
LEMMA PlanIsPrefix ==
    ASSUME NEW s \in Schedules, NEW last \in Moments, NEW now \in Nat,
           NEW f \in Plan(s, last, now), NEW g \in DueTimes(s, last, now), g <= f
    PROVE  g \in Plan(s, last, now)
<1> DEFINE D == DueTimes(s, last, now)
           B == {h \in D : h <= g}
           C == {h \in D : h <= f}
<1>1. f \in D /\ Cardinality(C) <= MaxPlanned BY PlanDef
<1>2. IsFiniteSet(D) /\ D \subseteq Nat BY DueBounds
<1> HIDE DEF D
<1>3. \A h \in D : h <= g => h <= f BY <1>1, <1>2 DEF D
<1>4. B \in SUBSET C /\ C \in SUBSET D BY <1>3
<1> HIDE DEF B, C
<1>5. IsFiniteSet(C) BY <1>2, <1>4, FS_Subset
<1>6. IsFiniteSet(B) /\ Cardinality(B) <= Cardinality(C) BY <1>4, <1>5, FS_Subset
<1>7. Cardinality(B) \in Nat /\ Cardinality(C) \in Nat BY <1>5, <1>6, FS_CardinalityType
<1>8. Cardinality(B) <= MaxPlanned BY <1>1, <1>6, <1>7, PlanAssumption
<1> QED BY <1>8, PlanDef DEF B, D

(* How far a plan that starts at now reaches, whatever it is cut off at.   *)
LEMMA PlanReaches ==
    ASSUME NEW s \in Schedules, Kind[s] = "cron", NEW now \in Nat, NEW d \in Int,
           d <= Horizon, d <= MaxPlanned * Period[s],
           NEW f \in Nat, f % Period[s] = 0, now < f, f <= now + d
    PROVE  f \in Plan(s, NULL, now)
<1> DEFINE D == DueTimes(s, NULL, now)
           B == {h \in D : h <= f}
           S == {h \in (now + 1)..(now + d) : h % Period[s] = 0}
<1>1. D = {h \in (now + 1)..(now + Horizon) : h % Period[s] = 0}
  BY DEF DueTimes, After, NextN
<1>2. f \in D BY <1>1, PlanAssumption
<1>3. B \in SUBSET S BY <1>1, PlanAssumption
<1>4. Period[s] \in Nat \ {0} /\ MaxPlanned \in Nat BY ScheduleAssumption, PlanAssumption
<1>5. IsFiniteSet(S) /\ Cardinality(S) <= MaxPlanned BY <1>4, FewMultiples
<1> HIDE DEF B, S, D
<1>6. IsFiniteSet(B) /\ Cardinality(B) <= Cardinality(S) BY <1>3, <1>5, FS_Subset
<1>7. Cardinality(B) \in Nat /\ Cardinality(S) \in Nat BY <1>5, <1>6, FS_CardinalityType
<1>8. Cardinality(B) <= MaxPlanned BY <1>4, <1>5, <1>6, <1>7
<1> QED BY <1>2, <1>8, PlanDef DEF B, D

(* A plan's last fire time is what Advance records.                        *)
LEMMA PlanMaximum ==
    ASSUME NEW s \in Schedules, NEW last \in Moments, NEW now \in Nat, Plan(s, last, now) # {}
    PROVE  /\ Maximum(Plan(s, last, now)) \in Plan(s, last, now)
           /\ \A y \in Plan(s, last, now) : y <= Maximum(Plan(s, last, now))
<1> DEFINE S == Plan(s, last, now)
<1>1. S \subseteq DueTimes(s, last, now) BY PlanDef
<1>2. S \in SUBSET Nat /\ now + Horizon \in Nat /\ \A f \in S : f <= now + Horizon
  BY <1>1, DueBounds
<1> HIDE DEF S
<1>3. \E x \in S : \A y \in S : y <= x BY <1>2, GreatestOf DEF S
<1> QED BY <1>3 DEF S, Maximum

(* The fire times a plan passes over are none: each fire time of a cron    *)
(* expression up to the last one planned is planned.                       *)
LEMMA PlanHasNoGap ==
    ASSUME NEW s \in Schedules, Kind[s] = "cron", NEW last \in Moments, NEW now \in Nat,
           NEW f \in Plan(s, last, now), NEW g \in FiresOf(s), After(last, now) < g, g <= f
    PROVE  g \in Plan(s, last, now)
<1>1. g \in Nat /\ g % Period[s] = 0 BY ClockAssumption, PlanAssumption DEF FiresOf, Latest
<1>2. f \in DueTimes(s, last, now) BY PlanDef
<1>3. /\ f \in Nat /\ f <= now + Horizon /\ After(last, now) \in Nat /\ now + Horizon \in Nat
  BY <1>2, DueBounds
<1>4. g \in (After(last, now) + 1)..(now + Horizon) BY <1>1, <1>3
<1>5. g \in DueTimes(s, last, now) BY <1>1, <1>4 DEF DueTimes, NextN
<1> QED BY <1>5, PlanIsPrefix

(* After the insert every fire time of the plan has its task, and no task  *)
(* is gone.                                                                *)
LEMMA InsertTasksAll ==
    ASSUME Counted, NEW s \in Schedules, NEW fireTimes
    PROVE  /\ \A u \in Schedules, f \in 1..Latest :
                 tasks[u][f] = 1 => InsertTasks(s, fireTimes)[u][f] = 1
           /\ \A f \in fireTimes \cap (1..Latest) : InsertTasks(s, fireTimes)[s][f] = 1
<1> DEFINE count(f) == IF f \in fireTimes /\ ~KeyTaken(IdempotencyKeyFor(s, f))
                       THEN tasks[s][f] + 1 ELSE tasks[s][f]
<1>1. InsertTasks(s, fireTimes) = [tasks EXCEPT ![s] = [f \in 1..Latest |-> count(f)]]
  BY DEF InsertTasks, Counted
<1>2. ASSUME NEW f \in 1..Latest PROVE tasks[s][f] = 1 => count(f) = 1
  BY GeneratedHoldsKey
<1>3. ASSUME NEW f \in fireTimes \cap (1..Latest) PROVE count(f) = 1
  <2>1. CASE KeyTaken(IdempotencyKeyFor(s, f))
    <3>1. tasks[s][f] > 0 BY <2>1 DEF KeyTaken, IdempotencyKeyFor
    <3>2. tasks[s][f] \in {0, 1} BY DEF Counted
    <3>3. tasks[s][f] = 1 BY <3>1, <3>2
    <3> QED BY <2>1, <3>3
  <2>2. CASE ~KeyTaken(IdempotencyKeyFor(s, f))
    <3>1. tasks[s][f] = 0 BY <2>2, GeneratedHoldsKey DEF Counted
    <3> QED BY <2>2, <3>1
  <2> QED BY <2>1, <2>2
<1> HIDE DEF count
<1> QED BY <1>1, <1>2, <1>3 DEF Counted

-----------------------------------------------------------------------------
(* No fire time is skipped.                                                *)

Rows == [exists : BOOLEAN, enabled : BOOLEAN, last : Moments]
Passes == [listed : SUBSET Schedules, resume : [Schedules -> Moments], now : Nat,
           current : Schedules \cup {NULL}, planned : SUBSET Nat, age : Nat]

Fields == /\ clock \in Nat
          /\ row \in [Schedules -> Rows]
          /\ pass \in [Nodes -> Passes]
          /\ anchor \in [Schedules -> Moments]
          /\ Counted

(* A schedule has an anchor once it has a resume point, at or after it.    *)
Anchored(s) ==
    /\ anchor[s] = NULL <=> row[s].last = NULL
    /\ row[s].last # NULL \/ row[s].enabled => row[s].exists
    /\ row[s].last # NULL => anchor[s] <= row[s].last

(* A node works on schedules that are there; nothing deletes them.         *)
Listed(n) ==
    \A s \in Schedules :
        s \in pass[n].listed \/ (s = pass[n].current /\ s # NULL) => row[s].exists

(* A node's resume point was the row's, which has only moved forward.      *)
Resumes(n, s) ==
    pass[n].resume[s] # NULL =>
        /\ anchor[s] # NULL /\ row[s].last # NULL
        /\ anchor[s] <= pass[n].resume[s] /\ pass[n].resume[s] <= row[s].last

(* What a node is about to record is its plan, and has its tasks.          *)
Inserted(n) ==
    pass[n].current # NULL =>
        /\ pass[n].planned # {}
        /\ pass[n].planned = Plan(pass[n].current, pass[n].resume[pass[n].current], pass[n].now)
        /\ \A f \in pass[n].planned \cap (1..Latest) : tasks[pass[n].current][f] = 1

(* A pass is as old as the time since it read its clock.                   *)
OnTime(n) ==
    pass[n] # Idle => /\ pass[n].now + pass[n].age = clock + Skew[n]
                      /\ pass[n].age <= MaxPass

(* A node that found no resume point plans every fire time that follows    *)
(* the anchor another node has set since.                                  *)
Near(n, s) ==
    (Kind[s] = "cron" /\ pass[n] # Idle /\ pass[n].resume[s] = NULL /\ anchor[s] # NULL) =>
        \A f \in FiresOf(s) : anchor[s] < f => pass[n].now < f

Covered(s) ==
    (Kind[s] = "cron" /\ anchor[s] # NULL) =>
        \A f \in FiresOf(s) : anchor[s] <= f /\ f <= row[s].last => tasks[s][f] = 1

MInv == /\ Fields
        /\ \A n \in Nodes : Listed(n) /\ Inserted(n) /\ OnTime(n)
        /\ \A s \in Schedules : Anchored(s) /\ Covered(s)
        /\ \A n \in Nodes, s \in Schedules : Resumes(n, s) /\ Near(n, s)

LEMMA IdlePass == /\ Idle \in Passes /\ Idle.current = NULL /\ Idle.listed = {}
                  /\ \A s \in Schedules : Idle.resume[s] = NULL
BY DEF Idle, Passes, Moments

LEMMA EndsOrStays == ASSUME NEW p PROVE EndIfDone(p) = Idle \/ EndIfDone(p) = p
BY DEF EndIfDone

(* The pass of node n has ended, or works on from the same listing.        *)
Kept(n) == \/ pass'[n] = Idle
           \/ /\ pass[n] # Idle
              /\ pass'[n].resume = pass[n].resume /\ pass'[n].now = pass[n].now
              /\ pass'[n].listed \subseteq pass[n].listed
              /\ pass'[n].current \in pass[n].listed \cup {NULL, pass[n].current}

(* The steps that record nothing.                                          *)
LEMMA NothingRecorded ==
    ASSUME MInv, Fields', anchor' = anchor,
           \A s \in Schedules : /\ row'[s].last = row[s].last
                                /\ row[s].exists \/ row'[s].enabled => row'[s].exists,
           \A s \in Schedules : \A f \in 1..Latest : tasks[s][f] = 1 => tasks'[s][f] = 1,
           \A n \in Nodes : Kept(n) /\ Inserted(n)' /\ OnTime(n)'
    PROVE  MInv'
<1>1. ASSUME NEW s \in Schedules PROVE Anchored(s)' BY DEF MInv, Anchored
<1>2. ASSUME NEW s \in Schedules PROVE Covered(s)' BY DEF MInv, Covered, FiresOf, Latest
<1>3. ASSUME NEW n \in Nodes, NEW s \in Schedules PROVE Resumes(n, s)'
  <2>1. CASE pass'[n] = Idle BY <2>1, IdlePass DEF Resumes
  <2>2. CASE pass'[n] # Idle BY <2>2 DEF Kept, MInv, Resumes
  <2> QED BY <2>1, <2>2
<1>4. ASSUME NEW n \in Nodes, NEW s \in Schedules PROVE Near(n, s)'
  <2>1. CASE pass'[n] = Idle BY <2>1 DEF Near, Idle
  <2>2. CASE pass'[n] # Idle
    <3>1. Near(n, s) /\ pass[n] # Idle /\ pass'[n].resume = pass[n].resume /\ pass'[n].now = pass[n].now
      BY <2>2 DEF Kept, MInv
    <3> QED BY <3>1 DEF Near, FiresOf, Latest, Idle
  <2> QED BY <2>1, <2>2
<1>5. ASSUME NEW n \in Nodes PROVE Listed(n)'
  <2>1. CASE pass'[n] = Idle BY <2>1, IdlePass DEF Listed
  <2>2. CASE pass'[n] # Idle BY <2>2 DEF Kept, MInv, Listed
  <2> QED BY <2>1, <2>2
<1> QED BY <1>1, <1>2, <1>3, <1>4, <1>5 DEF MInv

(* The client's statements leave the passes and the resume points alone.   *)
LEMMA PassesUnchanged ==
    ASSUME MInv, clock' = clock, tasks' = tasks, pass' = pass, anchor' = anchor,
           row' \in [Schedules -> Rows],
           \A s \in Schedules : /\ row'[s].last = row[s].last
                                /\ row[s].exists \/ row'[s].enabled => row'[s].exists
    PROVE  MInv'
<1>1. Fields' BY DEF MInv, Fields, Counted, Latest, Passes, Rows, Moments
<1>2. ASSUME NEW n \in Nodes PROVE Kept(n) /\ Inserted(n)' /\ OnTime(n)'
  <2>1. Kept(n) BY DEF Kept
  <2>2. Inserted(n)' BY DEF MInv, Inserted, Latest
  <2>3. OnTime(n)' BY DEF MInv, OnTime, Idle
  <2> QED BY <2>1, <2>2, <2>3
<1> QED BY <1>1, <1>2, NothingRecorded

LEMMA CreateKeeps ==
    ASSUME MInv, NEW s \in Schedules, CreateSchedule(s) PROVE MInv'
<1>1. row[s].last = NULL BY DEF CreateSchedule, MInv, Anchored
<1>2. NewRow \in Rows /\ NewRow.last = NULL /\ NewRow.exists BY DEF NewRow, Rows, Moments
<1>3. row' = [row EXCEPT ![s] = NewRow] /\ row \in [Schedules -> Rows]
  BY DEF CreateSchedule, MInv, Fields
<1>4. \A u \in Schedules : /\ row'[u].last = row[u].last
                           /\ row[u].exists \/ row'[u].enabled => row'[u].exists
  BY <1>1, <1>2, <1>3 DEF MInv, Anchored
<1> QED BY <1>2, <1>3, <1>4, PassesUnchanged DEF CreateSchedule

LEMMA UpdateKeeps ==
    ASSUME MInv, NEW s \in Schedules, UpdateSchedule(s) PROVE MInv'
<1>1. PICK on \in BOOLEAN : SetScheduleEnabled(s, on) BY DEF UpdateSchedule
<1>2. row' = [row EXCEPT ![s].enabled = on] /\ row \in [Schedules -> Rows]
  BY <1>1 DEF SetScheduleEnabled, MInv, Fields
<1>3. row' \in [Schedules -> Rows] BY <1>2 DEF Rows
<1>4. \A u \in Schedules : /\ row'[u].last = row[u].last
                           /\ row[u].exists \/ row'[u].enabled => row'[u].exists
  BY <1>1, <1>2 DEF Rows, SetScheduleEnabled, MInv, Anchored
<1> QED BY <1>1, <1>3, <1>4, PassesUnchanged DEF SetScheduleEnabled

(* The nodes other than n see only that tasks have been added.             *)
LEMMA OthersKept ==
    ASSUME MInv, NEW n \in Nodes, NEW q \in Nodes, q # n, pass'[q] = pass[q], clock' = clock,
           \A s \in Schedules : \A f \in 1..Latest : tasks[s][f] = 1 => tasks'[s][f] = 1
    PROVE  Kept(q) /\ Inserted(q)' /\ OnTime(q)'
<1>1. pass[q].current \in Schedules \cup {NULL} BY DEF MInv, Fields, Passes
<1>2. Kept(q) BY DEF Kept
<1>3. Inserted(q)' BY <1>1 DEF MInv, Inserted, Latest
<1>4. OnTime(q)' BY DEF MInv, OnTime, Idle
<1> QED BY <1>2, <1>3, <1>4

LEMMA IdleKept == ASSUME NEW n \in Nodes, pass'[n] = Idle PROVE Kept(n) /\ Inserted(n)' /\ OnTime(n)'
BY IdlePass DEF Kept, Inserted, OnTime, Idle

(* One node goes on with its pass, or ends it, and records nothing.        *)
LEMMA OnePassGoesOn ==
    ASSUME MInv, NEW n \in Nodes, NEW p, p \in Passes, pass' = [pass EXCEPT ![n] = p],
           clock' = clock, row' = row, anchor' = anchor, Counted',
           \A s \in Schedules : \A f \in 1..Latest : tasks[s][f] = 1 => tasks'[s][f] = 1,
           p # Idle => /\ pass[n] # Idle /\ p.resume = pass[n].resume
                       /\ p.now = pass[n].now /\ p.age = pass[n].age
                       /\ p.listed \subseteq pass[n].listed
                       /\ p.current \in pass[n].listed \cup {NULL, pass[n].current}
                       /\ p.current # NULL =>
                             /\ p.planned # {}
                             /\ p.planned = Plan(p.current, p.resume[p.current], p.now)
                             /\ \A f \in p.planned \cap (1..Latest) : tasks'[p.current][f] = 1
    PROVE  MInv'
<1>1. pass \in [Nodes -> Passes] /\ pass'[n] = p /\ \A q \in Nodes \ {n} : pass'[q] = pass[q]
  BY DEF MInv, Fields
<1>2. pass' \in [Nodes -> Passes] BY <1>1
<1>3. Fields' BY <1>2 DEF MInv, Fields, Passes, Rows, Moments
<1>4. ASSUME NEW q \in Nodes PROVE Kept(q) /\ Inserted(q)' /\ OnTime(q)'
  <2>1. CASE q # n BY <1>1, <2>1, OthersKept
  <2>2. CASE q = n /\ p = Idle BY <1>1, <2>2, IdleKept
  <2>3. CASE q = n /\ p # Idle
    <3>1. Kept(n) BY <1>1, <2>3 DEF Kept
    <3>2. Inserted(n)' BY <1>1, <2>3 DEF Inserted, Latest
    <3>3. OnTime(n)' BY <1>1, <2>3 DEF MInv, OnTime, Idle
    <3> QED BY <2>3, <3>1, <3>2, <3>3
  <2> QED BY <2>1, <2>2, <2>3
<1>5. \A s \in Schedules : row[s].enabled => row[s].exists BY DEF MInv, Anchored
<1> QED BY <1>3, <1>4, <1>5, NothingRecorded

LEMMA CrashKeeps == ASSUME MInv, NEW n \in Nodes, Crash(n) PROVE MInv'
<1>1. Counted' BY DEF MInv, Fields, Crash, Counted, Latest
<1> QED BY <1>1, IdlePass, OnePassGoesOn DEF Crash

LEMMA MaterializeFailsKeeps ==
    ASSUME MInv, NEW n \in Nodes, NEW s \in Schedules, MaterializeFails(n, s) PROVE MInv'
<1> DEFINE p == [pass[n] EXCEPT !.listed = pass[n].listed \ {s}]
<1>1. pass[n] \in Passes /\ pass[n] # Idle /\ pass[n].current = NULL
  BY IdlePass DEF MInv, Fields, MaterializeFails
<1>2. p \in Passes /\ p.resume = pass[n].resume /\ p.now = pass[n].now /\ p.age = pass[n].age
      /\ p.current = NULL /\ p.listed \subseteq pass[n].listed
  BY <1>1 DEF Passes
<1>3. pass' = [pass EXCEPT ![n] = EndIfDone(p)] BY DEF MaterializeFails
<1>4. Counted' BY DEF MInv, Fields, MaterializeFails, Counted, Latest
<1>5. EndIfDone(p) \in Passes /\ (EndIfDone(p) = Idle \/ EndIfDone(p) = p)
  BY <1>2, EndsOrStays, IdlePass
<1>6. UNCHANGED <<clock, row, tasks, anchor>> BY DEF MaterializeFails
<1> HIDE DEF p
<1> QED BY <1>1, <1>2, <1>3, <1>4, <1>5, <1>6, OnePassGoesOn

LEMMA AdvanceFailsKeeps == ASSUME MInv, NEW n \in Nodes, AdvanceFails(n) PROVE MInv'
<1> DEFINE p == [pass[n] EXCEPT !.current = NULL, !.planned = {}]
<1>1. pass[n] \in Passes /\ pass[n] # Idle BY IdlePass DEF MInv, Fields, AdvanceFails
<1>2. p \in Passes /\ p.resume = pass[n].resume /\ p.now = pass[n].now /\ p.age = pass[n].age
      /\ p.current = NULL /\ p.listed \subseteq pass[n].listed
  BY <1>1 DEF Passes
<1>3. pass' = [pass EXCEPT ![n] = EndIfDone(p)] BY DEF AdvanceFails, MInv, Fields
<1>4. Counted' BY DEF MInv, Fields, AdvanceFails, Counted, Latest
<1>5. EndIfDone(p) \in Passes /\ (EndIfDone(p) = Idle \/ EndIfDone(p) = p)
  BY <1>2, EndsOrStays, IdlePass
<1>6. UNCHANGED <<clock, row, tasks, anchor>> BY DEF AdvanceFails
<1> HIDE DEF p
<1> QED BY <1>1, <1>2, <1>3, <1>4, <1>5, <1>6, OnePassGoesOn

LEMMA MaterializeKeeps ==
    ASSUME MInv, NEW n \in Nodes, NEW s \in Schedules, Materialize(n, s) PROVE MInv'
<1> DEFINE plan == Plan(s, pass[n].resume[s], pass[n].now)
           cur == IF plan = {} THEN NULL ELSE s
           p == [pass[n] EXCEPT !.listed = pass[n].listed \ {s}, !.current = cur, !.planned = plan]
<1>1. pass[n] \in Passes /\ pass[n] # Idle BY IdlePass DEF MInv, Fields, Materialize
<1>2. pass[n].resume[s] \in Moments /\ pass[n].now \in Nat BY <1>1 DEF Passes
<1>3. plan \subseteq Nat BY <1>2, PlanDef, DueBounds
<1>4. tasks' = InsertTasks(s, plan) /\ pass' = [pass EXCEPT ![n] = EndIfDone(p)]
      /\ clock' = clock /\ row' = row /\ anchor' = anchor
  BY DEF Materialize
<1> HIDE DEF plan
<1>5. p \in Passes /\ p.resume = pass[n].resume /\ p.now = pass[n].now /\ p.age = pass[n].age
      /\ p.current = cur /\ p.planned = plan /\ p.listed \subseteq pass[n].listed
  BY <1>1, <1>3 DEF Passes
<1>6. Counted /\ Counted'
  BY <1>4, InsertTasksOnce DEF MInv, Fields, Counted, Latest
<1>7. /\ \A u \in Schedules : \A f \in 1..Latest : tasks[u][f] = 1 => tasks'[u][f] = 1
      /\ \A f \in plan \cap (1..Latest) : tasks'[s][f] = 1
  BY <1>4, <1>6, InsertTasksAll
<1>8. EndIfDone(p) \in Passes /\ (EndIfDone(p) = Idle \/ EndIfDone(p) = p)
  BY <1>5, EndsOrStays, IdlePass
<1> HIDE DEF p
<1>9. p.current # NULL => /\ p.planned # {} /\ p.current = s
                          /\ p.planned = Plan(p.current, p.resume[p.current], p.now)
                          /\ \A f \in p.planned \cap (1..Latest) : tasks'[p.current][f] = 1
  BY <1>5, <1>7 DEF plan
<1>10. p.current \in pass[n].listed \cup {NULL, pass[n].current} BY <1>5 DEF Materialize
<1> QED BY <1>1, <1>4, <1>5, <1>6, <1>7, <1>8, <1>9, <1>10, OnePassGoesOn

LEMMA TickKeeps == ASSUME MInv, Tick PROVE MInv'
<1>1. Counted' BY DEF MInv, Fields, Tick, Counted, Latest
<1>2. ASSUME NEW n \in Nodes
      PROVE  /\ pass[n] \in Passes /\ pass'[n] \in Passes
             /\ Kept(n) /\ Inserted(n)' /\ OnTime(n)'
  <2>1. pass[n] \in Passes BY DEF MInv, Fields
  <2>2. CASE pass[n] = Idle
    <3>1. pass'[n] = Idle BY <2>2 DEF Tick, Between
    <3> QED BY <2>1, <3>1, IdleKept, IdlePass
  <2>3. CASE pass[n] # Idle
    <3>1. pass'[n] = [pass[n] EXCEPT !.age = @ + 1] /\ pass[n].age < MaxPass
      BY <2>3 DEF Tick, Between
    <3>2. /\ pass'[n] \in Passes /\ pass'[n].age = pass[n].age + 1
          /\ pass'[n].now = pass[n].now /\ pass'[n].resume = pass[n].resume
          /\ pass'[n].current = pass[n].current /\ pass'[n].planned = pass[n].planned
          /\ pass'[n].listed = pass[n].listed
      BY <2>1, <3>1 DEF Passes
    <3>3. Kept(n) BY <2>3, <3>2 DEF Kept
    <3>4. Inserted(n)' BY <3>2 DEF MInv, Inserted, Latest, Tick
    <3>5. pass[n].age \in Nat /\ pass[n].now \in Nat /\ clock \in Nat /\ Skew[n] \in Nat
          /\ clock' = clock + 1 /\ OnTime(n)
      BY <2>1, ClockAssumption DEF MInv, Fields, Tick, Passes
    <3>6. OnTime(n)' BY <2>3, <3>1, <3>2, <3>5, ClockAssumption DEF OnTime, Idle
    <3> QED BY <2>1, <3>2, <3>3, <3>4, <3>6
  <2> QED BY <2>2, <2>3
<1>3. pass' \in [Nodes -> Passes] BY <1>2 DEF Tick
<1>4. Fields' BY <1>1, <1>3 DEF MInv, Fields, Tick, Passes, Rows, Moments
<1>5. \A s \in Schedules : row[s].enabled => row[s].exists BY DEF MInv, Anchored
<1> QED BY <1>2, <1>4, <1>5, NothingRecorded DEF Tick

(* A pass starts from the rows as they are.                                *)
LEMMA StartKeeps == ASSUME MInv, NEW n \in Nodes, StartPass(n) PROVE MInv'
<1> DEFINE p == [Idle EXCEPT !.listed = Enabled,
                             !.resume = [s \in Schedules |-> row[s].last],
                             !.now = clock + Skew[n]]
<1>1. /\ pass' = [pass EXCEPT ![n] = p] /\ pass \in [Nodes -> Passes]
      /\ UNCHANGED <<clock, row, tasks, anchor>>
  BY DEF StartPass, MInv, Fields
<1>2. /\ clock + Skew[n] \in Nat /\ clock \in Nat /\ Skew[n] \in Nat
      /\ [s \in Schedules |-> row[s].last] \in [Schedules -> Moments]
  BY ClockAssumption DEF MInv, Fields, Rows
<1>3. p \in Passes BY <1>2 DEF Idle, Passes, Enabled
<1>4. /\ p.current = NULL /\ p.now = clock + Skew[n] /\ p.age = 0 /\ p.listed = Enabled
      /\ \A s \in Schedules : p.resume[s] = row[s].last
  BY DEF Idle
<1> HIDE DEF p
<1>5. pass' \in [Nodes -> Passes] /\ pass'[n] = p /\ \A q \in Nodes \ {n} : pass'[q] = pass[q]
  BY <1>1, <1>3
<1>6. Fields' BY <1>1, <1>5 DEF MInv, Fields, Counted, Latest, Passes, Rows, Moments
<1>7. ASSUME NEW q \in Nodes PROVE Listed(q)' /\ Inserted(q)' /\ OnTime(q)'
  <2>1. CASE q # n
    <3>1. Listed(q)' BY <1>1, <1>5, <2>1 DEF MInv, Listed
    <3> QED BY <1>1, <1>5, <2>1, <3>1, OthersKept
  <2>2. CASE q = n
    <3>3. Listed(n)' BY <1>1, <1>4, <1>5 DEF MInv, Listed, Anchored, Enabled
    <3>1. Inserted(n)' BY <1>4, <1>5 DEF Inserted
    <3>2. OnTime(n)' BY <1>1, <1>2, <1>4, <1>5, ClockAssumption DEF OnTime
    <3> QED BY <2>2, <3>1, <3>2, <3>3
  <2> QED BY <2>1, <2>2
<1>8. ASSUME NEW s \in Schedules PROVE Anchored(s)' /\ Covered(s)'
  BY <1>1 DEF MInv, Anchored, Covered, FiresOf, Latest
<1>9. ASSUME NEW q \in Nodes, NEW s \in Schedules PROVE Resumes(q, s)' /\ Near(q, s)'
  <2>1. CASE q # n BY <1>1, <1>5, <2>1 DEF MInv, Resumes, Near, FiresOf, Latest, Idle
  <2>2. CASE q = n
    <3>1. Anchored(s) /\ pass'[q].resume[s] = row[s].last BY <1>4, <1>5, <2>2 DEF MInv
    <3>2. row[s].last \in Moments BY DEF MInv, Fields, Rows
    <3> QED BY <1>1, <3>1, <3>2, ClockAssumption DEF Resumes, Near, Anchored, Moments
  <2> QED BY <2>1, <2>2
<1> QED BY <1>6, <1>7, <1>8, <1>9 DEF MInv

(* The first resume point: a node that found none either started so        *)
(* recently that the plan recorded now reaches past its clock.             *)
LEMMA NoneBetween ==
    ASSUME PlansOverlap, MInv, NEW n \in Nodes, NEW q \in Nodes, NEW s \in Schedules,
           Kind[s] = "cron", pass[n] # Idle, pass[q] # Idle, pass[n].resume[s] = NULL,
           Plan(s, NULL, pass[n].now) # {},
           NEW f \in FiresOf(s), Maximum(Plan(s, NULL, pass[n].now)) < f
    PROVE  pass[q].now < f
<1> DEFINE P == Plan(s, NULL, pass[n].now)
           d == MaxPass + Skew[q] - Skew[n]
<1>1. /\ pass[n].now \in Nat /\ pass[q].now \in Nat /\ pass[n].age \in Nat /\ pass[q].age \in Nat
      /\ clock \in Nat /\ Skew[n] \in Nat /\ Skew[q] \in Nat /\ MaxPass \in Nat
  BY ClockAssumption DEF MInv, Fields, Passes
<1>2. /\ pass[n].now + pass[n].age = clock + Skew[n] /\ pass[n].age <= MaxPass
      /\ pass[q].now + pass[q].age = clock + Skew[q]
  BY DEF MInv, OnTime
<1>3. pass[q].now <= pass[n].now + d BY <1>1, <1>2
<1>4. d \in Int /\ d <= Horizon /\ d <= MaxPlanned * Period[s] BY <1>1 DEF PlansOverlap
<1>5. NULL \in Moments BY DEF Moments
<1>6. Maximum(P) \in P /\ \A y \in P : y <= Maximum(P) BY <1>1, <1>5, PlanMaximum
<1>7. Maximum(P) \in Nat /\ pass[n].now < Maximum(P)
  BY <1>1, <1>5, <1>6, PlanDef, DueBounds DEF After
<1>8. f \in Nat /\ f % Period[s] = 0 BY ClockAssumption, PlanAssumption DEF FiresOf, Latest
<1> SUFFICES ASSUME f <= pass[q].now PROVE FALSE BY <1>1, <1>8
<1>9. pass[n].now < f /\ f <= pass[n].now + d BY <1>1, <1>3, <1>4, <1>7, <1>8
<1> HIDE DEF d
<1>10. f \in P BY <1>1, <1>4, <1>8, <1>9, PlanReaches
<1> HIDE DEF P
<1> QED BY <1>6, <1>7, <1>8, <1>10 DEF P

(* The fire times up to the resume point a node records have their tasks.  *)
LEMMA RecordedCovered ==
    ASSUME MInv, NEW n \in Nodes, NEW s \in Schedules, s = pass[n].current, s # NULL,
           pass[n] # Idle, Kind[s] = "cron", anchor[s] # NULL,
           NEW f \in FiresOf(s), anchor[s] <= f, f <= Maximum(pass[n].planned)
    PROVE  tasks[s][f] = 1
<1> DEFINE last == pass[n].resume[s]
           now == pass[n].now
           P == Plan(s, last, now)
<1>1. /\ last \in Moments /\ now \in Nat /\ row[s].last \in Moments /\ anchor[s] \in Nat
      /\ f \in Nat /\ f \in 1..Latest /\ row[s].last # NULL /\ row[s].last \in Nat
  BY ClockAssumption, PlanAssumption
  DEF MInv, Fields, Passes, Rows, Moments, FiresOf, Latest, Anchored
<1>2. P # {} /\ pass[n].planned = P /\ \A g \in P \cap (1..Latest) : tasks[s][g] = 1
  BY DEF MInv, Inserted
<1>3. Maximum(P) \in P BY <1>1, <1>2, PlanMaximum
<1>4. CASE f <= row[s].last BY <1>4 DEF MInv, Covered
<1>5. CASE row[s].last < f
  <2>1. anchor[s] <= row[s].last /\ Resumes(n, s) /\ Near(n, s) BY <1>1 DEF MInv, Anchored
  <2>2. After(last, now) < f
    <3>1. CASE last = NULL BY <1>1, <1>5, <2>1, <3>1 DEF Near, After
    <3>2. CASE last # NULL BY <1>1, <1>5, <2>1, <3>2 DEF Resumes, After, Moments
    <3> QED BY <3>1, <3>2
  <2>3. f \in P BY <1>1, <1>2, <1>3, <2>2, PlanHasNoGap
  <2> QED BY <1>1, <1>2, <2>3
<1> QED BY <1>1, <1>4, <1>5

(* AdvanceLastMaterializedAt moves the resume point, and only forward.     *)
LEMMA AdvanceKeeps == ASSUME PlansOverlap, MInv, NEW n \in Nodes, Advance(n) PROVE MInv'
<1>1. PICK s \in Schedules : /\ s = pass[n].current /\ s # NULL
                             /\ pass[n] \in Passes /\ pass[n] # Idle
                             /\ pass \in [Nodes -> Passes]
  BY IdlePass DEF MInv, Fields, Advance, Passes
<1> DEFINE last == row[s].last
           at == Maximum(pass[n].planned)
           p == [pass[n] EXCEPT !.current = NULL, !.planned = {}]
<1>2. p \in Passes /\ p.resume = pass[n].resume /\ p.now = pass[n].now /\ p.age = pass[n].age
      /\ p.current = NULL /\ p.listed \subseteq pass[n].listed
  BY <1>1 DEF Passes
<1>3. pass' = [pass EXCEPT ![n] = EndIfDone(p)] /\ UNCHANGED <<clock, tasks>>
  BY <1>1 DEF Advance
<1>4. Counted' BY <1>3 DEF MInv, Fields, Counted, Latest
<1>5. EndIfDone(p) \in Passes /\ (EndIfDone(p) = Idle \/ EndIfDone(p) = p)
  BY <1>2, EndsOrStays, IdlePass
<1>6. IF Later(last, at)
      THEN /\ row' = [row EXCEPT ![s].last = at]
           /\ anchor' = [anchor EXCEPT ![s] = IF anchor[s] = NULL THEN at ELSE anchor[s]]
      ELSE UNCHANGED <<row, anchor>>
  BY <1>1 DEF Advance, MInv, Fields
<1>7. /\ last \in Moments /\ pass[n].resume[s] \in Moments /\ pass[n].now \in Nat
      /\ row \in [Schedules -> Rows] /\ anchor \in [Schedules -> Moments]
  BY <1>1 DEF MInv, Fields, Passes, Rows
<1>8. /\ pass[n].planned = Plan(s, pass[n].resume[s], pass[n].now) /\ pass[n].planned # {}
      /\ \A f \in pass[n].planned \cap (1..Latest) : tasks[s][f] = 1
  BY <1>1 DEF MInv, Inserted
<1>9. at \in Nat /\ at \in pass[n].planned
  <2>1. at \in Plan(s, pass[n].resume[s], pass[n].now) BY <1>1, <1>7, <1>8, PlanMaximum
  <2> QED BY <1>1, <1>7, <1>8, <2>1, PlanDef, DueBounds
<1> HIDE DEF at, p
<1>10. CASE ~Later(last, at)
  <2>1. UNCHANGED <<row, anchor>> BY <1>6, <1>10
  <2> QED BY <1>1, <1>2, <1>3, <1>4, <1>5, <2>1, OnePassGoesOn
<1>11. CASE Later(last, at)
  <2>1. /\ row' \in [Schedules -> Rows] /\ row'[s].last = at /\ row'[s].exists = row[s].exists
        /\ \A u \in Schedules \ {s} : row'[u] = row[u]
    BY <1>1, <1>6, <1>7, <1>9, <1>11 DEF Rows, Moments
  <2>2. /\ anchor' \in [Schedules -> Moments]
        /\ anchor'[s] = IF anchor[s] = NULL THEN at ELSE anchor[s]
        /\ \A u \in Schedules \ {s} : anchor'[u] = anchor[u]
    BY <1>1, <1>6, <1>7, <1>9, <1>11 DEF Moments
  <2>3. pass' \in [Nodes -> Passes] /\ pass'[n] = EndIfDone(p)
        /\ \A q \in Nodes \ {n} : pass'[q] = pass[q]
    BY <1>1, <1>3, <1>5
  <2>4. Fields' BY <1>3, <1>4, <2>1, <2>2, <2>3 DEF MInv, Fields, Passes, Rows, Moments
  <2>5. ASSUME NEW q \in Nodes PROVE Kept(q) /\ Inserted(q)' /\ OnTime(q)'
    <3>1. CASE q # n BY <1>3, <2>3, <3>1, OthersKept
    <3>2. CASE q = n /\ EndIfDone(p) = Idle BY <2>3, <3>2, IdleKept
    <3>3. CASE q = n /\ EndIfDone(p) # Idle
      <4>1. pass'[n] = p BY <1>5, <2>3, <3>3
      <4>2. Kept(n) BY <1>1, <1>2, <4>1 DEF Kept
      <4>3. Inserted(n)' BY <1>2, <4>1 DEF Inserted
      <4>4. OnTime(n)' BY <1>1, <1>2, <1>3, <4>1 DEF MInv, OnTime, Idle
      <4> QED BY <3>3, <4>2, <4>3, <4>4
    <3> QED BY <3>1, <3>2, <3>3
  <2>6. Anchored(s) /\ row[s].last = last /\ Covered(s) BY <1>1 DEF MInv
  <2>7. last # NULL => last \in Nat /\ last < at BY <1>7, <1>11 DEF Later, Moments
  <2>8. anchor[s] # NULL => anchor[s] \in Nat BY <1>1, <1>7 DEF Moments
  <2>9. at # NULL BY <1>9, ClockAssumption
  <2>10. Anchored(s)'
    <3>1. row[s].exists BY <1>1 DEF MInv, Listed
    <3> QED BY <1>9, <2>1, <2>2, <2>6, <2>7, <2>8, <2>9, <3>1 DEF Anchored
  <2>11. ASSUME NEW q \in Nodes PROVE Listed(q)'
    <3>1. \A u \in Schedules : row'[u].exists = row[u].exists BY <2>1
    <3>2. CASE pass'[q] = Idle BY <3>2, IdlePass DEF Listed
    <3>3. CASE pass'[q] # Idle BY <2>5, <3>1, <3>3 DEF Kept, MInv, Listed
    <3> QED BY <3>2, <3>3
  <2>12. Covered(s)'
    <3>1. SUFFICES ASSUME Kind[s] = "cron", NEW f \in FiresOf(s), anchor'[s] <= f, f <= at
                   PROVE  tasks[s][f] = 1
      BY <1>3, <2>1 DEF Covered, FiresOf, Latest
    <3>2. f \in 1..Latest /\ f \in Nat BY ClockAssumption, PlanAssumption DEF FiresOf, Latest
    <3>3. CASE anchor[s] = NULL
      <4>1. f = at BY <1>9, <2>2, <3>1, <3>2, <3>3
      <4> QED BY <1>8, <1>9, <3>2, <4>1
    <3>4. CASE anchor[s] # NULL
      BY <1>1, <2>2, <3>1, <3>4, RecordedCovered DEF at
    <3> QED BY <3>3, <3>4
  <2>13. ASSUME NEW u \in Schedules PROVE Anchored(u)' /\ Covered(u)'
    <3>1. CASE u = s BY <2>10, <2>12, <3>1
    <3>2. CASE u # s
      BY <1>3, <2>1, <2>2, <3>2 DEF MInv, Anchored, Covered, FiresOf, Latest
    <3> QED BY <3>1, <3>2
  <2>14. ASSUME NEW q \in Nodes, NEW u \in Schedules PROVE Resumes(q, u)' /\ Near(q, u)'
    <3>1. CASE pass'[q] = Idle BY <3>1, IdlePass DEF Resumes, Near, Idle
    <3>2. CASE pass'[q] # Idle /\ u # s
      <4>1. /\ pass[q] # Idle /\ pass'[q].resume = pass[q].resume /\ pass'[q].now = pass[q].now
            /\ anchor'[u] = anchor[u] /\ row'[u] = row[u] /\ Resumes(q, u) /\ Near(q, u)
        BY <2>1, <2>2, <2>5, <3>2 DEF Kept, MInv
      <4> QED BY <4>1 DEF Resumes, Near, FiresOf, Latest, Idle
    <3>3. CASE pass'[q] # Idle /\ u = s
      <4>1. /\ pass[q] # Idle /\ pass'[q].resume = pass[q].resume /\ pass'[q].now = pass[q].now
            /\ Resumes(q, s) /\ Near(q, s) /\ pass[q].resume[s] \in Moments
        BY <1>1, <2>5, <3>3 DEF Kept, MInv, Fields, Passes
      <4>2. Resumes(q, s)'
        BY <1>9, <2>1, <2>2, <2>6, <2>7, <2>8, <2>9, <4>1 DEF Resumes, Anchored, Moments
      <4>3. CASE anchor[s] # NULL BY <2>2, <3>3, <4>1, <4>2, <4>3 DEF Near, FiresOf, Latest, Idle
      <4>4. CASE anchor[s] = NULL
        <5>1. pass[n].resume[s] = NULL /\ anchor'[s] = at
          BY <1>1, <2>2, <4>4 DEF MInv, Resumes
        <5>2. at = Maximum(Plan(s, NULL, pass[n].now)) /\ Plan(s, NULL, pass[n].now) # {}
          BY <1>8, <5>1 DEF at
        <5>3. ASSUME Kind[s] = "cron", NEW f \in FiresOf(s), at < f PROVE pass[q].now < f
          BY <1>1, <4>1, <5>1, <5>2, <5>3, NoneBetween
        <5> QED BY <3>3, <4>1, <4>2, <5>1, <5>3 DEF Near, FiresOf, Latest
      <4> QED BY <3>3, <4>2, <4>3, <4>4
    <3> QED BY <3>1, <3>2, <3>3
  <2> QED BY <2>4, <2>5, <2>11, <2>13, <2>14 DEF MInv
<1> QED BY <1>10, <1>11

LEMMA MInvInit == Init => MInv
<1> SUFFICES ASSUME Init PROVE MInv OBVIOUS
<1>1. NoRow \in Rows /\ NoRow.last = NULL /\ ~NoRow.enabled BY DEF NoRow, Rows, Moments
<1>2. /\ \A s \in Schedules : row[s] = NoRow /\ anchor[s] = NULL
      /\ \A n \in Nodes : pass[n] = Idle
  BY DEF Init
<1>3. Fields BY <1>1, IdlePass DEF Init, Fields, Counted, Moments
<1>4. ASSUME NEW n \in Nodes PROVE Listed(n) /\ Inserted(n) /\ OnTime(n)
  BY <1>2, IdlePass DEF Listed, Inserted, OnTime
<1>5. ASSUME NEW s \in Schedules PROVE Anchored(s) /\ Covered(s)
  BY <1>1, <1>2 DEF Anchored, Covered
<1>6. ASSUME NEW n \in Nodes, NEW s \in Schedules PROVE Resumes(n, s) /\ Near(n, s)
  BY <1>2, IdlePass DEF Resumes, Near
<1> QED BY <1>3, <1>4, <1>5, <1>6 DEF MInv

LEMMA MInvNext == ASSUME PlansOverlap, MInv, [Next]_vars PROVE MInv'
<1>1. CASE UNCHANGED vars
  <2>1. UNCHANGED <<clock, row, tasks, pass, anchor>> BY <1>1 DEF vars
  <2>2. row \in [Schedules -> Rows] /\ \A s \in Schedules : row[s].enabled => row[s].exists
    BY DEF MInv, Fields, Anchored
  <2> QED BY <2>1, <2>2, PassesUnchanged
<1>2. CASE Next
  BY <1>2, CreateKeeps, UpdateKeeps, StartKeeps, AdvanceKeeps, AdvanceFailsKeeps, CrashKeeps,
     MaterializeKeeps, MaterializeFailsKeeps, TickKeeps DEF Next
<1> QED BY <1>1, <1>2

(* RunOnce and AdvanceLastMaterializedAt on any number of nodes: while the *)
(* plans of nodes that start a schedule overlap, the resume point of a     *)
(* cron schedule passes no fire time without a task, whatever nodes die    *)
(* between insert and advance and however short a plan was cut.            *)
THEOREM NothingSkipped == ASSUME PlansOverlap PROVE Spec => []NoFireTimeSkipped
<1>1. MInv => NoFireTimeSkipped
  <2> SUFFICES ASSUME MInv, NEW s \in Schedules, Kind[s] = "cron", anchor[s] # NULL,
                      NEW f \in FiresOf(s), anchor[s] <= f, f <= row[s].last
               PROVE  tasks[s][f] > 0
    BY DEF NoFireTimeSkipped
  <2>1. tasks[s][f] = 1 BY DEF MInv, Covered
  <2> QED BY <2>1
<1>2. MInv /\ [Next]_vars => MInv' BY MInvNext
<1> QED BY <1>1, <1>2, MInvInit, PTL DEF Spec
=============================================================================
