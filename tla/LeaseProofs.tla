----------------------------- MODULE LeaseProofs -----------------------------
(***************************************************************************)
(* What the sweeper's TTL guarantees, for every setting that Load accepts: *)
(* the bound on how long an orphan stays claimed, and, when three times    *)
(* the heartbeat interval fits into the TTL of recoverOrphansSQL, that a   *)
(* live worker must miss three heartbeats to lose its claim.               *)
(***************************************************************************)
EXTENDS Lease, TLAPS

(* A claim's silence, and what is left until the next beat or sweep, never *)
(* exceed what the beats missed, or the sweeps failed, so far allow for.   *)
SilenceAllowance ==
    /\ claim = "held" => silence + beatIn <= cfg.interval * (missed + 1)
    /\ claim # "free" => silence + sweepIn <= SweepTTL + cfg.sweep * (failedSweeps + 1)

Timers ==
    /\ cfg \in Load
    /\ beatIn \in 0..cfg.interval
    /\ sweepIn \in 0..cfg.sweep
    /\ claim \in {"free", "held", "orphan"}
    /\ silence \in Nat /\ missed \in 0..MaxMissed /\ failedSweeps \in 0..MaxFailedSweeps

LInv == Timers /\ SilenceAllowance

(* Products only grow: the allowance for one more miss or failure.         *)
LEMMA OneMore ==
    ASSUME NEW a \in Nat, NEW b \in Nat
    PROVE  /\ a * (b + 1) \in Nat
           /\ a * (b + 1 + 1) = a * (b + 1) + a
           /\ a <= a * (b + 1)
BY SMT

(* What duration returns is positive: a given value, or the default.       *)
LEMMA DurationPositive ==
    ASSUME NEW values, values \subseteq Nat, NEW def \in Nat \ {0}, NEW d \in Duration(values, def)
    PROVE  d \in Nat \ {0} /\ d \in values \cup {def}
<1>1. CASE d = def BY <1>1
<1>2. CASE d \in values /\ d > 0 BY <1>2
<1> QED BY <1>1, <1>2, Zenon DEF Duration

(* The settings in force are natural numbers, and positive.                *)
LEMMA Settings ==
    ASSUME cfg \in Load
    PROVE  /\ cfg.interval \in Nat \ {0} /\ cfg.sweep \in Nat \ {0}
           /\ cfg.interval \in HeartbeatIntervals \cup {DefaultInterval}
<1>1. cfg \in [interval : Duration(HeartbeatIntervals, DefaultInterval),
               ttl : Duration(HeartbeatTTLs, DefaultTTL),
               sweep : Duration(SweepIntervals, DefaultSweep)]
  BY Zenon DEF Load
<1>2. /\ cfg.interval \in Duration(HeartbeatIntervals, DefaultInterval)
      /\ cfg.sweep \in Duration(SweepIntervals, DefaultSweep)
  BY <1>1
<1>3. /\ cfg.interval \in Nat \ {0}
      /\ cfg.interval \in HeartbeatIntervals \cup {DefaultInterval}
  BY <1>2, SettingAssumption, DurationPositive, Zenon
<1>4. cfg.sweep \in Nat \ {0}
  BY <1>2, SettingAssumption, DurationPositive, Zenon
<1> QED BY <1>3, <1>4

LEMMA InitEstablishes == Init => LInv
<1> SUFFICES ASSUME Init PROVE LInv OBVIOUS
<1> USE DEF Init
<1>1. cfg.interval \in Nat \ {0} /\ cfg.sweep \in Nat \ {0} BY Settings
<1>2. Timers BY <1>1, SettingAssumption DEF Timers
<1>3. SilenceAllowance BY DEF SilenceAllowance
<1> QED BY <1>2, <1>3 DEF LInv

(* One step per action.                                                    *)
LEMMA StepPreserves == LInv /\ [Next]_vars => LInv'
<1> SUFFICES ASSUME LInv, [Next]_vars PROVE LInv' OBVIOUS
<1> USE DEF LInv
<1>1. /\ cfg.interval \in Nat \ {0} /\ cfg.sweep \in Nat \ {0}
      /\ beatIn \in 0..cfg.interval /\ sweepIn \in 0..cfg.sweep
      /\ silence \in Nat /\ missed \in Nat /\ failedSweeps \in Nat
  BY Settings, SettingAssumption DEF Timers
<1>2. /\ cfg.interval * (missed + 1) \in Nat
      /\ cfg.interval * (missed + 1 + 1) = cfg.interval * (missed + 1) + cfg.interval
      /\ cfg.interval <= cfg.interval * (missed + 1)
  BY <1>1, OneMore
<1>3. /\ cfg.sweep * (failedSweeps + 1) \in Nat
      /\ cfg.sweep * (failedSweeps + 1 + 1) = cfg.sweep * (failedSweeps + 1) + cfg.sweep
      /\ cfg.sweep <= cfg.sweep * (failedSweeps + 1)
  BY <1>1, OneMore
<1>4. cfg.interval * (0 + 1) = cfg.interval BY <1>1
<1>5. cfg' = cfg BY DEF Next, vars, Claim, Beat, MissBeat, Die, Finish, SweepOnce, SweepFails, Tick
<1>6. Timers'
  BY <1>1, <1>5, SettingAssumption
  DEF Timers, Next, vars, Claim, Beat, MissBeat, Die, Finish, SweepOnce, SweepFails, Tick
<1>7. SilenceAllowance'
  <2> USE <1>1, <1>2, <1>3, <1>4, <1>5 DEF SilenceAllowance, Timers
  <2>1. CASE Claim BY <2>1, SettingAssumption DEF Claim
  <2>2. CASE Beat BY <2>2, SettingAssumption DEF Beat
  <2>3. CASE MissBeat BY <2>3 DEF MissBeat
  <2>4. CASE Die BY <2>4 DEF Die
  <2>5. CASE Finish BY <2>5 DEF Finish
  <2>6. CASE SweepOnce BY <2>6, SettingAssumption DEF SweepOnce, Expired
  <2>7. CASE SweepFails
    <3>1. failedSweeps' + 1 = failedSweeps + 1 + 1 BY <2>7 DEF SweepFails
    <3>2. cfg.sweep * (failedSweeps' + 1) = cfg.sweep * (failedSweeps + 1) + cfg.sweep
      BY <3>1
    <3> QED BY <2>7, <3>2, SettingAssumption DEF SweepFails
  <2>8. CASE Tick BY <2>8 DEF Tick
  <2>9. CASE UNCHANGED vars BY <2>9 DEF vars
  <2> QED BY <2>1, <2>2, <2>3, <2>4, <2>5, <2>6, <2>7, <2>8, <2>9 DEF Next
<1> QED BY <1>6, <1>7

(* The allowance is an invariant of every configuration.                   *)
THEOREM Allowance == Spec => []LInv
BY InitEstablishes, StepPreserves, PTL DEF Spec

(* A dead worker's claim is released within the 90 seconds and a sweep     *)
(* interval, plus one more for every sweep that failed, for every setting  *)
(* Load accepts.                                                           *)
THEOREM OrphansFoundInTime == Spec => []OrphanFoundInTime
<1>1. LInv => OrphanFoundInTime
  <2> SUFFICES ASSUME LInv, claim = "orphan"
               PROVE  silence <= SweepTTL + cfg.sweep * (failedSweeps + 1)
    BY DEF OrphanFoundInTime
  <2>1. /\ cfg.sweep \in Nat /\ sweepIn \in Nat /\ silence \in Nat /\ failedSweeps \in Nat
    BY Settings, SettingAssumption DEF LInv, Timers
  <2>2. cfg.sweep * (failedSweeps + 1) \in Nat BY <2>1, OneMore
  <2>3. silence + sweepIn <= SweepTTL + cfg.sweep * (failedSweeps + 1)
    BY DEF LInv, SilenceAllowance
  <2> QED BY <2>1, <2>2, <2>3, SettingAssumption
<1> QED BY <1>1, Allowance, PTL

(* When every heartbeat interval fits three times into the sweeper's TTL,  *)
(* a live worker is swept only after three missed heartbeats, whatever the *)
(* alignment of the tickers and whatever TTL is configured.                *)
THEOREM ThreeMisses ==
    ASSUME \A i \in HeartbeatIntervals \cup {DefaultInterval} : MinHeartbeatTTLRatio * i <= SweepTTL
    PROVE  Spec => ThreeMissesAllowed
<1>1. ASSUME LInv, claim = "held", Expired
      PROVE  missed >= MinHeartbeatTTLRatio
  <2>1. /\ cfg.interval \in Nat \ {0} /\ cfg.interval \in HeartbeatIntervals \cup {DefaultInterval}
        /\ beatIn \in Nat /\ silence \in Nat /\ missed \in Nat
    BY <1>1, Settings, SettingAssumption DEF LInv, Timers
  <2>2. cfg.interval * (missed + 1) \in Nat BY <2>1, OneMore
  <2>3. silence <= cfg.interval * (missed + 1)
    BY <1>1, <2>1, <2>2 DEF LInv, SilenceAllowance
  <2>4. 3 * cfg.interval < cfg.interval * (missed + 1)
    BY <1>1, <2>1, <2>2, <2>3, SettingAssumption DEF Expired, MinHeartbeatTTLRatio
  <2>5. 3 < missed + 1 BY <2>1, <2>4
  <2> QED BY <2>1, <2>5 DEF MinHeartbeatTTLRatio
<1>2. LInv /\ [Next]_vars => [(claim = "held" /\ SweepOnce /\ Expired) => missed >= MinHeartbeatTTLRatio]_vars
  BY <1>1
<1> QED BY <1>2, Allowance, PTL DEF Spec, ThreeMissesAllowed
=============================================================================
