-------------------------------- MODULE Lease --------------------------------
(***************************************************************************)
(* The timing of one claim: the heartbeat ticker of the worker that holds  *)
(* it, the sweeper's ticker, and the TTL written into recoverOrphansSQL,   *)
(* under the settings that config.Load accepts.  Time is discrete; a timer *)
(* that is due fires before time goes on, two that are due fire in either  *)
(* order.                                                                  *)
(***************************************************************************)
EXTENDS Integers

CONSTANTS HeartbeatIntervals,   \* values given for TICK_HEARTBEAT_INTERVAL,
          HeartbeatTTLs,        \* TICK_HEARTBEAT_TTL
          SweepIntervals,       \* and TICK_SWEEP_INTERVAL,
          DefaultInterval, DefaultTTL, DefaultSweep,   \* and what unset ones get
          SweepTTL,             \* the 90 seconds of recoverOrphansSQL
          MaxMissed,            \* bound: heartbeats missed in a row
          MaxFailedSweeps       \* bound: failed sweeps

ASSUME SettingAssumption ==
    /\ HeartbeatIntervals \subseteq Nat /\ HeartbeatTTLs \subseteq Nat
    /\ SweepIntervals \subseteq Nat
    /\ DefaultInterval \in Nat \ {0} /\ DefaultTTL \in Nat \ {0} /\ DefaultSweep \in Nat \ {0}
    /\ SweepTTL \in Nat /\ MaxMissed \in Nat /\ MaxFailedSweeps \in Nat

VARIABLES cfg,           \* the settings in force
          beatIn,        \* time to the next heartbeat tick
          sweepIn,       \* time to the next sweep
          claim,         \* "free", "held", or "orphan" when its holder is dead
          silence,       \* now() - heartbeat_at of the claimed row
          missed,        \* heartbeats missed since it was last refreshed
          failedSweeps   \* sweeps that failed so far

vars == <<cfg, beatIn, sweepIn, claim, silence, missed, failedSweeps>>

MinHeartbeatTTLRatio == 3

(* duration: a variable that is unset or blank gets the default; anything  *)
(* that is not positive is refused, and the process does not start.        *)
Duration(values, def) == {d \in values : d > 0} \cup {def}

(* Load: the settings, and the cross-field rule.                           *)
Load == {c \in [interval : Duration(HeartbeatIntervals, DefaultInterval),
                ttl : Duration(HeartbeatTTLs, DefaultTTL),
                sweep : Duration(SweepIntervals, DefaultSweep)] :
            c.ttl >= MinHeartbeatTTLRatio * c.interval}

(* The worker has been running for a while; the first sweep is jittered.   *)
Init == /\ cfg \in Load
        /\ beatIn \in 1..cfg.interval
        /\ sweepIn \in 0..(cfg.sweep - 1)
        /\ claim = "free" /\ silence = 0 /\ missed = 0
        /\ failedSweeps = 0

Claim ==
    /\ claim = "free"
    /\ claim' = "held" /\ silence' = 0 /\ missed' = 0
    /\ UNCHANGED <<cfg, beatIn, sweepIn, failedSweeps>>

(* The ticker fires and the row, if any, is refreshed.                     *)
Beat ==
    /\ beatIn = 0
    /\ beatIn' = cfg.interval
    /\ IF claim = "held" THEN silence' = 0 /\ missed' = 0 ELSE UNCHANGED <<silence, missed>>
    /\ UNCHANGED <<cfg, sweepIn, claim, failedSweeps>>

(* The ticker fires in vain: the UPDATE fails, or the process is paused.   *)
MissBeat ==
    /\ beatIn = 0 /\ claim = "held" /\ missed < MaxMissed
    /\ beatIn' = cfg.interval
    /\ missed' = missed + 1
    /\ UNCHANGED <<cfg, sweepIn, claim, silence, failedSweeps>>

Die ==
    /\ claim = "held"
    /\ claim' = "orphan"
    /\ UNCHANGED <<cfg, beatIn, sweepIn, silence, missed, failedSweeps>>

Finish ==
    /\ claim = "held"
    /\ claim' = "free" /\ silence' = 0 /\ missed' = 0
    /\ UNCHANGED <<cfg, beatIn, sweepIn, failedSweeps>>

(* Faulty variant: the boundary belongs to the sweeper.                    *)
ExpiredAtTTL == claim # "free" /\ silence >= SweepTTL

Expired == claim # "free" /\ silence > SweepTTL

SweepOnce ==
    /\ sweepIn = 0
    /\ sweepIn' = cfg.sweep
    /\ IF Expired THEN claim' = "free" /\ silence' = 0 /\ missed' = 0
                  ELSE UNCHANGED <<claim, silence, missed>>
    /\ UNCHANGED <<cfg, beatIn, failedSweeps>>

(* Faulty variant: an error makes the sweeper wait twice as long.          *)
SweepBacksOff ==
    /\ sweepIn = 0 /\ failedSweeps < MaxFailedSweeps
    /\ sweepIn' = 2 * cfg.sweep + 1
    /\ failedSweeps' = failedSweeps + 1
    /\ UNCHANGED <<cfg, beatIn, claim, silence, missed>>

SweepFails ==
    /\ sweepIn = 0 /\ failedSweeps < MaxFailedSweeps
    /\ sweepIn' = cfg.sweep
    /\ failedSweeps' = failedSweeps + 1
    /\ UNCHANGED <<cfg, beatIn, claim, silence, missed>>

Tick ==
    /\ beatIn > 0 /\ sweepIn > 0
    /\ beatIn' = beatIn - 1 /\ sweepIn' = sweepIn - 1
    /\ silence' = IF claim = "free" THEN 0 ELSE silence + 1
    /\ UNCHANGED <<cfg, claim, missed, failedSweeps>>

Next == Claim \/ Beat \/ MissBeat \/ Die \/ Finish \/ SweepOnce \/ SweepFails \/ Tick

Spec == Init /\ [][Next]_vars

-----------------------------------------------------------------------------
(* A live worker loses its claim to the sweeper only after it has missed   *)
(* three heartbeats in a row, however the two tickers are aligned.         *)
ThreeMissesAllowed ==
    [][(claim = "held" /\ SweepOnce /\ Expired) => missed >= MinHeartbeatTTLRatio]_vars

(* A dead worker's claim is released within the TTL and one sweep interval *)
(* more for the sweep to come round, one more for every failed sweep.      *)
OrphanFoundInTime ==
    claim = "orphan" => silence <= SweepTTL + cfg.sweep * (failedSweeps + 1)
=============================================================================
