-------------------------------- MODULE Cron ---------------------------------
(***************************************************************************)
(* Schedule.NextN (internal/cron/nextn.go): the fire times of a cron       *)
(* expression in a time zone that changes its UTC offset once, and the     *)
(* materializer's resumption of the enumeration from the last fire time.   *)
(*                                                                         *)
(* Instants are integers (UTC).  A zone is an instant of transition and    *)
(* the offset before and after it; the wall clock shows instant + offset.  *)
(* An expression is the set of wall-clock times it matches.                *)
(***************************************************************************)
EXTENDS Integers

CONSTANTS Zones,        \* records [at, before, after]
          Expressions,  \* sets of wall-clock times
          Instants,     \* the instants considered, an interval
          Starts        \* instants the first call may start from

ASSUME ZoneAssumption == \A z \in Zones : z.at \in Int /\ z.before \in Int /\ z.after \in Int
ASSUME InstantAssumption == Instants \subseteq Int /\ Starts \subseteq Instants

VARIABLES zone, expr,   \* the schedule's
          start,        \* where the first call started (history)
          t,            \* the loop's cursor
          lastWallClock,
          fired         \* everything emitted so far, over all calls

vars == <<zone, expr, start, t, lastWallClock, fired>>

OffsetAt(z, u) == IF u < z.at THEN z.before ELSE z.after
WallClock(z, u) == u + OffsetAt(z, u)

(* time.Date in a location (Go's library): the offset in force at the wall *)
(* clock read as if it were UTC, looked up again when it does not fit.     *)
Date(z, wall) ==
    LET guess == OffsetAt(z, wall)
        utc   == wall - guess
        fits  == (wall < z.at) <=> (utc < z.at)
    IN  IF guess = 0 \/ fits THEN utc ELSE wall - OffsetAt(z, utc)

(* The instants considered hold every occurrence that time.Date may choose *)
(* of a wall clock that one of them shows.                                 *)
ASSUME FoldAssumption ==
    \A z \in Zones, u \in Instants : Date(z, WallClock(z, u)) \in Instants

(* Faulty variants: "not before" for "equal"; the first guess is believed; *)
(* a wall clock that has a second occurrence is resolved to it.            *)
RoundTripsOrLater(z, u) == Date(z, WallClock(z, u)) >= u
RoundTripsOnGuess(z, u) == WallClock(z, u) - OffsetAt(z, WallClock(z, u)) = u
RoundTripsInSecond(z, u) ==
    LET late == WallClock(z, u) - z.after IN late >= z.at => late = u

RoundTrips(z, u) == Date(z, WallClock(z, u)) = u

(* spec.Next (the cron library): the first instant after u whose wall      *)
(* clock matches.                                                          *)
Matching(u) == WallClock(zone, u) \in expr
Candidates == {u \in Instants : u > t /\ Matching(u)}

Init == /\ zone \in Zones /\ expr \in Expressions /\ start \in Starts
        /\ t = start
        /\ lastWallClock = WallClock(zone, start)
        /\ fired = {}

(* One turn of the loop: skip, or emit and remember the wall clock.        *)
Step(u) ==
    /\ u \in Candidates /\ \A v \in Candidates : u <= v
    /\ t' = u
    /\ IF RoundTrips(zone, u) /\ WallClock(zone, u) # lastWallClock
       THEN /\ fired' = fired \cup {u}
            /\ lastWallClock' = WallClock(zone, u)
       ELSE UNCHANGED <<fired, lastWallClock>>
    /\ UNCHANGED <<zone, expr, start>>

(* The call returns (n fire times, or the horizon, reached) and a later    *)
(* call starts from the last fire time, as last_materialized_at records.   *)
Resume(u) ==
    /\ u \in fired /\ \A v \in fired : v <= u
    /\ t' = u
    /\ lastWallClock' = WallClock(zone, u)
    /\ UNCHANGED <<zone, expr, start, fired>>

Next == \E u \in Instants : Step(u) \/ Resume(u)

Spec == Init /\ [][Next]_vars

-----------------------------------------------------------------------------
(* A wall-clock time that occurs twice fires at most once, over all calls  *)
(* and however often the enumeration is resumed within the repeated hour.  *)
FiresAtMostOnce ==
    \A u, v \in fired : WallClock(zone, u) = WallClock(zone, v) => u = v

(* No matching wall-clock time that lies wholly behind the cursor is lost: *)
(* one that occurred, once or twice, since the start has fired.            *)
NoWallClockLost ==
    \A u \in Instants :
        (/\ Matching(u)
         /\ \A v \in Instants : WallClock(zone, v) = WallClock(zone, u) => start < v /\ v <= t)
        => \E v \in fired : WallClock(zone, v) = WallClock(zone, u)

(* "fires exactly once -- on its first, pre-transition occurrence" holds   *)
(* in zones at or west of Greenwich that have no eastern summer time:      *)
(* there the second occurrence of a repeated wall clock never fires.  East *)
(* of it time.Date resolves to the second one, and the first never fires.  *)
WestFiresFirst ==
    (zone.before <= 0 /\ zone.after <= 0) =>
        \A u \in fired : ~\E v \in Instants : v < u /\ WallClock(zone, v) = WallClock(zone, u)
=============================================================================
