----------------------------- MODULE CronProofs ------------------------------
(***************************************************************************)
(* The round-trip check alone makes a repeated wall-clock time fire once,  *)
(* for every zone, expression and resumption: time.Date maps one wall      *)
(* clock to one instant, and only an instant it maps back to is emitted.   *)
(* The comparison with lastWallClock is not needed for it.  And neither    *)
(* test ever loses a wall clock: time.Date always answers with one of its  *)
(* occurrences, so one of them passes the check, and what the comparison   *)
(* skips has fired already or is where the enumeration began.              *)
(***************************************************************************)
EXTENDS Cron, TLAPS

(* Whatever has been emitted passed the round-trip check.                  *)
FiredRoundTrips == \A u \in fired : RoundTrips(zone, u)

(* Two instants that show the same wall clock and both round-trip are one. *)
LEMMA RoundTripInjective ==
    ASSUME NEW z, NEW u, NEW v, RoundTrips(z, u), RoundTrips(z, v),
           WallClock(z, u) = WallClock(z, v)
    PROVE  u = v
BY DEF RoundTrips

LEMMA FiredRoundTripsStep == FiredRoundTrips /\ [Next]_vars => FiredRoundTrips'
<1> SUFFICES ASSUME FiredRoundTrips, [Next]_vars PROVE FiredRoundTrips' OBVIOUS
<1>1. ASSUME NEW u \in Instants, Step(u) PROVE FiredRoundTrips'
  <2>1. zone' = zone BY <1>1 DEF Step
  <2>2. CASE RoundTrips(zone, u) /\ WallClock(zone, u) # lastWallClock
    BY <1>1, <2>1, <2>2 DEF Step, FiredRoundTrips
  <2>3. CASE ~(RoundTrips(zone, u) /\ WallClock(zone, u) # lastWallClock)
    BY <1>1, <2>1, <2>3 DEF Step, FiredRoundTrips
  <2> QED BY <2>2, <2>3
<1>2. ASSUME NEW u \in Instants, Resume(u) PROVE FiredRoundTrips'
  BY <1>2 DEF Resume, FiredRoundTrips
<1>3. CASE UNCHANGED vars BY <1>3 DEF vars, FiredRoundTrips
<1> QED BY <1>1, <1>2, <1>3 DEF Next

(* A wall-clock time fires at most once, in every zone with one change of  *)
(* offset, whichever way and by however much (nextn.go, roundTrips).       *)
THEOREM AtMostOnce == Spec => []FiresAtMostOnce
<1>1. Init => FiredRoundTrips BY DEF Init, FiredRoundTrips
<1>2. FiredRoundTrips => FiresAtMostOnce
  BY RoundTripInjective DEF FiredRoundTrips, FiresAtMostOnce
<1> QED BY <1>1, <1>2, FiredRoundTripsStep, PTL DEF Spec
-----------------------------------------------------------------------------
(* time.Date answers with an occurrence of the wall clock it is given,     *)
(* whenever the wall clock occurs at all: a gap swallows none that the     *)
(* round-trip check would have let through.                                *)
LEMMA DateOccurs ==
    ASSUME NEW z \in Zones, NEW u \in Int
    PROVE  /\ WallClock(z, Date(z, WallClock(z, u))) = WallClock(z, u)
           /\ RoundTrips(z, Date(z, WallClock(z, u)))
BY ZoneAssumption DEF WallClock, Date, OffsetAt, RoundTrips

(* At or west of Greenwich it answers with the first of two occurrences.   *)
LEMMA WestDateIsFirst ==
    ASSUME NEW z \in Zones, z.before <= 0, z.after <= 0, NEW u \in Int, NEW v \in Int,
           RoundTrips(z, u), v < u
    PROVE  WallClock(z, v) # WallClock(z, u)
BY ZoneAssumption DEF WallClock, Date, OffsetAt, RoundTrips

(* What the cursor, the remembered wall clock and the emitted instants     *)
(* have to do with each other.  A round-tripping match behind the cursor   *)
(* has had its wall clock fired, unless the enumeration began on it.       *)
Cursor ==
    /\ zone \in Zones /\ start \in Instants /\ t \in Instants
    /\ fired \subseteq Instants
    /\ \A u \in fired : u <= t
Remembered == \E u \in fired \cup {start} : lastWallClock = WallClock(zone, u)
Covered ==
    \A u \in Instants :
        (start < u /\ u <= t /\ Matching(u) /\ RoundTrips(zone, u))
            => \E v \in fired \cup {start} : WallClock(zone, v) = WallClock(zone, u)

CInv == Cursor /\ FiredRoundTrips /\ Remembered /\ Covered

LEMMA CursorInit == Init => CInv
BY InstantAssumption DEF Init, CInv, Cursor, FiredRoundTrips, Remembered, Covered

LEMMA StepCovers ==
    ASSUME CInv, NEW u \in Instants, Step(u)
    PROVE  Cursor' /\ Remembered' /\ Covered'
<1> DEFINE emits == RoundTrips(zone, u) /\ WallClock(zone, u) # lastWallClock
<1>0. /\ zone' = zone /\ expr' = expr /\ start' = start /\ t' = u /\ u > t
      /\ \A v \in Candidates : u <= v
  BY DEF Step, Candidates
<1>1. /\ emits  => fired' = fired \cup {u} /\ lastWallClock' = WallClock(zone, u)
      /\ ~emits => fired' = fired /\ lastWallClock' = lastWallClock
  BY DEF Step
<1>2. Cursor'
  <2>1. fired' \subseteq fired \cup {u} BY <1>1
  <2>2. \A v \in fired : v <= u BY <1>0, InstantAssumption DEF CInv, Cursor
  <2> QED BY <1>0, <2>1, <2>2, InstantAssumption DEF CInv, Cursor
<1>3. Remembered' BY <1>0, <1>1 DEF CInv, Remembered
<1>4. ASSUME NEW x \in Instants, start < x, x <= u, Matching(x), RoundTrips(zone, x)
      PROVE  \E v \in fired' \cup {start} : WallClock(zone, v) = WallClock(zone, x)
  <2>1. CASE x <= t BY <1>1, <1>4, <2>1 DEF CInv, Covered
  <2>2. CASE ~(x <= t)
    <3>1. x \in Candidates BY <1>4, <2>2, InstantAssumption DEF CInv, Cursor, Candidates
    <3>2. x = u BY <1>0, <1>4, <3>1, InstantAssumption
    <3>3. CASE emits BY <1>1, <3>2, <3>3
    <3>4. CASE ~emits
      <4>1. lastWallClock = WallClock(zone, x) BY <1>4, <3>2, <3>4
      <4> QED BY <1>1, <3>4, <4>1 DEF CInv, Remembered
    <3> QED BY <3>3, <3>4
  <2> QED BY <2>1, <2>2
<1>5. Covered' BY <1>0, <1>4 DEF Covered, Matching
<1> QED BY <1>2, <1>3, <1>5

LEMMA ResumeCovers ==
    ASSUME CInv, NEW u \in Instants, Resume(u)
    PROVE  Cursor' /\ Remembered' /\ Covered'
<1>1. /\ zone' = zone /\ expr' = expr /\ start' = start /\ fired' = fired
      /\ t' = u /\ lastWallClock' = WallClock(zone, u)
      /\ u \in fired /\ \A v \in fired : v <= u
  BY DEF Resume
<1>2. u <= t BY <1>1 DEF CInv, Cursor
<1>3. Cursor' BY <1>1 DEF CInv, Cursor
<1>4. Remembered' BY <1>1 DEF Remembered
<1>5. \A x \in Instants : x <= u => x <= t
  BY <1>2, InstantAssumption DEF CInv, Cursor
<1>6. Covered' BY <1>1, <1>5 DEF CInv, Covered, Matching
<1> QED BY <1>3, <1>4, <1>6

LEMMA CursorStep == CInv /\ [Next]_vars => CInv'
<1> SUFFICES ASSUME CInv, [Next]_vars PROVE CInv' OBVIOUS
<1>1. FiredRoundTrips' BY FiredRoundTripsStep DEF CInv
<1>2. Cursor' /\ Remembered' /\ Covered'
  <2>1. CASE UNCHANGED vars BY <2>1 DEF vars, CInv, Cursor, Remembered, Covered, Matching
  <2> QED BY <2>1, StepCovers, ResumeCovers DEF Next
<1> QED BY <1>1, <1>2 DEF CInv

(* Every matching wall-clock time that came wholly after the start and     *)
(* lies wholly behind the cursor has fired: neither the round-trip check   *)
(* nor the comparison with lastWallClock (nextn.go) loses one, whatever    *)
(* the zone, the expression and the points at which the materializer       *)
(* resumes from the last fire time.                                        *)
THEOREM NoneLost == Spec => []NoWallClockLost
<1>1. ASSUME CInv, NEW u \in Instants, Matching(u),
             \A v \in Instants : WallClock(zone, v) = WallClock(zone, u) => start < v /\ v <= t
      PROVE  \E v \in fired : WallClock(zone, v) = WallClock(zone, u)
  <2> DEFINE d == Date(zone, WallClock(zone, u))
  <2>1. zone \in Zones /\ u \in Int /\ start \in Instants /\ start \in Int
    BY <1>1, InstantAssumption DEF CInv, Cursor
  <2>2. d \in Instants BY <2>1, FoldAssumption
  <2>3. WallClock(zone, d) = WallClock(zone, u) /\ RoundTrips(zone, d) BY <2>1, DateOccurs
  <2> HIDE DEF d
  <2>4. start < d /\ d <= t /\ Matching(d) BY <1>1, <2>2, <2>3 DEF Matching
  <2>5. PICK v \in fired \cup {start} : WallClock(zone, v) = WallClock(zone, d)
    BY <1>1, <2>2, <2>3, <2>4 DEF CInv, Covered
  <2>6. v # start BY <1>1, <2>1, <2>3, <2>5
  <2> QED BY <2>3, <2>5, <2>6
<1>2. CInv => NoWallClockLost BY <1>1 DEF NoWallClockLost
<1> QED BY <1>2, CursorInit, CursorStep, PTL DEF Spec

(* At or west of Greenwich a repeated wall-clock time fires on its first   *)
(* occurrence, as the comment on NextN says of every zone: the second one  *)
(* never passes the round-trip check.                                      *)
THEOREM WestFirst == Spec => []WestFiresFirst
<1>1. ASSUME CInv, zone.before <= 0, zone.after <= 0, NEW u \in fired,
             NEW v \in Instants, v < u
      PROVE  WallClock(zone, v) # WallClock(zone, u)
  <2>1. zone \in Zones /\ u \in Int /\ v \in Int /\ RoundTrips(zone, u)
    BY <1>1, InstantAssumption DEF CInv, Cursor, FiredRoundTrips
  <2> QED BY <1>1, <2>1, WestDateIsFirst
<1>2. CInv => WestFiresFirst BY <1>1 DEF WestFiresFirst
<1> QED BY <1>2, CursorInit, CursorStep, PTL DEF Spec
=============================================================================
