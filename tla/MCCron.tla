------------------------------- MODULE MCCron --------------------------------
(* Small instances of Cron: an hour is two units.  Offsets from three west *)
(* to three east of UTC, clocks put forward or back by one or two units,   *)
(* every expression of up to three wall-clock times around the change.     *)
EXTENDS Cron, FiniteSets

MCInstants == 0..14
MCZones == {z \in [at : {7}, before : -3..3, after : -3..3] :
               z.before - z.after \in {-2, -1, 1, 2}}
MCExpressions == {e \in SUBSET (4..10) : e # {} /\ Cardinality(e) <= 3}
MCStarts == 0..9
=============================================================================
