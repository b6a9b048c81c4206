------------------------------ MODULE MCLease --------------------------------
(* Small instances of Lease: a unit is ten seconds.                        *)
EXTENDS Lease

(* Intervals up to a third of the 90 seconds, the default of 10 included.  *)
MCIntervals == {1, 2, 3}
MCTTLs == {3, 9, 12}
MCSweeps == {1, 3, 4}
(* A heartbeat every minute and a TTL of three minutes.                    *)
MCSlowIntervals == {6}
MCSlowTTLs == {18}
MCDefaultSweep == {3}
=============================================================================
