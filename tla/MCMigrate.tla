------------------------------ MODULE MCMigrate ------------------------------
(* Three processes: an old binary, a new one, and a second new one.        *)
EXTENDS Migrate
CONSTANTS p1, p2, p3
MCProcs == {p1, p2, p3}
MCKnown == [p \in Procs |-> IF p = p1 THEN {1, 2} ELSE {1, 2, 3}]
=============================================================================
