---------------------------- MODULE MCApiProcess -----------------------------
(* A small instance of ApiProcess: two batches and a single submission     *)
(* over a pool of two connections.                                         *)
EXTENDS ApiProcess, TLC

CONSTANTS r1, r2, r3, k1, k2

MCRequests == {r1, r2, r3}
MCBulk == {r1, r2}
MCKeys == {k1, k2}

(* The clocks agree when one batch arrives; the host is ahead when the     *)
(* other does, and behind for the single submission.                       *)
MCSkew == (r1 :> 0) @@ (r2 :> 1) @@ (r3 :> -1)

(* Two batches in one order, with a keyless task between the keys, and two *)
(* in opposite orders, with an invalid item first; a batch that has a key  *)
(* twice, and one without, against a single submission.                    *)
Submitted(a, b, c) == (r1 :> a) @@ (r2 :> b) @@ (r3 :> c)

MCBatches == {Submitted(<<k1, k2>>, <<k1, NULL, k2>>, <<INVALID>>),
              Submitted(<<k1, k2>>, <<INVALID, k2, k1>>, <<INVALID>>),
              Submitted(<<k1>>, <<k2, k2>>, <<k2>>),
              Submitted(<<NULL, k1>>, <<INVALID>>, <<k1>>)}
=============================================================================
