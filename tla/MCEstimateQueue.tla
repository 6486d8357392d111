--------------------------- MODULE MCEstimateQueue ---------------------------
(* Two jobs, two worker IDs that any number of stale claims may share, two  *)
(* attempts, a lease of two ticks and a retry delay of one tick.            *)
EXTENDS EstimateQueue, TLC

CONSTANTS j1, j2, w1, w2

MCBackoffTicks == [n \in 1 .. MaxAttempts |-> 1]
MCSymmetry     == Permutations({j1, j2}) \cup Permutations({w1, w2})
=============================================================================
