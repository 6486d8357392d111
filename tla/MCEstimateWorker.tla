--------------------------- MODULE MCEstimateWorker ---------------------------
(* Two worker processes under one worker ID.                                *)
EXTENDS EstimateWorker, TLC

CONSTANTS p1, p2, w1

MCIdOf         == [w \in Worker |-> w1]
MCBackoffTicks == [n \in 1 .. MaxAttempts |-> 1]
MCSymmetry     == Permutations({p1, p2})
=============================================================================
