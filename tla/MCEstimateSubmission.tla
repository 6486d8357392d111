------------------------- MODULE MCEstimateSubmission -------------------------
(* Two tabs, two different requests, three keys. *)
EXTENDS EstimateSubmission, TLC

CONSTANTS t1, t2, a, b, k1, k2, k3

MCSymmetry == Permutations({t1, t2}) \cup Permutations({a, b}) \cup Permutations({k1, k2, k3})
=============================================================================
