-------------------------- MODULE MCFrozenCampaign --------------------------
(* Fits that converge, one that never does, and a pool of two processes.    *)
EXTENDS FrozenCampaign

CONSTANTS f1, f2, f3, w1, w2, old, new

MCInstalled == [code |-> old, data |-> old]
=============================================================================
