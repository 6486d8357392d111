-------------------------- MODULE MCShadowScheduler --------------------------
(* Three contacts; the gap between the first two is half a large margin.     *)
EXTENDS ShadowScheduler, TLC

CONSTANTS r1, r2, r3

MCStart == <<0, 6, 20>>
MCEnd   == <<4, 10, 24>>

MCSymmetry == Permutations(Run)
=============================================================================
