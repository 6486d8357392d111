---------------------------- MODULE MCAcquisition ----------------------------
(* The configuration of tests/test_controller_acquisition.py: a sweep from  *)
(* -2 to 2 in steps of 1 (doubled here), settling 1, sample age 2, two      *)
(* consecutive samples; only the tolerance is coarser, half a step.         *)
EXTENDS Acquisition

MCSweepMin == -4
=============================================================================
