---------------------------- MODULE MCPassWorker ----------------------------
(* Instances of PassWorker for TLC.  The elevations lie below, on, between *)
(* and above the thresholds, with two values that can make a peak.         *)
EXTENDS PassWorker

CONSTANTS o1

Degrees == {-5, 0, 5, 10, 15, 20}
=============================================================================
