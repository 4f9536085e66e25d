---------------------------- MODULE MCTrackQuery ----------------------------
(* Instances of TrackQuery for TLC: two satellites on one partition.       *)
EXTENDS TrackQuery

CONSTANTS s1, s2, p1

Together == s1 :> p1 @@ s2 :> p1
=============================================================================
