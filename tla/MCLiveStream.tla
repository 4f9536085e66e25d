---------------------------- MODULE MCLiveStream ----------------------------
(* Instances of LiveStream for TLC. *)
EXTENDS LiveStream

CONSTANTS w1, w2
=============================================================================
