------------------------ MODULE MCPositionPersister ------------------------
(* Instances of PositionPersister for TLC.                                 *)
EXTENDS PositionPersister

CONSTANTS s1, s2, p1, p2

\* Two satellites on two partitions, or on one.
Apart == s1 :> p1 @@ s2 :> p2
Together == s1 :> p1 @@ s2 :> p1
=============================================================================
