--------------------------- MODULE MCTokenBucket ---------------------------
(* Small instances of TokenBucket: calls of the ingest API (a) and of the  *)
(* query API (b), which share the bucket of a key.                         *)
EXTENDS TokenBucket, TLC

CONSTANTS r1, r2, a, b

\* One call at a time in each service.
OneEach == (r1 :> a) @@ (r2 :> b)
=============================================================================
