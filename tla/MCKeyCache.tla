----------------------------- MODULE MCKeyCache -----------------------------
(* A small instance of KeyCache: two lookups of a key that race in one     *)
(* service (a).                                                            *)
EXTENDS KeyCache, TLC

CONSTANTS l1, l2, a, k1

TwoInOne == (l1 :> a) @@ (l2 :> a)
=============================================================================
