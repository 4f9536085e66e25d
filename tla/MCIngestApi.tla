---------------------------- MODULE MCIngestApi ----------------------------
(* An instance of IngestApi for TLC: one satellite on the watchlist, and   *)
(* two catalogues, of three and of one other satellite.                    *)
EXTENDS IngestApi

CONSTANTS w, a, b, c

Catalogues == {<<a, b, c>>, <<w, b>>}
=============================================================================
