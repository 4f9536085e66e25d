----------------------------- MODULE TrackQuery -----------------------------
(***************************************************************************)
(* The readers of the hot state (src/query-api/app/main.py): the calls     *)
(* GET /satellites/{id}/track and GET /satellites/active, next to the      *)
(* persister that writes it.  A call awaits Redis, and get_track may then  *)
(* await Postgres, so the persister moves on between its two reads.        *)
(*                                                                         *)
(* A call is a record that grows as the handler runs; its last state, with *)
(* `stage` "answered", is the response.                                    *)
(***************************************************************************)
EXTENDS PositionPersister

CONSTANTS
  RowLimit,     \* LIMIT of the Postgres query
  ActiveLimit   \* the `limit` parameter of list_active

ASSUME QueryAssumption == RowLimit \in Nat \ {0} /\ ActiveLimit \in Nat \ {0}

VARIABLE call   \* the call in progress, or the last one answered

NoCall == [stage |-> "idle"]

\* The times of s from `cutoff` on that are stored.
InWindow(s, cutoff) == {k[2] : k \in {r \in db : r[1] = s /\ r[2] >= cutoff}}
Limited(s, cutoff) == Min({RowLimit, Cardinality(InWindow(s, cutoff))})

\* Mutated form: ORDER BY sampled_at ASC.
ColdRows_Ascending(s, cutoff) ==
  LET n == Cardinality(InWindow(s, cutoff))
  IN  [j \in 1..Limited(s, cutoff) |-> Latest(InWindow(s, cutoff), n + 1 - j)]

\* ORDER BY sampled_at DESC LIMIT.
ColdRows(s, cutoff) == [j \in 1..Limited(s, cutoff) |-> Latest(InWindow(s, cutoff), j)]

\* The scan of the list stops at the first sample before the cutoff.
HotRows(s, cutoff) ==
  LET before == {i \in DOMAIN track[s] : track[s][i] < cutoff}
  IN  IF before = {} THEN track[s] ELSE SubSeq(track[s], 1, Min(before) - 1)

Track(s, cutoff, samples) ==
  [stage |-> "answered", op |-> "track", sat |-> s, cutoff |-> cutoff, samples |-> samples]

\* get_track up to LRANGE, and its answer if the scan found any sample.
GetTrack(s, cutoff) ==
  /\ call.stage \in {"idle", "answered"}
  /\ call' = IF HotRows(s, cutoff) # <<>> THEN Track(s, cutoff, HotRows(s, cutoff))
             ELSE [stage |-> "cold", op |-> "track", sat |-> s, cutoff |-> cutoff]
  /\ UNCHANGED vars

\* The rest of get_track when the scan found none: Postgres.
ColdFallback ==
  /\ call.stage = "cold"
  /\ call' = Track(call.sat, call.cutoff, ColdRows(call.sat, call.cutoff))
  /\ UNCHANGED vars

\* ZREVRANGE: the members with the highest scores, in that order.  Members
\* of equal score may come in either order.
Ranked(ids) ==
  /\ \A i, j \in DOMAIN ids : i < j => ids[i] # ids[j] /\ active[ids[i]] >= active[ids[j]]
  /\ \A s \in Sat : active[s] # 0 /\ (\A i \in DOMAIN ids : ids[i] # s) =>
       Len(ids) = ActiveLimit /\ active[s] <= active[ids[ActiveLimit]]

ListActive ==
  /\ call.stage \in {"idle", "answered"}
  /\ \E n \in 0..Min({ActiveLimit, Cardinality(Sat)}) :
     \E ids \in [1..n -> {s \in Sat : active[s] # 0}] :
       /\ Ranked(ids)
       /\ call' = [stage |-> "lindex", op |-> "active", ids |-> ids,
                   seen |-> [i \in 1..n |-> active[ids[i]]]]
  /\ UNCHANGED vars

\* Mutated form: LINDEX -1, the oldest sample.
Attached_Last(s) == IF track[s] = <<>> THEN 0 ELSE track[s][Len(track[s])]

\* LINDEX 0; 0 is an item without a position.
Attached(s) == IF track[s] = <<>> THEN 0 ELSE track[s][1]

AttachTracks ==
  /\ call.stage = "lindex"
  /\ call' = [stage |-> "answered", op |-> "active", ids |-> call.ids, seen |-> call.seen,
              position |-> [i \in DOMAIN call.ids |-> Attached(call.ids[i])]]
  /\ UNCHANGED vars

QueryInit == Init /\ call = NoCall

QueryNext ==
  \/ Next /\ UNCHANGED call
  \/ \E s \in Sat, cutoff \in 1..MaxLog : GetTrack(s, cutoff)
  \/ ColdFallback
  \/ ListActive
  \/ AttachTracks

QuerySpec == QueryInit /\ [][QueryNext]_<<vars, call>>

-----------------------------------------------------------------------------
(* Properties.                                                             *)

TrackAnswered == call.stage = "answered" /\ call.op = "track"
ActiveAnswered == call.stage = "answered" /\ call.op = "active"

\* A track answer is strictly newest first, of the window and without gaps:
\* every stored sample between its oldest and its newest one is in it,
\* whether it comes from Redis or from Postgres, though the list be trimmed
\* or lost with Redis and the rows be stored before the list is written.
TrackHasNoGaps ==
  TrackAnswered =>
    /\ \A i, j \in DOMAIN call.samples : i < j => call.samples[i] > call.samples[j]
    /\ \A i \in DOMAIN call.samples : call.samples[i] >= call.cutoff
    /\ \A i \in DOMAIN call.samples : \A t \in InWindow(call.sat, call.samples[Len(call.samples)]) :
         t < call.samples[i] => \E j \in DOMAIN call.samples : call.samples[j] = t

\* list_active reads scores and positions in two calls, and the persister may
\* write in between, yet a position is never older than the last_seen next
\* to it: it is missing (0) if Redis was lost in between, or at least as new.
PositionNotOlder ==
  ActiveAnswered =>
    \A i \in DOMAIN call.ids : call.position[i] = 0 \/ call.position[i] >= call.seen[i]
=============================================================================
