---------------------------- MODULE TleProducer ----------------------------
(***************************************************************************)
(* The TLE producer (src/tle-producer/app): it fetches a catalogue from    *)
(* Celestrak, at start and again when the last fetch is FetchInterval old, *)
(* and at each tick posts a sample of every satellite on the watchlist and *)
(* of a slice of the others, which a cursor walks in turn.  A file with    *)
(* the catalogue and a file with the time of the fetch outlive the process *)
(* and let a start within FetchInterval do without the network.            *)
(*                                                                         *)
(* One unit of `clock` is a second.  What lies between two awaits is one   *)
(* action, except that the two files are written in steps, between which   *)
(* the process may die.  What the requests meet is left open here: a       *)
(* request ends, with an answer or without; IngestApi says how.            *)
(***************************************************************************)
EXTENDS Integers, Sequences, FiniteSets, Functions

CONSTANTS
  Sat,             \* norad_ids
  Catalogue,       \* what the two groups of Celestrak may answer: lists of ids
  Watchlist,       \* settings.watchlist()
  TickSeconds,     \* propagation_tick_seconds
  CadenceSeconds,  \* bulk_cadence_seconds
  FetchInterval,   \* tle_fetch_interval_minutes, in seconds
  InflightCap,     \* _INFLIGHT_CAP
  MaxTime,         \* bound: the last second
  MaxFaults        \* bound: crashes, signals and failures

\* The cadence is not shorter than the tick (config.py: 5 and 30 seconds).
ASSUME ProducerAssumption ==
  /\ Catalogue \subseteq Seq(Sat)
  /\ \A ids \in Catalogue : \A i, j \in DOMAIN ids : ids[i] = ids[j] => i = j
  /\ Watchlist \subseteq Sat
  /\ TickSeconds \in Nat \ {0}
  /\ CadenceSeconds \in Nat
  /\ TickSeconds <= CadenceSeconds
  /\ FetchInterval \in Nat \ {0}
  /\ InflightCap \in Nat \ {0}
  /\ MaxTime \in Nat
  /\ FetchInterval <= MaxTime
  /\ MaxFaults \in Nat

VARIABLES
  clock,
  file,            \* active.txt: its ids and the time of its fetch
  stamp,           \* .celestrak_last_fetch_ms, 0 if there is none
  pc,              \* where run() is
  step,            \* where CelestrakSource.fetch() is
  answer,          \* the catalogue that was fetched last
  bulk_ids,        \* the ids that are not on the watchlist, in order
  watched,         \* the ids that are: watchlist & by_id.keys()
  bulk_cursor,
  last_refresh,
  wake,            \* when wait_for times out
  stop,            \* the stop event
  waiting,         \* satellites of this tick that wait for the semaphore
  sent,            \* satellites of this tick whose request is under way
  sampled,         \* the time of this tick, which its samples carry
  fetched,         \* history: when the elements in use were fetched
  stale,           \* history: a refresh has failed since they were loaded
  waited,          \* history: ticks since a satellite was last in a slice
  asked,           \* history: when Celestrak last sent a catalogue
  kept,            \* history: that time is in the file of the last fetch
  faults           \* bound: faults so far

disk == <<file, stamp>>
list == <<bulk_ids, watched, bulk_cursor, last_refresh, fetched, stale, waited>>
posts == <<waiting, sent, sampled>>
spacing == <<asked, kept>>
running == <<clock, disk, pc, step, answer, list, wake, stop, posts, spacing>>
producer == <<running, faults>>

NoFile == [state |-> "none"]
Torn == [state |-> "torn"]
Whole(ids, at) == [state |-> "whole", ids |-> ids, at |-> at]

\* What _parse_tle_file makes of the file: a torn one is empty.
Parsed(f) == IF f.state = "whole" THEN f.ids ELSE <<>>

Fault == faults < MaxFaults /\ faults' = faults + 1

-----------------------------------------------------------------------------
(* The bulk slice.                                                         *)

\* int(ratio * 1000).
Permille == (1000 * TickSeconds) \div CadenceSeconds

\* _bulk_slice_per_tick.  The ceiling is written as the code writes it.
SliceSize(len) ==
  IF len = 0 THEN 0
  ELSE LET n == -((-len * Permille) \div 1000) IN IF n < 1 THEN 1 ELSE n

\* slice_ids.
Slice(ids, cursor) ==
  {ids[((cursor + i) % Len(ids)) + 1] : i \in 0..(SliceSize(Len(ids)) - 1)}

\* Mutated form: the cursor goes one further than the slice.
NextCursor_Skips(ids, cursor) ==
  IF ids = <<>> THEN cursor ELSE (cursor + SliceSize(Len(ids)) + 1) % Len(ids)

NextCursor(ids, cursor) ==
  IF ids = <<>> THEN cursor ELSE (cursor + SliceSize(Len(ids))) % Len(ids)

\* The satellites that are not on the watchlist, in the order of the list.
\* There is one such sequence, for no satellite is in the list twice.
Bulk(ids) ==
  LET rest == {i \in DOMAIN ids : ids[i] \notin Watchlist}
  IN  {[k \in DOMAIN place |-> ids[place[k]]] :
         place \in {p \in [1..Cardinality(rest) -> rest] :
                     \A j, k \in DOMAIN p : j < k => p[j] < p[k]}}

-----------------------------------------------------------------------------

Init ==
  /\ clock = FetchInterval
  /\ file = NoFile
  /\ stamp = 0
  /\ pc = "down"
  /\ step = "none"
  /\ answer = <<>>
  /\ bulk_ids = <<>>
  /\ watched = {}
  /\ bulk_cursor = 0
  /\ last_refresh = 0
  /\ wake = 0
  /\ stop = FALSE
  /\ waiting = {}
  /\ sent = {}
  /\ sampled = 0
  /\ fetched = 0
  /\ stale = FALSE
  /\ waited = [n \in Sat |-> 0]
  /\ asked = 0
  /\ kept = TRUE
  /\ faults = 0

-----------------------------------------------------------------------------
(* The source.                                                             *)

\* Someone starts the process, later than the second of the last tick.
Start ==
  /\ pc = "down" /\ clock > sampled
  /\ pc' = "starting"
  /\ step' = "check"
  /\ UNCHANGED <<clock, disk, answer, list, wake, stop, posts, spacing, faults>>

\* Mutated form: a fetch is allowed one second early.
Throttled_Early == clock - stamp + 1 < FetchInterval

\* elapsed_min < tle_fetch_interval_minutes.
Throttled == clock - stamp < FetchInterval

\* The end of fetch(), and what run() does with its result.  The cursor is 0
\* at a start and stays where it is at a refresh, whatever the new list.
UseCatalogue(ids, at) ==
  /\ bulk_ids' \in Bulk(ids)
  /\ watched' = Range(ids) \cap Watchlist
  /\ UNCHANGED bulk_cursor
  /\ last_refresh' = clock
  /\ answer' = <<>>
  /\ pc' = IF pc = "starting" THEN "looping" ELSE "ticking"
  /\ step' = "none"
  /\ fetched' = at
  /\ stale' = FALSE
  /\ waited' = [n \in Sat |-> 0]

\* The throttle is on: the previous file.
UsePrevious ==
  /\ step = "check" /\ Throttled
  /\ file # NoFile
  /\ UseCatalogue(Parsed(file), IF file.state = "whole" THEN file.at ELSE stamp)
  /\ UNCHANGED <<clock, disk, wake, stop, posts, spacing, faults>>

\* The throttle is off: client.get.
Ask ==
  /\ step = "check" /\ ~Throttled
  /\ step' = "asking"
  /\ UNCHANGED <<clock, disk, pc, answer, list, wake, stop, posts, spacing, faults>>

\* One of the two groups answers, and write_text opens the file.
Answered(ids) ==
  /\ step = "asking"
  /\ answer' = ids
  /\ file' = Torn
  /\ step' = "writing"
  /\ asked' = clock
  /\ kept' = FALSE
  /\ UNCHANGED <<clock, stamp, pc, list, wake, stop, posts, faults>>

\* Mutated form: the timestamp is written before the file.
WriteFile_StampFirst ==
  /\ step = "writing"
  /\ step' = "stamping"
  /\ stamp' = clock
  /\ UNCHANGED <<clock, file, pc, answer, list, wake, stop, posts, spacing, faults>>

\* write_text ends.
WriteFile ==
  /\ step = "writing"
  /\ file' = Whole(answer, clock)
  /\ step' = "stamping"
  /\ UNCHANGED <<clock, stamp, pc, answer, list, wake, stop, posts, spacing, faults>>

\* _write_last_fetch, and the result of fetch().
WriteStamp ==
  /\ step = "stamping"
  /\ stamp' = clock
  /\ kept' = TRUE
  /\ UseCatalogue(answer, clock)
  /\ UNCHANGED <<clock, file, wake, stop, posts, asked, faults>>

\* _write_last_fetch ignores an OSError.
StampFails ==
  /\ step = "stamping" /\ Fault
  /\ UseCatalogue(answer, clock)
  /\ UNCHANGED <<clock, disk, wake, stop, posts, spacing>>

\* fetch() raises: both groups answer with an error, or there is no answer
\* at all, or the file cannot be written, or it is missing though a fetch
\* is throttled.  The start of the process fails, a refresh is given up.
FetchFails ==
  /\ \/ step \in {"asking", "writing"}
     \/ step = "check" /\ Throttled /\ file = NoFile
  /\ Fault
  /\ step' = "none"
  /\ answer' = <<>>
  /\ IF pc = "starting"
     THEN /\ pc' = "down"
          /\ UNCHANGED <<last_refresh, stale>>
     ELSE /\ pc' = "ticking"
          /\ last_refresh' = clock
          /\ stale' = TRUE
  /\ UNCHANGED <<clock, disk, bulk_ids, watched, bulk_cursor, fetched, waited, wake, stop,
                 posts, spacing>>

-----------------------------------------------------------------------------
(* The loop.                                                               *)

\* Mutated form: the refresh waits for twice the interval of the throttle.
RefreshDue_Twice == clock - last_refresh >= 2 * FetchInterval

RefreshDue == clock - last_refresh >= FetchInterval

\* The process is gone, and its variables with it.
Gone ==
  /\ pc' = "down"
  /\ step' = "none"
  /\ answer' = <<>>
  /\ bulk_ids' = <<>>
  /\ watched' = {}
  /\ bulk_cursor' = 0
  /\ last_refresh' = 0
  /\ wake' = 0
  /\ stop' = FALSE
  /\ waiting' = {}
  /\ sent' = {}
  /\ fetched' = 0
  /\ stale' = FALSE
  /\ waited' = [n \in Sat |-> 0]
  /\ UNCHANGED <<clock, disk, sampled, spacing>>

\* The top of the loop: stop.  client.aclose() has nothing to wait for.
Leave ==
  /\ pc = "looping" /\ stop
  /\ Gone
  /\ UNCHANGED faults

\* The top of the loop: a refresh is due.
Refresh ==
  /\ pc = "looping" /\ ~stop /\ RefreshDue
  /\ pc' = "refreshing"
  /\ step' = "check"
  /\ UNCHANGED <<clock, disk, answer, list, wake, stop, posts, spacing, faults>>

\* The tick: gather starts an emit for each satellite, and each takes the
\* time and computes its position before any waits for the semaphore.
EmitTick ==
  LET slice == Slice(bulk_ids, bulk_cursor)
  IN  /\ \/ pc = "looping" /\ ~stop /\ ~RefreshDue
         \/ pc = "ticking"
      /\ pc' = "posting"
      /\ waiting' = watched \cup slice
      /\ bulk_cursor' = NextCursor(bulk_ids, bulk_cursor)
      /\ sampled' = clock
      /\ waited' = [n \in Sat |-> IF n \in Range(bulk_ids) \ slice THEN waited[n] + 1 ELSE 0]
      /\ UNCHANGED <<clock, disk, step, answer, bulk_ids, watched, last_refresh, fetched, stale,
                     wake, stop, sent, spacing, faults>>

\* The semaphore lets a request go.
Send(n) ==
  /\ n \in waiting
  /\ Cardinality(sent) < InflightCap
  /\ waiting' = waiting \ {n}
  /\ sent' = sent \cup {n}
  /\ UNCHANGED <<clock, disk, pc, step, answer, list, wake, stop, sampled, spacing>>

\* The request ends: any status, or an httpx.HTTPError.  Nothing is retried.
PostEnds(n) ==
  /\ n \in sent
  /\ sent' = sent \ {n}
  /\ UNCHANGED <<clock, disk, pc, step, answer, list, wake, stop, waiting, sampled, spacing>>

\* Mutated form: the requests are started, but not awaited.
Sleep_NotGathered ==
  /\ pc = "posting"
  /\ pc' = "sleeping"
  /\ wake' = clock + TickSeconds
  /\ UNCHANGED <<clock, disk, step, answer, list, stop, posts, spacing, faults>>

\* gather returns.
Sleep ==
  /\ pc = "posting" /\ waiting = {} /\ sent = {}
  /\ pc' = "sleeping"
  /\ wake' = clock + TickSeconds
  /\ UNCHANGED <<clock, disk, step, answer, list, stop, posts, spacing, faults>>

\* wait_for returns or times out.
Wake ==
  /\ pc = "sleeping" /\ (stop \/ clock >= wake)
  /\ pc' = "looping"
  /\ wake' = 0
  /\ UNCHANGED <<clock, disk, step, answer, list, stop, posts, spacing, faults>>

\* SIGTERM or SIGINT, once the handlers are set.
Signal ==
  /\ pc \notin {"down", "starting"} /\ ~stop
  /\ Fault
  /\ stop' = TRUE
  /\ UNCHANGED <<clock, disk, pc, step, answer, list, wake, posts, spacing>>

\* The process dies, or an emit raises something that gather passes on.
Crash ==
  /\ pc # "down"
  /\ Fault
  /\ Gone

\* Time passes, but not while the files are written, nor between a refresh
\* and its tick, where nothing is awaited.
Elapse ==
  /\ clock < MaxTime
  /\ step \notin {"writing", "stamping"}
  /\ pc # "ticking"
  /\ clock' = clock + 1
  /\ UNCHANGED <<disk, pc, step, answer, list, wake, stop, posts, spacing, faults>>

-----------------------------------------------------------------------------

\* The steps that the requests have no part in.
Alone ==
  \/ Start
  \/ UsePrevious
  \/ Ask
  \/ \E ids \in Catalogue : Answered(ids)
  \/ WriteFile
  \/ WriteStamp
  \/ StampFails
  \/ FetchFails
  \/ Leave
  \/ Refresh
  \/ EmitTick
  \/ Sleep
  \/ Wake
  \/ Signal
  \/ Elapse

\* The steps that start and end requests, and faults of the service.
Requests ==
  \/ Crash
  \/ (\E n \in Sat : Send(n) \/ PostEnds(n)) /\ (UNCHANGED faults \/ Fault)
  \/ UNCHANGED running /\ Fault

Next == Alone \/ Requests

Spec == Init /\ [][Next]_producer

-----------------------------------------------------------------------------
(* Properties.                                                             *)

File == {NoFile, Torn} \cup {Whole(ids, t) : ids \in Catalogue, t \in 0..MaxTime}

TypeOK ==
  /\ clock \in FetchInterval..MaxTime
  /\ file \in File
  /\ stamp \in 0..MaxTime
  /\ pc \in {"down", "starting", "looping", "refreshing", "ticking", "posting", "sleeping"}
  /\ step \in {"none", "check", "asking", "writing", "stamping"}
  /\ answer \in Catalogue \cup {<<>>}
  /\ bulk_ids \in Seq(Sat)
  /\ watched \subseteq Watchlist
  /\ bulk_cursor \in Nat
  /\ last_refresh \in 0..MaxTime
  /\ wake \in 0..(MaxTime + TickSeconds)
  /\ stop \in BOOLEAN
  /\ waiting \subseteq Sat /\ sent \subseteq Sat
  /\ sampled \in 0..MaxTime
  /\ fetched \in 0..MaxTime
  /\ stale \in BOOLEAN
  /\ waited \in [Sat -> Nat]
  /\ asked \in 0..MaxTime
  /\ kept \in BOOLEAN
  /\ faults \in 0..MaxFaults

\* A start that the throttle keeps from the network finds a whole file, not
\* older than the timestamp: the file is written before the timestamp, so a
\* crash while it is written leaves the throttle off (celestrak.py:79).
ThrottledFileIsWhole ==
  Throttled => file.state = "whole" /\ file.at >= stamp

\* "Enforces a ... minimum fetch interval via an internal timestamp so
\* repeated process restarts can't hammer Celestrak": between two catalogues
\* that Celestrak sends lies the interval, across starts, refreshes and
\* crashes, unless the process died before the timestamp of the first was
\* written or the file system refused it.  (Of requests that fail the
\* source keeps no time.)
FetchesAreSpaced ==
  [][asked' # asked /\ kept => asked' - asked >= FetchInterval]_producer

\* The elements a tick computes with are less than two intervals old, as
\* long as no refresh has failed: at most one from the file, whose age is
\* that of the throttle, and one until the refresh, which the throttle never
\* turns away because last_refresh is not before the timestamp.
ElementsAreRecent ==
  pc = "posting" /\ ~stale => sampled - fetched < 2 * FetchInterval

\* The cursor reaches every satellite of the list in turn: since a satellite
\* was last posted, or since the list was loaded, the slices together are
\* shorter than the list.  With SliceSize it follows after how many ticks.
EachInTurn ==
  \A n \in Range(bulk_ids) : waited[n] * SliceSize(Len(bulk_ids)) < Len(bulk_ids)
=============================================================================
