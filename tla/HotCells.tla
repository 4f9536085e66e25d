------------------------------ MODULE HotCells ------------------------------
(***************************************************************************)
(* The hot cells (src/query-api/app/hot_cells.py and routes_zones.py).  A  *)
(* Flink job counts the satellites of each sky cell per window and writes  *)
(* a row for each to a topic.  The pump of the query API keeps the rows in *)
(* Redis, one sorted set per window, with a key for the window that it     *)
(* heard of last; a route reads that key and then the set.  All keys       *)
(* expire, and Redis keeps nothing on disk.                                *)
(*                                                                         *)
(* The topic has several partitions and the job several tasks, so the rows *)
(* of different windows come in any order: the pump may receive any row of *)
(* a window that has ended.  A window is named by its number.              *)
(***************************************************************************)
EXTENDS Integers, FiniteSets

CONSTANTS
  Cell,            \* HEALPix cells
  Client,          \* requests to /zones/hot that may run at a time
  Limit,           \* its limit parameter
  WindowSeconds,   \* the length of a window of the job
  WindowTTL,       \* WINDOW_TTL_S
  MaxSats,         \* bound: satellites in a cell
  MaxTime,         \* bound: the last second
  MaxFaults        \* bound: failures and restarts

ASSUME HotCellsAssumption ==
  /\ IsFiniteSet(Cell)
  /\ Limit \in Nat \ {0}
  /\ WindowSeconds \in Nat \ {0}
  /\ WindowTTL \in Nat \ {0}
  /\ MaxSats \in Nat
  /\ MaxTime \in Nat
  /\ MaxFaults \in Nat

VARIABLES
  clock,
  pump,            \* the task of HotCellsConsumer runs
  hot,             \* sky:hot:{window_end_ms}: n_sats per cell, 0 for no member
  hot_until,       \* when that key expires
  latest,          \* sky:hot:latest, 0 if there is no such key
  latest_until,    \* when that key expires
  request,         \* what each request is at, or was answered; `row` is history:
                   \* when the last row of its window had been stored
  stored,          \* history: when a row of a window was last stored
  lost,            \* history: when Redis was last lost
  faults           \* bound: faults so far

redis == <<hot, hot_until, latest, latest_until, stored, lost>>
vars == <<clock, pump, redis, request, faults>>

Window == 1..(MaxTime \div WindowSeconds)
NoCells == [c \in Cell |-> 0]
Members(w) == {c \in Cell : hot[w][c] > 0}

Idle == [at |-> "idle"]

Fault == faults < MaxFaults /\ faults' = faults + 1

Init ==
  /\ clock = 0
  /\ pump = TRUE
  /\ hot = [w \in Window |-> NoCells]
  /\ hot_until = [w \in Window |-> 0]
  /\ latest = 0
  /\ latest_until = 0
  /\ request = [i \in Client |-> Idle]
  /\ stored = [w \in Window |-> 0]
  /\ lost = 0
  /\ faults = 0

-----------------------------------------------------------------------------
(* The pump.                                                               *)

\* The service is started again: a new group, at the end of the topic, and
\* the requests are gone.  Nothing else starts the pump again.
Restart ==
  /\ pump' = TRUE
  /\ request' = [i \in Client |-> Idle]
  /\ UNCHANGED <<clock, redis, faults>>

\* Mutated form: the expiry is set once, when the key is made.
Store_ExpireOnce(w, c, n) ==
  /\ hot' = [hot EXCEPT ![w][c] = n]
  /\ hot_until' = [hot_until EXCEPT ![w] = IF Members(w) = {} THEN clock + WindowTTL ELSE @]
  /\ latest' = w
  /\ latest_until' = clock + WindowTTL
  /\ stored' = [stored EXCEPT ![w] = clock]
  /\ UNCHANGED lost

\* Mutated form: the latest key has no expiry.
Store_LatestForEver(w, c, n) ==
  /\ hot' = [hot EXCEPT ![w][c] = n]
  /\ hot_until' = [hot_until EXCEPT ![w] = clock + WindowTTL]
  /\ latest' = w
  /\ latest_until' = MaxTime + WindowTTL
  /\ stored' = [stored EXCEPT ![w] = clock]
  /\ UNCHANGED lost

\* The pipeline, which Redis executes as one transaction: ZADD, EXPIRE, SET.
Store(w, c, n) ==
  /\ hot' = [hot EXCEPT ![w][c] = n]
  /\ hot_until' = [hot_until EXCEPT ![w] = clock + WindowTTL]
  /\ latest' = w
  /\ latest_until' = clock + WindowTTL
  /\ stored' = [stored EXCEPT ![w] = clock]
  /\ UNCHANGED lost

Ended == {w \in Window : w * WindowSeconds <= clock}

\* _pump, of the row of a window that has ended.
Consume(w, c, n) ==
  /\ pump
  /\ Store(w, c, n)
  /\ UNCHANGED <<clock, pump, request, faults>>

\* The row cannot be read, or Redis does not answer: the pump ends for good,
\* and the answer may have been lost after the transaction.
PumpEnds ==
  /\ pump
  /\ Fault
  /\ pump' = FALSE
  /\ \/ UNCHANGED redis
     \/ \E w \in Ended, c \in Cell, n \in 1..MaxSats : Store(w, c, n)
  /\ UNCHANGED <<clock, request>>

-----------------------------------------------------------------------------
(* The route hot_zones, of an authorised request.                          *)

\* GET sky:hot:latest.
ReadLatest(i) ==
  /\ request[i].at \in {"idle", "done"}
  /\ latest # 0
  /\ request' = [request EXCEPT ![i] = [at |-> "reading", window |-> latest,
                                       row |-> stored[latest], since |-> clock]]
  /\ UNCHANGED <<clock, pump, redis, faults>>

\* There is no such key: an empty answer, which names no window.
NothingLatest(i) ==
  /\ request[i].at \in {"idle", "done"}
  /\ latest = 0
  /\ request' = [request EXCEPT ![i] = Idle]
  /\ UNCHANGED <<clock, pump, redis, faults>>

\* ZREVRANGE key 0 limit-1: cells with the highest scores.  Which of several
\* with one score is left open.
Top(w) ==
  {cells \in SUBSET Members(w) :
     /\ Cardinality(cells) = IF Limit < Cardinality(Members(w)) THEN Limit ELSE Cardinality(Members(w))
     /\ \A c \in cells, d \in Members(w) \ cells : hot[w][c] >= hot[w][d]}

\* The second read, and the answer, whose shapes are left out.
ReadCells(i) ==
  /\ request[i].at = "reading"
  /\ \E cells \in Top(request[i].window) :
       request' = [request EXCEPT ![i] = [at |-> "done", window |-> @.window, row |-> @.row,
                                          since |-> @.since, end |-> clock, cells |-> cells]]
  /\ UNCHANGED <<clock, pump, redis, faults>>

\* Redis does not answer a read: 500.
ReadFails(i) ==
  /\ request[i].at = "reading"
  /\ Fault
  /\ request' = [request EXCEPT ![i] = Idle]
  /\ UNCHANGED <<clock, pump, redis>>

-----------------------------------------------------------------------------
(* The environment.                                                        *)

\* A second passes, and Redis drops the keys that expire.
Elapse ==
  LET now == clock + 1
  IN  /\ clock < MaxTime
      /\ clock' = now
      /\ hot' = [w \in Window |-> IF hot_until[w] <= now THEN NoCells ELSE hot[w]]
      /\ latest' = IF latest_until <= now THEN 0 ELSE latest
      /\ UNCHANGED <<pump, hot_until, latest_until, stored, lost, request, faults>>

\* Redis restarts without its keys.
RedisRestarts ==
  /\ Fault
  /\ hot' = [w \in Window |-> NoCells]
  /\ latest' = 0
  /\ lost' = clock
  /\ UNCHANGED <<clock, pump, hot_until, latest_until, stored, request>>

Next ==
  \/ Restart
  \/ \E w \in Ended, c \in Cell, n \in 1..MaxSats : Consume(w, c, n)
  \/ PumpEnds
  \/ \E i \in Client : ReadLatest(i) \/ NothingLatest(i) \/ ReadCells(i) \/ ReadFails(i)
  \/ Elapse
  \/ RedisRestarts

Spec == Init /\ [][Next]_vars

-----------------------------------------------------------------------------
(* Properties.                                                             *)

Request ==
  {Idle}
  \cup [at : {"reading"}, window : Window, row : 0..MaxTime, since : 0..MaxTime]
  \cup [at : {"done"}, window : Window, row : 0..MaxTime, since : 0..MaxTime,
        end : 0..MaxTime, cells : SUBSET Cell]

TypeOK ==
  /\ clock \in 0..MaxTime
  /\ pump \in BOOLEAN
  /\ hot \in [Window -> [Cell -> 0..MaxSats]]
  /\ hot_until \in [Window -> 0..(MaxTime + WindowTTL)]
  /\ latest \in Window \cup {0}
  /\ latest_until \in 0..(MaxTime + WindowTTL)
  /\ request \in [Client -> Request]
  /\ stored \in [Window -> 0..MaxTime]
  /\ lost \in 0..MaxTime
  /\ faults \in 0..MaxFaults

\* A map is not older than the TTL: of the window that an answer names the
\* last row was stored less than WINDOW_TTL_S before the request came.  When
\* the job, the topic or the pump stops, the old map goes away by itself.
AnswerIsFresh ==
  \A i \in Client : request[i].at = "done" => request[i].since - request[i].row < WindowTTL

\* The two reads of the route are not atomic, and yet an answer that names
\* a window has cells of it, unless the window expired or Redis was lost
\* since the request came: the set outlives the key that leads to it.
NamedWindowHasCells ==
  \A i \in Client : request[i].at = "done" =>
    \/ request[i].cells # {}
    \/ request[i].end - request[i].row >= WindowTTL
    \/ lost >= request[i].since
=============================================================================
