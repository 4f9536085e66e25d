------------------------- MODULE PositionPersister -------------------------
(***************************************************************************)
(* The position persister (src/position-persister/app/main.py): one        *)
(* consumer of the position topic that batches decoded samples, writes     *)
(* them to Postgres, then to the Redis hot state, and only then commits    *)
(* its offsets to the broker.                                              *)
(*                                                                         *)
(* The topic is a family of append-only logs, one per partition.  A record *)
(* is named by its partition and its offset (from 1); a satellite is keyed *)
(* to one partition, and its samples are taken in the order in which they  *)
(* are published, so the offset also stands for `sampled_at`.  The process *)
(* keeps two cursors per partition: `pos`, up to where `getmany` has       *)
(* fetched, which is what `commit` sends, and `cursor`, up to where the    *)
(* loop over the batch has got.  The batch is what lies between them.      *)
(***************************************************************************)
EXTENDS Naturals, Sequences, FiniteSets, FiniteSetsExt, SequencesExt

CONSTANTS
  Sat,              \* satellites (norad_id)
  Partition,        \* partitions of anduin.satellite.position.v1
  PartitionOf,      \* the partition the producer's key sends a satellite to
  Epoch,            \* epochs a sample's TLE may have
  Nameless,         \* epochs of the element sets that came without a name
  Kind,             \* the kinds of record found on the topic
  FlushRows,        \* FLUSH_ROWS
  TrackMax,         \* TRACK_LIST_MAX
  Disruption,       \* the disruptions that may occur
  MaxLog,           \* bound: records per partition
  MaxDisruptions    \* bound: disruptions other than the registry's

\* "sample":  a well-formed SatellitePositionSampled record;
\* "garbled": bytes that `decode` rejects;
\* "alien":   decodes under a schema of its own, without the fields read.
AllKinds == {"sample", "garbled", "alien"}

\* "signal":   SIGTERM or SIGINT;
\* "fetch":    getmany raises;
\* "flush":    an awaited call of flush() raises;
\* "crash":    the process dies;
\* "redis":    Redis, which persists nothing, restarts;
\* "registry": a request to the schema registry fails.
AllDisruptions == {"signal", "fetch", "flush", "crash", "redis", "registry"}

ASSUME TopicAssumption ==
  /\ IsFiniteSet(Partition)
  /\ PartitionOf \in [Sat -> Partition]
  /\ Epoch \subseteq Nat \ {0}
  /\ Nameless \subseteq Epoch
  /\ Kind \subseteq AllKinds
  /\ Disruption \subseteq AllDisruptions

ASSUME BoundAssumption ==
  /\ FlushRows \in Nat \ {0}
  /\ TrackMax \in Nat \ {0}
  /\ MaxLog \in Nat
  /\ MaxDisruptions \in Nat

VARIABLES
  log,          \* broker: the records of each partition
  committed,    \* broker: offset the group committed, per partition
  pc,           \* where the process is
  closing,      \* in the `finally` clause
  stop_event,   \* a signal arrived
  late,         \* FLUSH_INTERVAL_S has passed since last_flush
  schema,       \* SchemaCache: "unknown", "parsed" or "poisoned"
  tp,           \* the partition the loop over the batch is in
  pos,          \* last offset fetched, per partition
  cursor,       \* last offset the loop has handled, per partition
  buffer,       \* decoded rows awaiting a flush
  rows,         \* the rows of the flush in progress
  db,           \* Postgres: primary keys of satellite_positions
  last_tle_epoch, \* Postgres: satellites, 0 for no row
  name,         \* Postgres: satellites, as the sample that gave it; 0 for NULL
  active,       \* Redis: score in sats:active, 0 for no member
  track,        \* Redis: list sats:track:{norad_id}, newest first
  skipped,      \* history: records this process, or a commit, left behind
  disruptions   \* bound: disruptions so far

broker == <<log, committed>>
control == <<pc, closing, stop_event, late, schema, tp>>
reading == <<pos, cursor, buffer, rows>>
postgres == <<db, last_tle_epoch, name>>
redis == <<active, track>>
history == <<skipped, disruptions>>
vars == <<broker, control, reading, postgres, redis, history>>

Message == [sat : Sat, t : 1..MaxLog, epoch : Epoch, kind : Kind]
Row == [sat : Sat, t : 1..MaxLog, epoch : Epoch]
Offset == Partition \X (1..MaxLog)

\* The records of a partition after offset `from` and up to `to`.
Between(from, to) == {r \in Offset : from[r[1]] < r[2] /\ r[2] <= to[r[1]]}
Batch == Between(cursor, pos)

RowOf(m) == [sat |-> m.sat, t |-> m.t, epoch |-> m.epoch]
Key(m) == <<m.sat, m.t>>
Keys(seq) == {Key(seq[i]) : i \in DOMAIN seq}

\* The j-th largest of a finite set of numbers.
Latest(S, j) == CHOOSE i \in S : Cardinality({k \in S : k >= i}) = j

\* The rows of satellite s in the flush in progress, and their times from the
\* last row to the first.
RowIndex(s) == {i \in DOMAIN rows : rows[i].sat = s}
Named(s) == {i \in RowIndex(s) : rows[i].epoch \notin Nameless}
RowTimes(s) ==
  [j \in 1..Cardinality(RowIndex(s)) |-> rows[Latest(RowIndex(s), j)].t]

NowherePos == [p \in Partition |-> 0]

Init ==
  /\ log = [p \in Partition |-> <<>>]
  /\ committed = NowherePos
  /\ pc = "poll"
  /\ closing = FALSE
  /\ stop_event = FALSE
  /\ late = FALSE
  /\ schema = "unknown"
  /\ tp \in Partition
  /\ pos = NowherePos
  /\ cursor = NowherePos
  /\ buffer = <<>>
  /\ rows = <<>>
  /\ db = {}
  /\ last_tle_epoch = [s \in Sat |-> 0]
  /\ name = [s \in Sat |-> 0]
  /\ active = [s \in Sat |-> 0]
  /\ track = [s \in Sat |-> <<>>]
  /\ skipped = {}
  /\ disruptions = 0

-----------------------------------------------------------------------------
(* The environment: the producers of the topic, time, signals, Redis.      *)

\* A record that is not a sample has no epoch: one stands for all.
Produce(s, e, k) ==
  LET p == PartitionOf[s]
      m == [sat |-> s, t |-> Len(log[p]) + 1, epoch |-> e, kind |-> k]
  IN  /\ Len(log[p]) < MaxLog
      /\ k # "sample" => \A f \in Epoch : e <= f
      /\ log' = [log EXCEPT ![p] = Append(@, m)]
      /\ UNCHANGED <<committed, control, reading, postgres, redis, history>>

\* FLUSH_INTERVAL_S passes without a flush.
Elapse ==
  /\ pc # "down"
  /\ ~late
  /\ late' = TRUE
  /\ UNCHANGED <<broker, pc, closing, stop_event, schema, tp, reading,
                 postgres, redis, history>>

Disrupt(d) ==
  /\ d \in Disruption
  /\ disruptions < MaxDisruptions
  /\ disruptions' = disruptions + 1

\* SIGTERM or SIGINT.
Signal ==
  /\ Disrupt("signal")
  /\ pc # "down"
  /\ ~stop_event
  /\ stop_event' = TRUE
  /\ UNCHANGED <<broker, pc, closing, late, schema, tp, reading, postgres,
                 redis, skipped>>

\* Redis runs without persistence: a restart empties it.
RedisRestart ==
  /\ Disrupt("redis")
  /\ active' = [s \in Sat |-> 0]
  /\ track' = [s \in Sat |-> <<>>]
  /\ UNCHANGED <<broker, control, reading, postgres, skipped>>

-----------------------------------------------------------------------------
(* The process.                                                            *)

\* The process ends and its memory is lost.  A later process starts from
\* the committed offsets, so what was skipped beyond them is read again.
Down ==
  /\ pc' = "down"
  /\ closing' = FALSE
  /\ stop_event' = FALSE
  /\ late' = FALSE
  /\ schema' = "unknown"
  /\ pos' = committed'
  /\ cursor' = committed'
  /\ buffer' = <<>>
  /\ rows' = <<>>
  /\ skipped' = {r \in skipped : r[2] <= committed'[r[1]]}
  /\ UNCHANGED tp

\* Mutated form: a new process starts from the earliest offset.
Restart_Earliest ==
  /\ pc = "down"
  /\ pc' = "poll"
  /\ pos' = NowherePos
  /\ cursor' = NowherePos
  /\ UNCHANGED <<broker, closing, stop_event, late, schema, tp, buffer, rows,
                 postgres, redis, history>>

Restart ==
  /\ pc = "down"
  /\ pc' = "poll"
  /\ UNCHANGED <<broker, closing, stop_event, late, schema, tp, reading,
                 postgres, redis, history>>

\* The while condition finds stop_event set.
LeaveLoop ==
  /\ pc = "poll"
  /\ stop_event
  /\ pc' = "close"
  /\ closing' = TRUE
  /\ UNCHANGED <<broker, stop_event, late, schema, tp, reading, postgres,
                 redis, history>>

\* getmany returns at most FLUSH_ROWS records.  It comes back empty, on its
\* timeout, only when every partition has been read to its end.
GetMany ==
  /\ pc = "poll"
  /\ ~stop_event
  /\ \E upto \in [Partition -> 0..MaxLog] :
       /\ \A p \in Partition : pos[p] <= upto[p] /\ upto[p] <= Len(log[p])
       /\ Cardinality(Between(pos, upto)) <= FlushRows
       /\ upto = pos => \A p \in Partition : pos[p] = Len(log[p])
       /\ pos' = upto
  /\ pc' = "decode"
  /\ UNCHANGED <<broker, closing, stop_event, late, schema, tp, cursor, buffer,
                 rows, postgres, redis, history>>

\* getmany raises.
GetManyFails ==
  /\ pc = "poll"
  /\ ~stop_event
  /\ Disrupt("fetch")
  /\ pc' = "close"
  /\ closing' = TRUE
  /\ UNCHANGED <<broker, stop_event, late, schema, tp, reading, postgres,
                 redis, skipped>>

\* The next record of partition p, with the loop over partitions at p.
NextOf(p) == log[p][cursor[p] + 1]
AtRecord(p) ==
  /\ pc = "decode"
  /\ cursor[p] < pos[p]
  /\ p = tp \/ cursor[tp] = pos[tp]
Handled(p) == cursor' = [cursor EXCEPT ![p] = @ + 1]

DecodeRow(p) ==
  /\ AtRecord(p)
  /\ NextOf(p).kind = "sample"
  /\ schema # "poisoned"
  /\ buffer' = Append(buffer, RowOf(NextOf(p)))
  /\ schema' = "parsed"
  /\ tp' = p
  /\ Handled(p)
  /\ UNCHANGED <<broker, pc, closing, stop_event, late, pos, rows, postgres,
                 redis, history>>

\* `decode` raises and the loop goes on.  A failed registry request may
\* come after a referenced schema was parsed: its names then stay defined
\* in `_named`, where parsing them again is an error.
DecodeError(p) ==
  /\ AtRecord(p)
  /\ \/ NextOf(p).kind = "garbled" /\ UNCHANGED schema
     \/ NextOf(p).kind = "sample" /\ schema = "poisoned" /\ UNCHANGED schema
     \/ /\ NextOf(p).kind = "sample" /\ schema = "unknown"
        /\ "registry" \in Disruption
        /\ schema' \in {"unknown", "poisoned"}
     \/ /\ NextOf(p).kind = "alien"
        /\ "registry" \in Disruption
        /\ UNCHANGED schema
  /\ skipped' = skipped \cup {<<p, cursor[p] + 1>>}
  /\ tp' = p
  /\ Handled(p)
  /\ UNCHANGED <<broker, pc, closing, stop_event, late, pos, buffer, rows,
                 postgres, redis, disruptions>>

\* Building the row raises: the rest of the batch is dropped, and the
\* process goes to its `finally` clause with the rows buffered so far.
DecodeRaises(p) ==
  /\ AtRecord(p)
  /\ NextOf(p).kind = "alien"
  /\ skipped' = skipped \cup Batch
  /\ cursor' = pos
  /\ pc' = "close"
  /\ closing' = TRUE
  /\ UNCHANGED <<broker, stop_event, late, schema, tp, pos, buffer, rows,
                 postgres, redis, disruptions>>

BatchDone ==
  /\ pc = "decode"
  /\ cursor = pos
  /\ pc' = "check"
  /\ UNCHANGED <<broker, closing, stop_event, late, schema, tp, reading,
                 postgres, redis, history>>

\* Mutated form: only the interval is tested.
FlushDue_IntervalOnly == late
\* Mutated form: only the size is tested.
FlushDue_SizeOnly == Len(buffer) >= FlushRows

FlushDue == Len(buffer) >= FlushRows \/ late

NoFlush ==
  /\ pc = "check"
  /\ ~FlushDue
  /\ pc' = "poll"
  /\ UNCHANGED <<broker, closing, stop_event, late, schema, tp, reading,
                 postgres, redis, history>>

\* flush() on an empty buffer only resets last_flush.
EmptyFlush ==
  /\ pc = "check" /\ FlushDue
  /\ buffer = <<>>
  /\ late' = FALSE
  /\ pc' = "poll"
  /\ UNCHANGED <<broker, closing, stop_event, schema, tp, reading, postgres,
                 redis, history>>

\* Mutated form: the database writes are left out.
BeginFlush_HotOnly ==
  /\ \/ pc = "check" /\ FlushDue
     \/ pc = "close"
  /\ buffer # <<>>
  /\ rows' = buffer
  /\ buffer' = <<>>
  /\ pc' = "hot"
  /\ UNCHANGED <<broker, closing, stop_event, late, schema, tp, pos, cursor,
                 postgres, redis, history>>

\* flush() from the loop, or from the `finally` clause, takes the buffer.
BeginFlush ==
  /\ \/ pc = "check" /\ FlushDue
     \/ pc = "close"
  /\ buffer # <<>>
  /\ rows' = buffer
  /\ buffer' = <<>>
  /\ pc' = "insert"
  /\ UNCHANGED <<broker, closing, stop_event, late, schema, tp, pos, cursor,
                 postgres, redis, history>>

\* INSERT ... ON CONFLICT DO NOTHING; executemany is one transaction.
InsertPositions ==
  /\ pc = "insert"
  /\ db' = db \cup Keys(rows)
  /\ pc' = "upsert"
  /\ UNCHANGED <<broker, closing, stop_event, late, schema, tp, reading,
                 last_tle_epoch, name, redis, history>>

\* Mutated form: ON CONFLICT DO NOTHING, for unseen satellites only.
UpsertSatellites_Unseen ==
  /\ pc = "upsert"
  /\ last_tle_epoch' =
       [s \in Sat |-> IF last_tle_epoch[s] # 0 \/ RowIndex(s) = {} THEN last_tle_epoch[s]
                      ELSE rows[Min(RowIndex(s))].epoch]
  /\ name' = [s \in Sat |-> IF last_tle_epoch[s] # 0 \/ Named(s) = {} THEN name[s]
                            ELSE rows[Min(Named(s))].t]
  /\ pc' = "hot"
  /\ UNCHANGED <<broker, closing, stop_event, late, schema, tp, reading, db,
                 redis, history>>

\* GREATEST keeps the newest epoch; the last row with a name gives the name,
\* which COALESCE keeps under rows without one.  A transaction of its own.
UpsertSatellites ==
  /\ pc = "upsert"
  /\ last_tle_epoch' =
       [s \in Sat |-> Max({last_tle_epoch[s]} \cup {rows[i].epoch : i \in RowIndex(s)})]
  /\ name' = [s \in Sat |-> IF Named(s) = {} THEN name[s] ELSE rows[Max(Named(s))].t]
  /\ pc' = "hot"
  /\ UNCHANGED <<broker, closing, stop_event, late, schema, tp, reading, db,
                 redis, history>>

\* Mutated form: the score of the first row stands.
Scored_First(s) ==
  IF RowIndex(s) = {} THEN active[s] ELSE rows[Min(RowIndex(s))].t

\* ZADD sets a member's score to the last one given.
Scored(s) ==
  IF RowIndex(s) = {} THEN active[s] ELSE rows[Max(RowIndex(s))].t

\* Mutated form: RPUSH in place of LPUSH.
Pushed_Right(s) ==
  LET oldest == track[s] \o Reverse(RowTimes(s))
  IN  SubSeq(oldest, 1, Min({TrackMax, Len(oldest)}))

\* LPUSH of each row of s, then LTRIM.
Pushed(s) ==
  LET newest == RowTimes(s) \o track[s]
  IN  SubSeq(newest, 1, Min({TrackMax, Len(newest)}))

\* The pipeline is one MULTI/EXEC.
WriteHotState ==
  /\ pc = "hot"
  /\ active' = [s \in Sat |-> Scored(s)]
  /\ track' = [s \in Sat |-> Pushed(s)]
  /\ pc' = "commit"
  /\ UNCHANGED <<broker, closing, stop_event, late, schema, tp, reading,
                 postgres, history>>

\* commit() sends the position of every partition: all that was fetched.
Commit ==
  /\ pc = "commit"
  /\ committed' = pos
  /\ IF closing
     THEN Down
     ELSE /\ pc' = "poll"
          /\ rows' = <<>>
          /\ late' = FALSE
          /\ UNCHANGED <<closing, stop_event, schema, tp, pos, cursor, buffer,
                         skipped>>
  /\ UNCHANGED <<log, postgres, redis, disruptions>>

\* Mutated form: the exception is swallowed and the commit still made.
FlushFails_Swallowed ==
  /\ pc \in {"insert", "upsert", "hot", "commit"}
  /\ Disrupt("flush")
  /\ pc' = "commit"
  /\ UNCHANGED <<broker, closing, stop_event, late, schema, tp, reading,
                 postgres, redis, skipped>>

\* An awaited call of flush() raises.  The rows are gone from memory, so
\* the `finally` clause has nothing to flush and nothing is committed.  A
\* call that took effect but reported an error is its action followed by
\* this one.
FlushFails ==
  /\ pc \in {"insert", "upsert", "hot", "commit"}
  /\ Disrupt("flush")
  /\ IF closing
     THEN UNCHANGED committed /\ Down
     ELSE /\ pc' = "close"
          /\ closing' = TRUE
          /\ rows' = <<>>
          /\ UNCHANGED <<committed, stop_event, late, schema, tp, pos, cursor,
                         buffer, skipped>>
  /\ UNCHANGED <<log, postgres, redis>>

\* Mutated form: the process goes back to its loop.
CloseEmpty_Reenters ==
  /\ pc = "close"
  /\ buffer = <<>>
  /\ pc' = "poll"
  /\ closing' = FALSE
  /\ UNCHANGED <<broker, stop_event, late, schema, tp, reading, postgres,
                 redis, history>>

\* The `finally` clause finds an empty buffer: nothing is committed.
CloseEmpty ==
  /\ pc = "close"
  /\ buffer = <<>>
  /\ UNCHANGED committed
  /\ Down
  /\ UNCHANGED <<log, postgres, redis, disruptions>>

Crash ==
  /\ pc # "down"
  /\ Disrupt("crash")
  /\ UNCHANGED committed
  /\ Down
  /\ UNCHANGED <<log, postgres, redis>>

-----------------------------------------------------------------------------

\* What the process does when nothing disturbs it.
Work ==
  \/ LeaveLoop
  \/ GetMany
  \/ \E p \in Partition : DecodeRow(p) \/ DecodeError(p) \/ DecodeRaises(p)
  \/ BatchDone
  \/ NoFlush
  \/ EmptyFlush
  \/ BeginFlush
  \/ InsertPositions
  \/ UpsertSatellites
  \/ WriteHotState
  \/ Commit
  \/ CloseEmpty

Next ==
  \/ \E s \in Sat, e \in Epoch, k \in Kind : Produce(s, e, k)
  \/ Elapse
  \/ Signal
  \/ RedisRestart
  \/ Restart
  \/ Work
  \/ GetManyFails
  \/ FlushFails
  \/ Crash

Spec == Init /\ [][Next]_vars

\* The event loop runs the process, time passes, and an ended process is
\* started again by its operator.
Fairness == WF_vars(Work) /\ WF_vars(Elapse) /\ WF_vars(Restart)
FairSpec == Spec /\ Fairness

-----------------------------------------------------------------------------
(* Properties.                                                             *)

BrokerTypeOK ==
  /\ log \in [Partition -> Seq(Message)]
  /\ committed \in [Partition -> 0..MaxLog]
ProcessTypeOK ==
  /\ pc \in {"poll", "decode", "check", "insert", "upsert", "hot", "commit",
             "close", "down"}
  /\ closing \in BOOLEAN
  /\ stop_event \in BOOLEAN
  /\ late \in BOOLEAN
  /\ schema \in {"unknown", "parsed", "poisoned"}
  /\ tp \in Partition
  /\ pos \in [Partition -> 0..MaxLog]
  /\ cursor \in [Partition -> 0..MaxLog]
  /\ buffer \in Seq(Row)
  /\ rows \in Seq(Row)
PostgresTypeOK ==
  /\ db \subseteq Sat \X (1..MaxLog)
  /\ last_tle_epoch \in [Sat -> Epoch \cup {0}]
  /\ name \in [Sat -> 0..MaxLog]
HistoryTypeOK ==
  /\ skipped \subseteq Offset
  /\ disruptions \in 0..MaxDisruptions
RedisTypeOK ==
  /\ active \in [Sat -> 0..MaxLog]
  /\ track \in [Sat -> Seq(1..MaxLog)]
  /\ \A s \in Sat : Len(track[s]) <= TrackMax

CoreTypeOK ==
  /\ BrokerTypeOK
  /\ ProcessTypeOK
  /\ PostgresTypeOK
  /\ HistoryTypeOK

\* Every variable has its type; a track list is within TRACK_LIST_MAX.
TypeOK == CoreTypeOK /\ RedisTypeOK

\* The registry answers, and the topic holds no record of another kind.
Reliable == "registry" \notin Disruption /\ "alien" \notin Kind

\* No record is fetched again after its row was written: a flush that begins
\* goes through.
NoRedelivery == "flush" \notin Disruption /\ "crash" \notin Disruption

Stored(p, o) == Key(log[p][o]) \in db

\* "Only commit Kafka offsets after DB + Redis succeed" (main.py:130): a
\* sample at or below the committed offset is a row of satellite_positions,
\* so no restart can lose it.
CommittedIsDurable ==
  \A p \in Partition : \A o \in 1..committed[p] :
    log[p][o].kind = "sample" => Stored(p, o)

\* Whatever fails, a committed sample that is not in Postgres is one whose
\* decoding failed, or that was dropped with the rest of its batch: batching,
\* flushing, crashing and restarting lose nothing of their own.
CommittedAccounted ==
  \A p \in Partition : \A o \in 1..committed[p] :
    \/ Stored(p, o)
    \/ <<p, o>> \in skipped

\* What a committed record told of its satellite is in the table satellites,
\* though the upsert be a transaction of its own and samples be stored again:
\* an epoch at least as new, and a name given by it or by a later sample.
CommittedIsCatalogued ==
  \A p \in Partition : \A o \in 1..committed[p] :
    LET m == log[p][o]
    IN  \/ <<p, o>> \in skipped
        \/ /\ last_tle_epoch[m.sat] >= m.epoch
           /\ m.epoch \notin Nameless => name[m.sat] >= o

\* Redis never shows a position that Postgres does not have: flush() writes
\* it only after the insert, and get_track may fall back from one to the
\* other.
HotIsDurable ==
  \A s \in Sat :
    /\ active[s] # 0 => <<s, active[s]>> \in db
    /\ \A i \in DOMAIN track[s] : <<s, track[s][i]>> \in db

\* The buffer stays below two batches: a batch is added only to a buffer
\* that was not yet due.
BufferBound == Len(buffer) + Cardinality(Batch) <= 2 * FlushRows - 1

\* A track list is strictly newest first, as get_track's scan, which stops
\* at the first sample out of the window, needs (query-api main.py:167).
TrackNewestFirst ==
  \A s \in Sat : \A i, j \in DOMAIN track[s] :
    i < j => track[s][i] > track[s][j]

\* sats:active is "scored by last-seen ms" (main.py:6): a score goes back
\* only when Redis has lost it.
ScoreNeverRegresses ==
  [][\A s \in Sat : active'[s] >= active[s] \/ active'[s] = 0]_active

\* A commit never moves the group's offset back, restarts included.
CommitNeverRegresses ==
  [][\A p \in Partition : committed'[p] >= committed[p]]_committed

\* A signal ends the process.
StopEnds == stop_event ~> pc = "down"

NewestStored(s) == Max({0} \cup {k[2] : k \in {r \in db : r[1] = s}})

\* Redis converges to Postgres: once the topic rests, a satellite's score and
\* the head of its track are its newest stored sample, redelivery or not.
HotConverges ==
  \A s \in Sat :
    <>[](/\ active[s] = NewestStored(s)
         /\ NewestStored(s) # 0 => track[s][1] = NewestStored(s))

\* The log as its sink sees it: what must be kept, and what has been.
published == [p \in Partition |-> Len(log[p])]
wanted == {r \in Offset : r[2] <= Len(log[r[1]]) /\ log[r[1]][r[2]].kind = "sample"}
stored == {r \in wanted : Stored(r[1], r[2])}

Sink == INSTANCE AtLeastOnce WITH acked <- committed

\* The persister is an at-least-once sink of its topic.
ImplementsAtLeastOnce == Sink!Spec

\* Every published sample is stored and its offset committed, though the
\* process crash, fail, be stopped and started again meanwhile.
EverySampleDelivered == \A p \in Partition, o \in 1..MaxLog : Sink!Delivered(p, o)
=============================================================================
