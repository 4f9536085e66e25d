# A verification project for Anduin

Anduin (`src/README.md`) streams satellite positions: a producer propagates orbits and
posts samples to an HTTP ingest service, which puts them on Kafka; a persister stores them
in Postgres and keeps a hot copy in Redis; a pass worker turns them into rise, set and
culmination events for registered observers; a query service serves all of it over REST and
WebSocket to a browser page.

This directory models the parts of it whose correctness depends on the order of events:
TLA+ modules translated from the source, TLC configurations that check them on small
instances, and theorems that hold for every value of the constants, checked by TLAPS.
`PROJECT.json` is the index: components, runs, the lines each definition translates,
hazards, findings and theorems.

    tlc -config MCTokenBucket_conform.cfg MCTokenBucket      # one run
    tlapm TokenBucketProofs.tla                              # one module of proofs

## 1. Inventory

Names in brackets are the modules that model the part.

**TLE producer** (`tle-producer/app/main.py`, `publisher.py`, `sources/`) [`TleProducer`,
`IngestApiProofs`]. State: the TLEs by id, the list of bulk ids, a cursor into it, the time of the
last refresh; on disk the file of TLEs and the time of the last fetch. Each tick posts the watchlist
and a slice of the bulk ids concurrently (150 in flight at most), waits for the answers and sleeps.
Hard: the cursor across a refresh that changes the list, the size of the slice, the throttle and its
two files across crashes, requests that overtake each other. Correct if every satellite has its turn,
the source is asked no more often than allowed, the elements in use are recent, and a start that may
not ask finds a file it can use.

**Ingest API** (`ingest-api/app/main.py`, `producers.py`, `avro_codec.py`) [`IngestApi`,
`IngestApiProofs`]. Authenticates, rate-limits, wraps and encodes an event, hands it to the Kafka
client and answers 202. State: the requests in its handlers and the client's local queue, besides the
two parts below. Hard: a 202 before the broker has the record, a full local queue, handlers that
outlive their clients, the bounded flush at shutdown. Correct if what was answered with 202 is kept
and the topic has the samples of a satellite in order, once.

**Key cache** (`auth.py` of both APIs) [`KeyCache`, `KeyCacheProofs`]. State: per process, the
cached row of a key and when it was looked up. Hard: two lookups of one key interleave at the
await of the query; the later store may carry the older row. Correct if no answer is older
than the cache allows and no refusal comes from a cache.

**Rate limiter** (`ratelimit.py` of both APIs) [`TokenBucket`, `TokenBucketProofs`]. State: in
Redis, the bucket of a key, shared by both services, and the script cache; in a process, the
digest of the script. Hard: the clock is read before the call, so calls arrive with clocks out
of order; the bucket expires; Redis restarts and forgets bucket and script; processes may hold
different rates for one key while a cache is stale; the wait that a refused client is told is cut to
seconds. Correct if it lets through no more than capacity and rate allow, refuses nothing else, and a
client that waits as long, and the second that was cut off, gets through.

**Position persister** (`position-persister/app/main.py`, `codec.py`) [`PositionPersister`,
`AtLeastOnce`, `PositionPersisterProofs`]. State: the buffer, the consumer's position, the flush in
progress, the schema cache; outside, the log and the committed offset, the tables `satellite_positions`
and `satellites` (name and TLE epoch), and `sats:active` and `sats:track:*` in Redis. Hard: crashes
between insert, Redis and commit; a commit that names the position of the consumer and not of the rows;
every failure of decoding is a skip; a row that cannot be built; signals seen only between batches;
redelivery. Correct if a committed sample is stored, the satellites are known as committed samples have
them, Redis shows nothing Postgres lacks, nothing moves back, and every sample is in the end delivered.

**Track and active readers** (`query-api/app/main.py`) [`TrackQuery`, proofs in
`PositionPersisterProofs`]. No state of their own: each call awaits Redis twice, or Redis and then
Postgres, while the persister moves on. Correct if an answer has no holes, is in order, and a position is
no older than its last-seen time.

**WebSocket hub** (`query-api/app/ws.py`) [`WsHub`, `WsHubProofs`]. State: the set of clients, per client a
bounded queue, a subscription and a count of lost frames; three tasks per connection; the list
`passes:{observer}` in Redis, which expires. Hard: slow and silent clients, subscriptions that change
while frames are under way, a malformed one that changes half and raises, any task ending first, a Redis
error in the pump. Correct if frames come in order, losses are counted, an answered subscription is in
force, a pass that was sent is cached, and dead sessions leave.

**Live stream hook** (`frontend/src/ws/useLiveStream.ts`) [`LiveStream`, `LiveStreamProofs`]. State: of each
visit to the page (each is a component instance with refs of its own), the current socket and a stop
flag; the visit's timers; the `connected` flag of the store, one for all visits. Socket events and timers
are callbacks that outlive the effect that registered them, and the visit. Correct if the page
reconnects, faults add no sockets, and it does not claim to be connected when it is not.

**Pass worker and pass routes** (`pass-worker/app/main.py`, `observers.py`, `passes.py`,
`query-api/app/routes_passes.py`) [`PassDetector`, `PassWorker`, `PassWorkerProofs`]. State: in the
worker, per satellite and observer, the last sample and what has been emitted; in Redis, the set of
observers and their details, which expire. Hard: events suppressed or missed between samples,
details that expire every 3 h, polled or not, under the worker and under a poll, stops and restarts.
Correct if a pass is reported exactly and an observer that is polled is computed for.

**Hot cells** (`query-api/app/hot_cells.py`, `routes_zones.py`, the Flink job) [`HotCells`,
`HotCellsProofs`]. State, in Redis: one sorted set per window and the key of the latest, all with a
time to live. Hard: rows of several windows out of order, keys that expire between the two reads of
the route, a pump that dies. Correct if the route never shows an old map and never an empty one by
accident.

**Frontend pages, schemas, deployment.** Rendering, polling, and scripts that run once. *Not
modelled*; what the modules take from the deployment is named in section 5.

How they interact: producer → ingest (HTTP) → position topic → persister, pass worker, hub and
Flink; persister → Postgres and Redis → readers; pass worker → pass topic → hub → Redis list and
WebSockets; routes → observer keys in Redis → pass worker; hub → live stream hook. Each pair
shares a log, a table or a key and never memory, which is why the modules can be separate and
are composed only where two parts race on one store (`TrackQuery` extends `PositionPersister`;
`PassWorker` holds both sides of the observer keys) or one waits for the other (`IngestApi` extends
`TleProducer`, whose requests end as the service lets them).

## 2. Modules and code

An action is what runs between two awaits (or between two calls of another system). Variables
marked *history* record what a property needs and influence nothing; *bound* variables keep the
state space finite. Definitions named `X_Something` with the comment "Mutated form" are wrong
versions of `X`: each shows a bug that one property detects, and no specification uses them.

| Module | Code | Actions |
|---|---|---|
| `PositionPersister` | `run`, `flush`, `fetch`/`decode` | `GetMany`, `DecodeRow`, `DecodeError`, `DecodeRaises`, `BatchDone`, `NoFlush`, `EmptyFlush`, `BeginFlush`, `InsertPositions`, `UpsertSatellites`, `WriteHotState`, `Commit`, `LeaveLoop`, `CloseEmpty`, and the failures `GetManyFails`, `FlushFails`, `Crash`, `RedisRestart`, `Signal`, `Restart` |
| `AtLeastOnce` | the promise of the comment at `main.py:130` | `Publish`, `Store`, `Ack` |
| `TleProducer` | `run` of the producer, `CelestrakSource.fetch`, `post_position` | `Start`, `UsePrevious`, `Ask`, `Answered`, `WriteFile`, `WriteStamp`, `StampFails`, `FetchFails`, `Refresh`, `EmitTick`, `Send`, `PostEnds`, `Sleep`, `Wake`, `Leave`, `Signal`, `Crash`, `Elapse` |
| `IngestApi` | `post_position` of the service, `publish`, `flush` | `Post`, `PostFails`, `PostTimesOut`, `Accept`, `Refuse`, `Deliver`, `Expire`, `ApiStart`, `ApiSignal`, `Flushed`, `QueueLost`, `ProducerCrash`, next to the producer's own |
| `HotCells` | `_pump`, `hot_zones` | `Consume`, `PumpEnds`, `Restart`, `ReadLatest`, `NothingLatest`, `ReadCells`, `ReadFails`, `Elapse`, `RedisRestarts` |
| `TrackQuery` | `get_track`, `list_active` | `GetTrack`, `ColdFallback`, `ListActive`, `AttachTracks`, next to all of the persister's |
| `TokenBucket` | `check`, the Lua script, the Retry-After header | `Check`, `LoadScript`, `ReadClock`, `Allow`, `Refuse`, `NoScript`, `CallFails`, `RedisRestart` |
| `KeyCache` | `lookup` | `Hit`, `Miss`, `Fetch`, `FetchFails`, `Return`, `SetKey`, `Restart` |
| `WsHub` | `_pump`, `_cache_pass`, `ws_stream` | `PumpReads`, `CachePass`, `CacheFails`, `ListGone`, `Connect`, `Subscribe`, `SubscribeFails`, `Pong`, `TaskEnds`, `SendNext`, `Sent`, `PingerPings`, `PingerCloses`, `PingerEnds`, `Finally`, `Tick` |
| `LiveStream` | `useLiveStream` | `Mount`, `StrictMount`, `Unmount`, `Opened`, `CloseEvent`, `Fault`, `TimerFires` |
| `PassDetector` | `stub_detect_pass_event` | an operator, `Detect` |
| `PassWorker` | `run`, `load_all`, `register_observer`, `list_passes` | `Receive`, `ListIds`, `LoadDetails`, `Skip`, `Sample`, `Signal`, `Leave`, `Crash`, `Restart`, `RegisterObserver`, the poll's three steps, `Evict`, `RedisRestart` |

Abstractions that matter:

- *A sample's offset is also its time*, in the modules that read the topic. Samples of one satellite go
  to one partition in the order in which they were taken: `TopicInOrder` of `IngestApi` is this
  statement, and it has one exception, a request whose client gave up after 30 seconds and whose handler
  went on. Times are compared, never computed with.
- *Seconds of the producer.* One unit of its clock is a second. The two files are written, and the tick
  follows the refresh, within one second; a process that ended is not started again within the second of
  its last tick. Samples carry the second of their tick.
- *The slice* is computed as the code does, with the ratio cut to thousandths; that the double `5 / 30 *
  1000` has the integer part of the fraction is assumed (a ratio whose thousandths are whole may come out
  one lower in doubles). The model counts ticks: a tick also takes the time of its requests, which the
  code adds to the cadence.
- *A torn file* parses to nothing. A file cut inside would parse to a part of the list; the properties do
  not tell the two apart, for the throttle is off until the timestamp says otherwise.
- *A window* of the hot cells is its number, and any row of a window that has ended may arrive at any
  time, again and with another count: more than the Flink job does. An expired key is dropped at its
  second. An answer's cells are those the sorted set gives; cells at the antimeridian, which
  `cells_to_features` leaves out of the picture, are among them.
- *A schema* is unknown, parsed, or poisoned: a fetch that fails after a reference was parsed leaves the
  name behind, and every later parse of it raises (`codec.py:36`). Records of kind "alien" decode but
  lack a field, so building the row raises out of the loop.
- *A name* in the table `satellites` stands for the sample that gave it: the column holds that sample's
  offset. A sample whose element set came without a name (`Nameless`) leaves the name, as COALESCE does.
- *Tokens are parts*: a token is `Minute` parts and a bucket of capacity c gains c parts per millisecond.
  That is the script's arithmetic without fractions; the rounding of its doubles is left out. The clock
  is one for all processes, which run on one host. `Latency` bounds how late a call may reach the script;
  with `Expiry >= Minute + Latency` a bucket that expired was full. The script's key lives 120 s and
  fills in 60 s, so this allows calls a minute late. `rate_per_minute = 0`, which the table does not
  exclude, is excluded here: it divides by zero.
- *Elevations* are integers around the thresholds; geometry, event times and publishing are outside. A
  message that does not decode leaves the pump or worker as it was, but for the reload it may trigger.
- *A detail's life* is counted in reloads: `DetailLife - 1` of them see it before it expires, while the
  worker runs. The code's 3 h and 10 s make a thousand; the model takes one, without which the worker
  might never load it. After that it may expire at any time, and as often as it is written.
- *Timers* of the live stream hook fire at any time: the backoff only makes them later. A closed socket's
  name is used again within its visit.
- *A hub session's* lost connection is any of its tasks ending; a send may never end. The list of passes
  is that of one observer; events without an observer, or of another one, do not touch it. Its expiry
  after 48 h and the loss of Redis are one action, at any time, which forgets the whole list.

## 3. Runs

Each run has an MC module that names model values, and one configuration.

| Run | Question | Bounds |
|---|---|---|
| `persister_safe` | what batching, failed flushes, crashes, an unreliable registry, records of another kind and Redis restarts can do to offsets, rows, names and epochs, and hot state | 2 partitions of 2 records, batches of 2, one disruption (registry failures unlimited) |
| `persister_live` | with a reliable registry: an at-least-once sink, everything delivered, stops end, Redis converges | 2 partitions of 2 records, one stop, failed fetch, failed flush or crash |
| `persister_outage` *(violated)* | is a committed sample always stored, if the registry may fail? | 2 records |
| `track` | answers of both readers against the moving persister, with Redis restarts | 4 samples, lists of 2, limit 3 |
| `bucket` | two services, one bucket, rates 1 and 2, calls overtaking, expiry, Redis restarts | 2 calls at a time, 4 ms, a minute of 3 ms, a second of 2 ms |
| `key_cache` | two racing lookups, rows changing at any time, restarts | one key, 4 seconds, time to live 2 |
| `ws_hub` | one connection, two topics, two subscriptions and malformed ones, a queue of 2, stuck senders, silence, a Redis failure, a list that is lost | 2 frames, 2 texts, a list of 1, no idle allowed beyond a ping |
| `live_stream` | visits, late close events and timers of earlier visits, faults, in both builds | 3 visits, 2 faults, 2 sockets a visit |
| `live_stream_single` *(violated)* | can a browser hold two sockets, in the production build? | 2 visits, 1 fault |
| `passes` | every sequence of six elevations, expiry, reloads, crashes, stops | unlimited samples and expiries, details that outlive one reload, one crash |
| `ingest` | the producer with the ingest service: throttle and files, turns, order of the topic, what a 202 promises | 4 satellites in 2 catalogues, 2 in flight, a queue of 2, 4 seconds, one fault |
| `hot_cells` | rows in any order, expiry between the reads of the route, restarts of Redis | 2 cells, 2 windows of 2 s, keys of 2 s, 2 faults |

Why these bounds are enough. Two records per partition and batches of two make every case of the
persister: an empty, a partial and a full buffer, a batch cut by an exception, redelivery of stored rows,
a list that is trimmed (four samples in `track`). One disruption at a time shows each recovery, and the
theorems of section 4 lift the bound on the number of disruptions, records and partitions for the safety
properties. A record that is not a sample has one epoch, since nothing reads it; the samples with the
lower epoch have no name, so that an upsert of the one kind follows, precedes and replaces one of the
other. The bucket's minute of 3 ms with rates 1 and 2 makes partly filled, full, expired and rewound
buckets, and with a second of 2 ms the header falls short of the wait; its theorems hold for 60000 and
1000. Clients meet only in the pump's fan-out, which is one action, and none of the properties relates
two of them: one client is enough. Three visits are a first, one under which its callbacks run, and one
after it. A visit has at most as many sockets as its effect has runs, two, which `OnePerEffect` says and
the theorem proves for any supply of names. Six elevations are below, at, between and above the
thresholds, with two values above them to make a peak. In `ingest`, the clock starts at an interval of 2
seconds and runs to second 6: that is a fetch, a tick under the throttle, a refresh that replaces the
list by a shorter or a longer one, and ticks after it; a tick of 1 second and a cadence of 2 make a slice
that is smaller than a list of three and wraps around. Two requests in flight and a queue of two meet
both limits. One fault shows each failure from each state, and the theorems allow any number. In
`hot_cells`, time to live and window are of one length, so that a set, the key and a row of the next
window expire in every order around the two reads.

What the properties say beyond a unit test: `CommittedAccounted` and `CommittedIsDurable` relate the
broker's offset to the table over crashes, and `CommittedIsCatalogued` to the table `satellites`, where a
redelivered older sample sets the name back and only the samples stored again after it set it right;
`ImplementsAtLeastOnce` is a refinement (`Sink == INSTANCE AtLeastOnce WITH acked <- committed`) in which
reads, batches, flushes and crashes must be stutters; `ConformsInVirtualTime` bounds every interval of
allowed calls; `PatientIsAllowed` follows a promise from a refusal, through what other calls do to the
bucket, to the retry; `AnswersAreRecent` ties an answer to the history of the table;
`AnsweredSubscriptionHolds` reads a client's whole stream, queue included; `OnePerEffect` counts sockets
and timers together, over visits that end before their callbacks run; `DenseIsExact` compares the
detector, which keeps two samples and forgets one at crossings, with what the samples show; `EachInTurn`
relates how long a satellite has waited to the slices since, over refreshes; `TopicInOrder` must hold for
every order in which concurrent handlers finish; `AnswerIsFresh` and `NamedWindowHasCells` relate an
answer to what was stored before its first read.

Findings, each the counterexample of a violated run:

1. `persister_outage`: a decode error is a skip whatever its cause, so a registry that is down for one
   request loses good samples: their offsets are committed though nothing is stored, against "Only commit
   Kafka offsets after DB + Redis succeed".
2. `live_stream_single`: a connection fails and `closeHandler` sets its timer; the user leaves the page,
   and the cleanup closes the socket but not the timer; a later visit opens its own socket, and the timer
   of the earlier one calls `open()`, which does not look at the stop flag. Nobody closes that second
   socket, whose visit is over, against "Single persistent WebSocket". StrictMode shows another way, in
   development builds only: its second run of the effect clears the stop flag before the first socket's
   close event looks at it.

Worth knowing, and not checked by a run: `get_track` uses the list whenever one sample of it is in the
window, so a window longer than the list is answered in part, while its docstring promises a fallback
(`main.py:155`); of two thresholds crossed between two samples the detector reports the lower only, then
or later, against "a pass emits 5 events" (`passes.py:52`); a fetch that fails leaves no timestamp, so
restarts reach Celestrak again in that case; with a tick of 5 and a cadence of 30 seconds the ratio is
cut to 0.166, and a list of 1000 takes seven ticks instead of six; a full local queue raises a
`BufferError` that no caller catches, and the sample is gone with the 500; a late row of an older window
makes `/zones/hot` show the older window again; the hub's comment says that older frames are dropped when
a queue is full, while the code drops the new one; a subscription with a malformed filter replaces the
topics before it raises (`ws.py:253-256`), so until the session's tasks are cancelled the hub filters by
a subscription that was never answered; a pass event without an `observer_id` is sent and not cached
(`ws.py:162-164`), and a cached list is gone after 48 h (`ws.py:183`); the Retry-After header is cut to
seconds (`ingest-api/app/main.py:100`), so a client that is told 1 s after a refusal of 1999 ms and
retries then is refused again; an observer that is polled drops out every 3 h, from the expiry of its
detail to the poll after it, against "Keep observer alive" (`routes_passes.py:101`), for a poll writes
only a detail that is missing; the close event of an earlier visit's socket clears the flag of the store
though the visit shown has its own open socket (`useLiveStream.ts:73`), and the status bar says
disconnected until the next open event (`Reconnects` says so only of a first visit); a redelivered older
sample sets a satellite's name back for the time until the newer ones are stored again; the page never
answers pings, so the hub closes it as idle after about 80 s and it reconnects; after a redelivery the
track list is not newest first (`TrackNewestFirst` is checked and proved without failed flushes and
crashes, `HotConverges` shows that the head becomes right once the topic rests).

### Fairness

`persister_live`: `WF(Work)`, `WF(Elapse)`, `WF(Restart)`: the event loop runs the process, time passes,
and a process that ended is started again. The first two are the scheduler's; the third is the operator's
(`docker-compose.yml` has no restart policy), and without it nothing that is left at a crash can be
delivered. The bound on disruptions says that failures stop, which delivery needs. Redis restarts are
excluded from that run: what it loses comes back only with newer samples, and the code does not promise
more. `ws_hub`: tasks that are not awaiting run and time passes; nothing is assumed of clients, so a send
may hang for ever. `live_stream`: of each visit, whether shown or over, timers fire, closing sockets
close, and an attempt that does not fail connects: the browser's event loop runs its callbacks. `passes`:
the page polls, messages keep coming, time passes, and the worker is started again. Nothing is assumed of
expiry but that a detail outlives one reload, which 3 h against 10 s more than give; since expiry does
not stop, `PolledIsObserved` says "again and again" and not "for good".

Deadlock is checked except in `ws_hub` and both `live_stream` runs, where connections and visits are used
up, and in `ingest` and `hot_cells`, where time ends: after that, nothing is left to do.

## 4. Proofs

Checked by TLAPS for all values of the constants that meet the assumptions in the modules; TLC
evaluates those assumptions in the runs.

**`PositionPersisterProofs`.** `TypesCorrect`, `CommitsAreAccounted`, `CommitsAreDurable`,
`BufferIsBounded`, `CommitsNeverRegress`, `CommitsAreCatalogued`, `RefinesAtLeastOnce`,
`HotStateDurable`, `TracksNewestFirst`, `ScoresNeverRegress`, `TracksHaveNoGaps`, `PositionsNotOlder`.
The cursors of a partition are ordered, committed <= cursor <= pos <= length (`CursorsOK`).
`CommittedAccounted` is not inductive: a commit takes `pos`, so every offset up to the cursor must
already be stored, skipped, or in the buffer or the flush (`ReadOK`), and during the later steps of a
flush its rows must be in the table (`BufferOK`). With a reliable registry only records that are not
samples are skipped (`SkipOK`), which gives durability. The refinement needs, besides, that every key in
the table is one of a published record (`LogOK`, `KeysLogged`): otherwise publishing a record could make
it stored at once. `BufferBound` rests on a lemma that each step of the loop takes one record out of the
batch. `CommitsAreCatalogued` holds for any redelivery, although a name does go back. Its invariant
(`CatalogueInv`) says what is known of a record at each stage: what is read and not committed was left
out or waits in the buffer or the flush (`WaitingOK`), and after the upsert all that was read is known to
the table (`KnownOK`). What waits is later than what is committed and in order (`MemoryOK`, which needs
no condition on failures), so that the last named row of a satellite, whose name the upsert leaves, is
later than all rows in that flush and redelivery sets no committed name back.

The proofs about Redis start from what the pipeline does to a list: the times of the rows of a
satellite, the last row first, before the list as it was, cut at `TRACK_LIST_MAX` (`Untrimmed`,
`PushedIs`). The rows are picked by rank (`Latest`, the j-th largest index), for which
`LatestIs`, `LatestDescends` and `LatestReaches` take the place of an induction over the rows; the same
operator is ORDER BY ... DESC LIMIT of Postgres. `HotStateDurable` holds whatever fails: at "hot"
the rows are in the table.

The order of a list and what the readers make of it are proved under `NoRedelivery` ("flush" and
"crash" are not among the disruptions; signals, failed fetches, failed decoding and restarts of Redis
are), for redelivery of a part of what was pushed does disorder a list, and the code repairs that only with
newer samples. `OrderInv` says of each satellite: rows in memory are newer than what is committed,
and in order (`MemoryOK`); what is stored is committed or in a flush past its insert (`StoredOK`);
and the list is in order, holds every stored time between its ends, is headed by the score, and
lacks nothing newer than its head but the rows of such a flush (`HotOK`). Order alone is
not inductive: a batch goes before the list, so the proof must know that nothing in the list is newer
than what is committed, and the absence of gaps, which `TrackHasNoGaps` states of an answer, must be known of
the list even as rows are in Postgres and not yet in Redis. `QueryInv` adds the call in progress:
an answer has no gap in what is stored now, for what is stored later is newer than all
of it (`TimesGrow`); scores that were read are no later than what Redis has been given since, and a list
that is not empty shows as much (`HeadMovesOn`), which makes the second read of `list_active`
at least as new as its first.

**`TokenBucketProofs`.** `TypesCorrect`, `BucketConforms`, `BucketIsGenerous`, `PatientAreAllowed`. Time
is that of the bucket: `last_ms` plus what late calls have set it back (`rewound`). The invariant says,
for each grant i, what was spent since plus what is left in the bucket is within a full bucket plus what
flowed in since i (`SpentIsBounded`), and the reverse with the smallest rate (`LeftIsBounded`). That
calls are recent and keys fresh (`CallsAreRecent`, `KeyIsFresh`) makes an expired bucket a full one. In
real time a late call does credit the same milliseconds twice: that is the code, and the reason for
stating the bound in the bucket's time. `PatientAreAllowed` needs to know what a refusal promised as long
as nobody was let through since: at the promised time the bucket has a token, whatever has been refused
meanwhile, at clocks out of order and with larger rates (`PromisesHold`); the header and one second more
always exceed the milliseconds that the script computed (`HeaderFacts`), and the header alone need not.

**`KeyCacheProofs`.** `TypesCorrect`, `AnswersRecent`, `RefusalsCurrent`, from `IInv`: the clock a lookup has
read, each entry and each row read are facts about the history of the table, an entry from its
stamp on.

**`LiveStreamProofs`.** `TypesCorrect`, `PageNeverGivesUp`, `SocketsPerEffect`, `FlagIsTrue`, for any
number of visits, sockets and faults and for both builds. The invariant adds one fact, that the visit
shown has not set its stop flag, to the count: a run of the effect adds a socket, a timer turns into one,
and a close event turns one into a timer at most. That a visit has at most two timers follows from the
count (`TimersBounded`).

**`IngestApiProofs`**, first part, about the producer alone: `TypesCorrect`, `ThrottledFilesAreWhole`,
`FetchesSpaced`, `ElementsRecent`, `TurnsCome`, `WaitsAreBounded`. An invariant for each: the file is
whole and not older than the timestamp, or the throttle is off, and it stays off while a fetch goes on
(`DiskInv`); the last catalogue is not later than the timestamp, if its time was kept (`SpacingInv`);
elements are younger than an interval when they are loaded, and a tick comes less than an interval after
the load (`AgeInv`); and, for the turns, the slices since a satellite was posted and the way that the
cursor still has to go to it are together less than the list (`TurnInv`), which `EachInTurn` follows from
and is too weak to imply. A cursor that wraps is dealt with by a chain of lemmas about remainders.
`WaitsAreBounded` says what the comment at `main.py:51-58` comes to in every configuration: a satellite
misses fewer slices in a row than 1000 over the thousandths of the ratio. With 5 and 30 seconds these are
166, so that it may miss six and come in the seventh, after 35 seconds.

Second part: `IngestImplementsProducer` shows that the composed system is a producer whose
requests end in some way, which carries the theorems above over. `TopicOrdered` rests on `OrderInv`: a
request in a handler has a client that waits for it or is abandoned (`ClientsWait`), and while a
satellite's sample of this tick is still to come, everything of that satellite in the queue and the
topic is older (`StillToCome`). That needs ticks to lie apart and to await their requests
(`TicksAreApart`). `AcceptedKept` is inductive next to it.

**`WsHubProofs`.** `TypesCorrect`, `FramesInOrder`, `LossesCounted`, `AnswersHold`, `SentPassesCached`,
for any clients, queue and list of passes. For one client, every step is one of a few moves: nothing, a
frame that is taken or dropped, the first frame delivered, joining and leaving (`ClientMoves`), and each
keeps the client's invariant (`ClientOK`). That one says more than the properties: what is on its way was
broadcast (`OrderOK`), so that a new frame is later; its pass events are in the list before they are
delivered (`ListedOK`), and the list is in descending order, or trimming could push out the wrong one
(`PassesOK`); a connected client will have been told the subscription that the hub filters by (`ChatOK`),
or the next frame could be of another; this one holds while the session's receiver runs, for a malformed
filter breaks it and ends the receiver (`Running`). Pass events up to `lost` went with a list that
expired or was lost, and all that is in the list is later. `CountOK` also bounds the count from below, so
that it never gets negative. The lemmas on sequences of frames say what appending one and taking the
first do to the order, the numbers and the answers.

**`HotCellsProofs`.** `TypesCorrect`, `AnswersFresh`, `NamedWindowsHaveCells`, from the invariant that the
set of the latest window has a member and lives as long as the key, both counted from the last row, and that
a request's first read is backed by the set until it expires or Redis is lost (`ReadIsBacked`).

**`PassWorkerProofs`.** `TypesCorrect`, `DensePassesExact`, `CulminationsArePeaks`. `DenseIsExact` does not
follow from itself: the worker keeps two samples and what it has emitted, and forgets the peak at
crossings. The invariant relates that memory to the history of
samples (`ObserverOK`): the older of the two samples kept is the one before the last, or one that a rise or a
set has left there and that cannot make a false peak (`PeakIsLocal`); in a pass sampled densely what was
emitted is what the samples showed (`EmittedIsShown`); and from the sample that shows `set_0` on, dense or
not, nothing of the pass is remembered (`SetStartsAnew`), so that the next one starts clean. The kinds of event are
strings, of which the provers only know that they differ; `NoneAssumption` says that `None` is none of them.

Only model-checked: all liveness (`EverySampleDelivered`, `StopEnds`, `HotConverges`, `SilentClientLeaves`,
`Reconnects`, `PolledIsObserved`), which the prover cannot do. Every safety invariant and action property that
a passing run checks is stated by a theorem, the order of Redis under the condition named above, the
rest under the assumptions of the modules.

## 5. Not modelled, and why

- Geometry, propagation, HEALPix, event times: floating point, no state.
- Encoding, JSON shapes, metrics, logging, CORS: no property is about them.
- `get_satellite`, `list_observers`: reads without an order between them that matters.
- `post_tle`: what `post_position` does, on a topic that nothing in the repository feeds or reads.
- The fixture and replay sources read a file once; `n2yo` and `spacetrack` raise; `--refresh-fixture` is
  run by a human and sets the timestamp back.
- `stop()` of the hub and the lifespans of the services: they run once, at the end.
- The WebSocket key check: it is `lookup`, modelled in `KeyCache`.
- `ApiKeyMiddleware.dispatch` and `RateLimitMiddleware`: no service installs them.
- The Flink job: SQL run by another engine.
- Kafka, Postgres and Redis are modelled by what the code relies on: an append-only log per
  partition and one committed offset per group; a statement that takes effect as a whole; a
  pipeline that takes effect as a whole or not at all. From the deployment: one process of each
  service, Redis without persistence.

## 6. Plan

Done: the persister with its abstract sink and proofs; rate limiter and key cache with proofs; the
readers composed with the persister, with proofs; hub and live stream hook with proofs; pass detector, worker
and routes, with proofs; the TLE producer composed with the ingest service, and the hot cells, with proofs.
Next:

1. `SchemaCache` as a module of its own, used by persister, hub and worker.
2. `Access`, composing `KeyCache` and `TokenBucket` as `require_api_key` does; `Feed`, composing
   `WsHub` with `LiveStream`.
