----------------------------- MODULE PassWorker -----------------------------
(***************************************************************************)
(* The pass worker (src/pass-worker/app/main.py) and the registration of   *)
(* its observers by the query API (src/query-api/app/routes_passes.py).    *)
(* An observer is known while it is in the set observers:active and its    *)
(* detail key lives in Redis; the worker reloads the known observers now   *)
(* and then and runs the detector for each of them on every sample.        *)
(*                                                                         *)
(* One satellite is followed: the detector's state is kept per satellite   *)
(* and observer, and nothing is shared between satellites.  A message of   *)
(* another satellite, or one that does not decode, counts only as an       *)
(* occasion to reload.                                                     *)
(***************************************************************************)
EXTENDS PassDetector

CONSTANTS
  Observer,     \* observer ids
  Elevation,    \* elevations in which a sample may show the satellite
  DetailLife,   \* a detail is read by DetailLife - 1 reloads before it expires
  MaxCrashes    \* bound: deaths and stops of the worker, restarts of Redis

ASSUME WorkerAssumption ==
  /\ Elevation \subseteq Int
  /\ DetailLife \in Nat \ {0}
  /\ MaxCrashes \in Nat

VARIABLES
  active,       \* Redis: observers:active
  detail,       \* Redis: 0 if the observer's detail key is gone, else its
                \* life: 1 if it may expire, n + 1 if after n more reloads
  poll,         \* GET /passes: where the call of each observer is
  worker,       \* "waiting", "listing", "loading", "ready" or "down"
  stop,         \* the worker's stop event
  due,          \* OBSERVER_REFRESH_S has passed
  ids,          \* load_all: the ids it is loading
  observers,    \* the observers the worker computes for
  pass,         \* PassState, per observer
  prev,         \* last sample's elevation, per observer
  before,       \* history: elevation of the sample before prev
  event,        \* history: the event, or None, of the last sample
  shown,        \* history: what the last three samples show
  fired,        \* history: what was shown since the pass began
  tame,         \* history: the pass has been sampled densely enough
  crashes       \* bound: crashes so far

registry == <<active, detail, poll>>
control == <<worker, stop, due, ids, observers>>
tracking == <<pass, prev>>
history == <<before, event, shown, fired, tame>>
vars == <<registry, control, tracking, history, crashes>>

\* The worker's memory when it starts.
Fresh ==
  /\ stop' = FALSE
  /\ due' = TRUE
  /\ ids' = {}
  /\ observers' = {}
  /\ pass' = [o \in Observer |-> NewPassState]
  /\ prev' = [o \in Observer |-> None]
  /\ before' = [o \in Observer |-> None]
  /\ event' = [o \in Observer |-> None]
  /\ shown' = [o \in Observer |-> {}]
  /\ fired' = [o \in Observer |-> {}]
  /\ tame' = [o \in Observer |-> TRUE]

Init ==
  /\ active = {} /\ detail = [o \in Observer |-> 0]
  /\ poll = [o \in Observer |-> "idle"]
  /\ worker = "waiting" /\ stop = FALSE /\ due = TRUE
  /\ ids = {} /\ observers = {}
  /\ pass = [o \in Observer |-> NewPassState]
  /\ prev = [o \in Observer |-> None]
  /\ before = [o \in Observer |-> None]
  /\ event = [o \in Observer |-> None]
  /\ shown = [o \in Observer |-> {}]
  /\ fired = [o \in Observer |-> {}]
  /\ tame = [o \in Observer |-> TRUE]
  /\ crashes = 0

-----------------------------------------------------------------------------
(* The query API and Redis.                                                *)

\* POST /observers: one pipeline sets the detail, anew for three hours, and
\* the member.
RegisterObserver(o) ==
  /\ detail' = [detail EXCEPT ![o] = DetailLife]
  /\ active' = active \cup {o}
  /\ UNCHANGED <<poll, control, tracking, history, crashes>>

\* Mutated form: the detail is looked up only for a new member.
PollZadd_NewOnly(o) ==
  /\ poll[o] = "idle"
  /\ active' = active \cup {o}
  /\ poll' = [poll EXCEPT ![o] = IF o \in active THEN "idle" ELSE "get"]
  /\ UNCHANGED <<detail, control, tracking, history, crashes>>

\* GET /passes, in three calls: ZADD, GET, and SET if GET found nothing.
PollZadd(o) ==
  /\ poll[o] = "idle"
  /\ active' = active \cup {o}
  /\ poll' = [poll EXCEPT ![o] = "get"]
  /\ UNCHANGED <<detail, control, tracking, history, crashes>>

PollGet(o) ==
  /\ poll[o] = "get"
  /\ poll' = [poll EXCEPT ![o] = IF detail[o] > 0 THEN "idle" ELSE "set"]
  /\ UNCHANGED <<active, detail, control, tracking, history, crashes>>

PollSet(o) ==
  /\ poll[o] = "set"
  /\ detail' = [detail EXCEPT ![o] = DetailLife]
  /\ poll' = [poll EXCEPT ![o] = "idle"]
  /\ UNCHANGED <<active, control, tracking, history, crashes>>

\* Three hours have passed since the detail was set: polling does not
\* prolong its life, so it expires again and again.  A worker that runs has
\* reloaded many times by then.
Evict(o) ==
  /\ detail[o] = 1 \/ (detail[o] > 0 /\ worker = "down")
  /\ detail' = [detail EXCEPT ![o] = 0]
  /\ UNCHANGED <<active, poll, control, tracking, history, crashes>>

RedisRestart ==
  /\ crashes < MaxCrashes
  /\ crashes' = crashes + 1
  /\ active' = {} /\ detail' = [o \in Observer |-> 0]
  /\ UNCHANGED <<poll, control, tracking, history>>

-----------------------------------------------------------------------------
(* The worker.                                                             *)

\* A message arrives: the loop reloads the observers if it is time.
Receive ==
  /\ worker = "waiting" /\ ~stop
  /\ worker' = IF due THEN "listing" ELSE "ready"
  /\ UNCHANGED <<registry, stop, due, ids, observers, tracking, history, crashes>>

\* load_all: ZRANGE.
ListIds ==
  /\ worker = "listing"
  /\ ids' = active
  /\ worker' = "loading"
  /\ UNCHANGED <<registry, stop, due, observers, tracking, history, crashes>>

\* load_all: the pipeline of GETs; ids without detail are left out.  Time
\* passes for the details that live.
LoadDetails ==
  /\ worker = "loading"
  /\ observers' = {o \in ids : detail[o] > 0}
  /\ detail' = [o \in Observer |-> IF detail[o] > 1 THEN detail[o] - 1 ELSE detail[o]]
  /\ ids' = {}
  /\ due' = FALSE
  /\ worker' = "ready"
  /\ UNCHANGED <<active, poll, stop, tracking, history, crashes>>

\* The message is not a sample of the satellite.
Skip ==
  /\ worker = "ready"
  /\ worker' = "waiting"
  /\ UNCHANGED <<registry, stop, due, ids, observers, tracking, history, crashes>>

\* What is shown now and was not before in this pass.
NewlyShown(o, e) == Shown(before[o], prev[o], e) \ fired[o]

\* A sample: the detector runs for every observer, with no await between,
\* and the events are handed to the producer.
Sample(elev) ==
  LET run(o) == Detect(prev[o], elev[o], pass[o])
      new(o) == NewlyShown(o, elev[o])
      upd(f, g(_)) == [o \in Observer |-> IF o \in observers THEN g(o) ELSE f[o]]
  IN  /\ worker = "ready"
      /\ worker' = "waiting"
      /\ pass' = upd(pass, LAMBDA o : run(o).ps)
      /\ prev' = upd(prev, LAMBDA o : elev[o])
      /\ before' = upd(before, LAMBDA o : prev[o])
      /\ event' = upd(event, LAMBDA o : run(o).event)
      /\ shown' = upd(shown, new)
      /\ fired' = upd(fired, LAMBDA o : IF "set_0" \in new(o) THEN {} ELSE fired[o] \cup new(o))
      /\ tame' = upd(tame, LAMBDA o :
                   /\ Cardinality(new(o)) <= 1
                   /\ tame[o] \/ "set_0" \in shown[o]
                   /\ "culmination" \in new(o) => shown[o] = {})
      /\ UNCHANGED <<registry, stop, due, ids, observers, crashes>>

\* OBSERVER_REFRESH_S passes.
Elapse ==
  /\ ~due
  /\ due' = TRUE
  /\ UNCHANGED <<registry, worker, stop, ids, observers, tracking, history, crashes>>

\* SIGTERM or SIGINT only sets the event.
Signal ==
  /\ worker # "down" /\ ~stop /\ crashes < MaxCrashes
  /\ crashes' = crashes + 1
  /\ stop' = TRUE
  /\ UNCHANGED <<registry, worker, due, ids, observers, tracking, history>>

\* The loop looks at the event when the next message arrives.
Leave ==
  /\ worker = "waiting" /\ stop
  /\ worker' = "down"
  /\ Fresh
  /\ UNCHANGED <<registry, crashes>>

\* The process dies: a Redis call of load_all raises, the producer's queue
\* is full, or a kill.
Crash ==
  /\ worker # "down" /\ crashes < MaxCrashes
  /\ crashes' = crashes + 1
  /\ worker' = "down"
  /\ Fresh
  /\ UNCHANGED <<registry>>

\* A new process, with a new consumer group that starts at the latest offset.
Restart ==
  /\ worker = "down"
  /\ worker' = "waiting"
  /\ UNCHANGED <<registry, stop, due, ids, observers, tracking, history, crashes>>

-----------------------------------------------------------------------------

Samples == [Observer -> Elevation]
PollSteps(o) == PollZadd(o) \/ PollGet(o) \/ PollSet(o)
WorkerSteps == Receive \/ ListIds \/ LoadDetails \/ Skip \/ Leave \/ Restart
                 \/ \E elev \in Samples : Sample(elev)

Next ==
  \/ WorkerSteps
  \/ Elapse
  \/ Signal
  \/ Crash
  \/ RedisRestart
  \/ \E o \in Observer : RegisterObserver(o) \/ PollSteps(o) \/ Evict(o)

Spec == Init /\ [][Next]_vars

\* The page polls (PassesPage refetches), messages keep arriving, time
\* passes, and a worker that ended is started again.
Fairness ==
  /\ \A o \in Observer : WF_vars(PollSteps(o))
  /\ WF_vars(WorkerSteps)
  /\ WF_vars(Elapse)
FairSpec == Spec /\ Fairness

-----------------------------------------------------------------------------
(* Properties.                                                             *)

MaybeElevation == Elevation \cup {None}

TypeOK ==
  /\ active \subseteq Observer
  /\ detail \in [Observer -> 0..DetailLife]
  /\ poll \in [Observer -> {"idle", "get", "set"}]
  /\ worker \in {"waiting", "listing", "loading", "ready", "down"}
  /\ stop \in BOOLEAN
  /\ due \in BOOLEAN
  /\ ids \subseteq Observer
  /\ observers \subseteq Observer
  /\ pass \in [Observer -> [emitted : SUBSET EventKind, prev_prev : MaybeElevation]]
  /\ \A o \in Observer : "set_0" \notin pass[o].emitted
  /\ prev \in [Observer -> MaybeElevation]
  /\ before \in [Observer -> MaybeElevation]
  /\ event \in [Observer -> EventKind \cup {None}]
  /\ shown \in [Observer -> SUBSET EventKind]
  /\ fired \in [Observer -> SUBSET EventKind]
  /\ tame \in [Observer -> BOOLEAN]
  /\ crashes \in 0..MaxCrashes

Emitted(o) == IF event[o] = None THEN {} ELSE {event[o]}

\* A pass that is sampled densely (no two events between two samples, and
\* none in the sample that is the peak) is reported exactly: every event that
\* its samples show, once, and no other, though the detector keeps only two
\* samples and drops one of them at each crossing.
DenseIsExact == \A o \in Observer : tame[o] => Emitted(o) = shown[o]

\* Whatever the sampling, a culmination that is reported is a local maximum
\* of the samples, although prev_prev may be older than the sample before.
CulminationIsPeak ==
  [][\A o \in Observer : event'[o] = "culmination" /\ prev'[o] # prev[o]
       => IsPeak(before[o], prev[o], prev'[o])]_<<event, prev>>

\* An observer that is polled is computed for again and again, although its
\* detail keeps expiring (the poll that "keeps it alive", routes_passes.py:101,
\* does not prolong it), Redis may lose everything and the worker start over.
\* Not for good: each expiry drops it from one reload at least.
PolledIsObserved == \A o \in Observer : []<>(o \in observers)
=============================================================================
