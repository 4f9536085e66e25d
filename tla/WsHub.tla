------------------------------- MODULE WsHub -------------------------------
(***************************************************************************)
(* The WebSocket fan-out of the query API (src/query-api/app/ws.py): one   *)
(* pump that reads the live topics, caches pass events in Redis and offers *)
(* every frame to the clients whose subscription it matches, and for each  *)
(* client a session of three tasks: a sender that drains the client's      *)
(* queue, a receiver and a pinger.  The first task to end ends the session.*)
(*                                                                         *)
(* The tasks share one event loop, so what lies between two awaits is one  *)
(* action.  Messages are numbered in the order in which the pump reads     *)
(* them.  A frame that a client receives is of kind "data", "subscribed"   *)
(* (the answer to a subscription, which it carries) or "ping".  The list   *)
(* `passes` is the one of one observer; a pass event that names none, or   *)
(* another, does not touch it.                                             *)
(***************************************************************************)
EXTENDS Naturals, Sequences, FiniteSets, SequencesExt

CONSTANTS
  Client,       \* connections, each used once
  Topic,        \* TOPIC_MAP
  Sat,          \* norad_ids
  Request,      \* the subscriptions that clients ask for
  QueueMax,     \* maxsize of a client's queue
  PassMax,      \* length to which a list of passes is trimmed
  PingEvery,    \* PING_EVERY_S
  MaxIdle,      \* MAX_IDLE_S
  RedisMayFail, \* whether the pipeline of _cache_pass may raise
  MaxFrames,    \* bound: messages on the topics
  MaxTexts      \* bound: messages a client sends

ASSUME HubAssumption ==
  /\ "passes" \in Topic
  /\ Request \subseteq [topics : SUBSET Topic, norad_filter : SUBSET Sat]
  /\ QueueMax \in Nat \ {0}
  /\ PassMax \in Nat \ {0}
  /\ PingEvery \in Nat \ {0}
  /\ MaxIdle \in Nat
  /\ RedisMayFail \in BOOLEAN
  /\ MaxFrames \in Nat
  /\ MaxTexts \in Nat

VARIABLES
  pump,         \* the pump: "reading", "caching" or "dead"
  frame,        \* the pump's current frame
  passes,       \* Redis, passes:{observer_id}: numbers of events, newest first
  lost,         \* history: newest pass event that was lost with its list
  clients,      \* WsHub.clients
  subscription, \* topics and norad_filter, per client
  queue,        \* WsClient.queue
  dropped,      \* WsClient.dropped
  session,      \* "none", "open", "closing" (idle), "ending" or "over"
  sending,      \* what the sender's send_text is sending, at most one frame
  idle,         \* time since last_rx_ts
  nap,          \* time left of the pinger's sleep
  received,     \* history: the last frames the client got, of each kind
  due,          \* history: frames that matched less frames the client got
  texts         \* bound: messages the client has sent

hub == <<pump, frame, passes, lost>>
client == <<subscription, queue, dropped>>
tasks == <<session, sending, idle, nap>>
history == <<received, due, texts>>
vars == <<hub, clients, client, tasks, history>>

\* {} stands for the norad_filter None, which an empty list gives too.
Subscription == [topics : SUBSET Topic, norad_filter : SUBSET Sat]
Unsubscribed == [topics |-> {}, norad_filter |-> {}]

\* observer is "one" in a pass event of the observer whose list is modelled.
Data == [kind : {"data"}, n : 1..MaxFrames, topic : Topic, sat : Sat, observer : {"none", "one"}]
Subscribed(s) == [kind |-> "subscribed", subscription |-> s]
Ping == [kind |-> "ping"]
Frame == Data \cup {Subscribed(s) : s \in Subscription} \cup {Ping}
NoFrame == [kind |-> "none", n |-> 0]

\* A client that has got nothing yet: no data frame, no pass, no answer.
Nothing == [n |-> 0, pass |-> 0, subscription |-> Unsubscribed]

MatchesSubscription(s, f) ==
  /\ f.topic \in s.topics
  /\ s.norad_filter = {} \/ f.sat \in s.norad_filter

\* WsClient.matches.
Matches(c, f) == MatchesSubscription(subscription[c], f)

\* Mutated form: the oldest frame makes room, and the loss is not counted.
Offered_Oldest(c, f) ==
  IF Len(queue[c]) < QueueMax
  THEN [queue |-> Append(queue[c], f), dropped |-> dropped[c]]
  ELSE [queue |-> Append(Tail(queue[c]), f), dropped |-> dropped[c]]

\* WsClient.offer, and enqueue: a full queue drops the new frame.
Offered(c, f) ==
  IF Len(queue[c]) < QueueMax
  THEN [queue |-> Append(queue[c], f), dropped |-> dropped[c]]
  ELSE [queue |-> queue[c], dropped |-> dropped[c] + 1]

Enqueue(c, f) ==
  /\ queue' = [queue EXCEPT ![c] = Offered(c, f).queue]
  /\ dropped' = [dropped EXCEPT ![c] = Offered(c, f).dropped]

Init ==
  /\ pump = "reading"
  /\ frame = NoFrame
  /\ passes = <<>>
  /\ lost = 0
  /\ clients = {}
  /\ subscription = [c \in Client |-> Unsubscribed]
  /\ queue = [c \in Client |-> <<>>]
  /\ dropped = [c \in Client |-> 0]
  /\ session = [c \in Client |-> "none"]
  /\ sending = [c \in Client |-> <<>>]
  /\ idle = [c \in Client |-> 0]
  /\ nap = [c \in Client |-> 0]
  /\ received = [c \in Client |-> Nothing]
  /\ due = [c \in Client |-> 0]
  /\ texts = [c \in Client |-> 0]

-----------------------------------------------------------------------------
(* The pump.                                                               *)

\* The fan-out of frame f, with no await between two clients.
Broadcast(f) ==
  LET takers == {c \in clients : Matches(c, f)}
  IN  /\ queue' = [c \in Client |-> IF c \in takers THEN Offered(c, f).queue ELSE queue[c]]
      /\ dropped' = [c \in Client |-> IF c \in takers THEN Offered(c, f).dropped ELSE dropped[c]]
      /\ due' = [c \in Client |-> IF c \in takers THEN due[c] + 1 ELSE due[c]]

\* A message that decodes.  A pass event is cached first, if it names an
\* observer: without one, _cache_pass returns at once.
PumpReads(t, s, o) ==
  /\ pump = "reading"
  /\ frame.n < MaxFrames
  /\ o = "one" => t = "passes"
  /\ frame' = [kind |-> "data", n |-> frame.n + 1, topic |-> t, sat |-> s, observer |-> o]
  /\ IF o = "one"
     THEN /\ pump' = "caching"
          /\ UNCHANGED <<queue, dropped, due>>
     ELSE /\ Broadcast(frame')
          /\ UNCHANGED pump
  /\ UNCHANGED <<passes, lost, clients, subscription, tasks, received, texts>>

\* Mutated form: LPUSH without LTRIM.
Cached_Untrimmed(list, n) == <<n>> \o list

\* LPUSH, then LTRIM.
Cached(list, n) == SubSeq(<<n>> \o list, 1, IF Len(list) < PassMax THEN Len(list) + 1 ELSE PassMax)

\* Mutated form: the frame goes out, but the event is not cached.
CachePass_Skipped ==
  /\ pump = "caching"
  /\ Broadcast(frame)
  /\ pump' = "reading"
  /\ UNCHANGED <<frame, passes, lost, clients, subscription, tasks, received, texts>>

\* The rest of the pump's step once the pipeline of _cache_pass has run.
CachePass ==
  /\ pump = "caching"
  /\ passes' = Cached(passes, frame.n)
  /\ Broadcast(frame)
  /\ pump' = "reading"
  /\ UNCHANGED <<frame, lost, clients, subscription, tasks, received, texts>>

\* The pipeline raises: the exception leaves the loop and the pump is gone,
\* while the sessions go on.
CacheFails ==
  /\ RedisMayFail
  /\ pump = "caching"
  /\ pump' = "dead"
  /\ UNCHANGED <<frame, passes, lost, clients, client, tasks, history>>

\* The list is gone: it expires 48 hours after its last push, or Redis,
\* which keeps nothing on disk, restarts.
ListGone ==
  /\ passes # <<>>
  /\ lost' = passes[1]
  /\ passes' = <<>>
  /\ UNCHANGED <<pump, frame, clients, client, tasks, history>>

-----------------------------------------------------------------------------
(* A session.                                                              *)

Running(c) == session[c] \in {"open", "closing"}

\* ws_stream of a client whose key is valid.
Connect(c) ==
  /\ session[c] = "none"
  /\ session' = [session EXCEPT ![c] = "open"]
  /\ clients' = clients \cup {c}
  /\ nap' = [nap EXCEPT ![c] = PingEvery]
  /\ UNCHANGED <<hub, client, sending, idle, history>>

Text(c) ==
  /\ Running(c)
  /\ texts[c] < MaxTexts
  /\ texts' = [texts EXCEPT ![c] = @ + 1]
  /\ idle' = [idle EXCEPT ![c] = 0]

\* The receiver gets a subscription.
Subscribe(c, s) ==
  /\ Text(c)
  /\ subscription' = [subscription EXCEPT ![c] = s]
  /\ Enqueue(c, Subscribed(s))
  /\ UNCHANGED <<hub, clients, session, sending, nap, received, due>>

\* Mutated form: a filter that is malformed is skipped like bad JSON.
SubscribeFails_Skipped(c, s) ==
  /\ Text(c)
  /\ subscription' = [subscription EXCEPT ![c] =
                        [topics |-> s.topics, norad_filter |-> subscription[c].norad_filter]]
  /\ UNCHANGED <<hub, clients, queue, dropped, session, sending, nap, received, due>>

\* The filter of a subscription is malformed: the topics are replaced before
\* the exception ends the receiver, and nothing is answered.
SubscribeFails(c, s) ==
  /\ Text(c)
  /\ subscription' = [subscription EXCEPT ![c] =
                        [topics |-> s.topics, norad_filter |-> subscription[c].norad_filter]]
  /\ session' = [session EXCEPT ![c] = "ending"]
  /\ UNCHANGED <<hub, clients, queue, dropped, sending, nap, received, due>>

\* The receiver gets a pong, another object, or text that is not JSON.
Pong(c) ==
  /\ Text(c)
  /\ UNCHANGED <<hub, clients, client, session, sending, nap, received, due>>

\* The receiver or the sender ends: the client has gone, a send fails, or
\* the receiver gets JSON in which it cannot look for a subscription, or
\* topics that are no list: then the subscription stays as it was.
TaskEnds(c) ==
  /\ Running(c)
  /\ session' = [session EXCEPT ![c] = "ending"]
  /\ UNCHANGED <<hub, clients, client, sending, idle, nap, history>>

\* Mutated form: the sender takes the newest frame.
SendNext_Newest(c) ==
  /\ session[c] \in {"open", "closing", "ending"}
  /\ sending[c] = <<>> /\ queue[c] # <<>>
  /\ sending' = [sending EXCEPT ![c] = <<Last(queue[c])>>]
  /\ queue' = [queue EXCEPT ![c] = Front(@)]
  /\ UNCHANGED <<hub, clients, subscription, dropped, session, idle, nap, history>>

\* The sender takes the next frame; a session that is ending still sends.
SendNext(c) ==
  /\ session[c] \in {"open", "closing", "ending"}
  /\ sending[c] = <<>> /\ queue[c] # <<>>
  /\ sending' = [sending EXCEPT ![c] = <<Head(queue[c])>>]
  /\ queue' = [queue EXCEPT ![c] = Tail(@)]
  /\ UNCHANGED <<hub, clients, subscription, dropped, session, idle, nap, history>>

\* send_text returns; a slow client may make it wait for ever.
Sent(c) ==
  LET f == Head(sending[c])
      r == received[c]
  IN  /\ session[c] \in {"open", "closing", "ending"}
      /\ sending[c] # <<>>
      /\ sending' = [sending EXCEPT ![c] = <<>>]
      /\ received' = [received EXCEPT ![c] =
                        CASE f.kind = "ping" -> r
                          [] f.kind = "subscribed" -> [r EXCEPT !.subscription = f.subscription]
                          [] f.kind = "data" ->
                               [r EXCEPT !.n = f.n, !.pass = IF f.observer = "one" THEN f.n ELSE r.pass]]
      /\ due' = [due EXCEPT ![c] = IF f.kind = "data" THEN @ - 1 ELSE @]
      /\ UNCHANGED <<hub, clients, client, session, idle, nap, texts>>

\* The pinger wakes up and finds the client idle: a last ping, and a tenth
\* of a second for the sender to send it.
PingerCloses(c) ==
  /\ session[c] = "open" /\ nap[c] = 0
  /\ idle[c] > MaxIdle
  /\ Enqueue(c, Ping)
  /\ session' = [session EXCEPT ![c] = "closing"]
  /\ UNCHANGED <<hub, clients, subscription, sending, idle, nap, history>>

\* The pinger wakes up: a heartbeat.
PingerPings(c) ==
  /\ session[c] = "open" /\ nap[c] = 0
  /\ idle[c] <= MaxIdle
  /\ Enqueue(c, Ping)
  /\ nap' = [nap EXCEPT ![c] = PingEvery]
  /\ UNCHANGED <<hub, clients, subscription, session, sending, idle, history>>

\* Mutated form: the queue is sent before the socket is closed.
PingerEnds_Drained(c) ==
  /\ session[c] = "closing"
  /\ sending[c] = <<>> /\ queue[c] = <<>>
  /\ session' = [session EXCEPT ![c] = "ending"]
  /\ UNCHANGED <<hub, clients, client, sending, idle, nap, history>>

\* The tenth of a second is over: ws.close, whatever came meanwhile.
PingerEnds(c) ==
  /\ session[c] = "closing"
  /\ session' = [session EXCEPT ![c] = "ending"]
  /\ UNCHANGED <<hub, clients, client, sending, idle, nap, history>>

\* The handler returns, and its locals and its WsClient are gone.
Forget(c) ==
  /\ subscription' = [subscription EXCEPT ![c] = Unsubscribed]
  /\ queue' = [queue EXCEPT ![c] = <<>>]
  /\ sending' = [sending EXCEPT ![c] = <<>>]
  /\ idle' = [idle EXCEPT ![c] = 0]
  /\ nap' = [nap EXCEPT ![c] = 0]

\* The `finally` clause: unregister, and cancel the tasks that are left.
Finally(c) ==
  /\ session[c] = "ending"
  /\ session' = [session EXCEPT ![c] = "over"]
  /\ clients' = clients \ {c}
  /\ Forget(c)
  /\ UNCHANGED <<hub, dropped, history>>

\* Time passes for the sessions; a pinger whose sleep is over wakes first.
Tick ==
  LET awake == {c \in Client : session[c] = "open"}
  IN  /\ awake # {}
      /\ \A c \in Client : session[c] # "closing" /\ (c \in awake => nap[c] > 0)
      /\ idle' = [c \in Client |-> IF c \in awake THEN idle[c] + 1 ELSE idle[c]]
      /\ nap' = [c \in Client |-> IF c \in awake THEN nap[c] - 1 ELSE nap[c]]
      /\ UNCHANGED <<hub, clients, client, session, sending, history>>

-----------------------------------------------------------------------------

\* What the pump and a session do by themselves.
PumpSteps == (\E t \in Topic, s \in Sat, o \in {"none", "one"} : PumpReads(t, s, o)) \/ CachePass
SessionSteps(c) == PingerCloses(c) \/ PingerPings(c) \/ PingerEnds(c) \/ Finally(c)

Next ==
  \/ PumpSteps
  \/ CacheFails
  \/ ListGone
  \/ Tick
  \/ \E c \in Client :
       \/ Connect(c)
       \/ \E s \in Request : Subscribe(c, s) \/ SubscribeFails(c, s)
       \/ Pong(c)
       \/ TaskEnds(c)
       \/ SendNext(c)
       \/ Sent(c)
       \/ SessionSteps(c)

Spec == Init /\ [][Next]_vars

\* The event loop runs every task that is not awaiting, and time passes.
\* Nothing is assumed of clients: they may be silent, or never take a frame.
Fairness ==
  /\ WF_vars(CachePass)
  /\ WF_vars(Tick)
  /\ \A c \in Client : WF_vars(SessionSteps(c)) /\ WF_vars(SendNext(c))
FairSpec == Spec /\ Fairness

-----------------------------------------------------------------------------
(* Properties.                                                             *)

TypeOK ==
  /\ pump \in {"reading", "caching", "dead"}
  /\ frame \in Data \cup {NoFrame}
  /\ passes \in Seq(1..MaxFrames) /\ Len(passes) <= PassMax
  /\ lost \in 0..MaxFrames
  /\ clients \subseteq Client
  /\ subscription \in [Client -> Subscription]
  /\ queue \in [Client -> Seq(Frame)]
  /\ \A c \in Client : Len(queue[c]) <= QueueMax
  /\ dropped \in [Client -> Nat]
  /\ session \in [Client -> {"none", "open", "closing", "ending", "over"}]
  /\ sending \in [Client -> {<<>>} \cup {<<f>> : f \in Frame}]
  /\ idle \in [Client -> 0..(MaxIdle + PingEvery)]
  /\ nap \in [Client -> 0..PingEvery]
  /\ received \in [Client -> [n : 0..MaxFrames, pass : 0..MaxFrames, subscription : Subscription]]
  /\ due \in [Client -> Nat]
  /\ texts \in [Client -> 0..MaxTexts]

\* What is on its way to a client, and the numbers of its data frames.
Stream(c) == sending[c] \o queue[c]
OnTheWay(c) == {Stream(c)[i].n : i \in {j \in DOMAIN Stream(c) : Stream(c)[j].kind = "data"}}

\* The frames of a client are in the order of the topics, each at most once,
\* whatever was dropped between them.
InOrder ==
  \A c \in Client : \A i \in DOMAIN Stream(c) : Stream(c)[i].kind = "data" =>
    /\ Stream(c)[i].n > received[c].n
    /\ \A j \in 1..(i - 1) : Stream(c)[j].kind = "data" => Stream(c)[i].n > Stream(c)[j].n

\* `dropped` is the "backpressure signal" (ws.py:87): of the frames that
\* matched while the client was connected, no more are missing than it
\* counts, whoever else was served or slow.
LossIsCounted ==
  \A c \in clients : due[c] <= Cardinality(OnTheWay(c)) + dropped[c]

\* As long as nothing was dropped, the data frames that follow the answer to
\* a subscription are of that subscription, until the next answer: while the
\* receiver runs, the pump never filters by one subscription and the client
\* believes in another.  (A malformed filter, ws.py:253-256, does bring that
\* about; it must end the receiver, and the session with it.)
AnsweredSubscriptionHolds ==
  \A c \in Client : Running(c) /\ dropped[c] = 0 =>
    LET stream == <<Subscribed(received[c].subscription)>> \o Stream(c)
    IN  \A i \in DOMAIN stream : stream[i].kind = "data" =>
          \E k \in 1..(i - 1) :
            /\ stream[k].kind = "subscribed"
            /\ \A m \in (k + 1)..(i - 1) : stream[m].kind # "subscribed"
            /\ MatchesSubscription(stream[k].subscription, stream[i])

\* A pass event of the observer that a client has been sent is in the list
\* that /passes reads, unless PassMax later ones have pushed it out or the
\* list has expired or was lost since: the pump caches before it fans out.
SentPassIsCached ==
  \A c \in Client : received[c].pass > lost =>
    \/ \E j \in DOMAIN passes : passes[j] = received[c].pass
    \/ Len(passes) = PassMax /\ \A j \in DOMAIN passes : passes[j] > received[c].pass

\* A client that stops sending is closed and leaves the hub, even if its
\* sender is stuck in a send (MAX_IDLE_S, ws.py:44).
SilentClientLeaves == \A c \in Client : c \in clients ~> c \notin clients
=============================================================================
