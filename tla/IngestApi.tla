----------------------------- MODULE IngestApi -----------------------------
(***************************************************************************)
(* The ingest service (src/ingest-api/app) with the TLE producer as its    *)
(* client.  A request for a sample passes the key check and the rate       *)
(* limiter (KeyCache and TokenBucket: here it may be refused), the record  *)
(* is put into the local queue of the Kafka client, and the answer is 202. *)
(* The client library sends the queue of a partition to the broker in      *)
(* order (enable.idempotence), and drops what it cannot send in time.  At  *)
(* shutdown the service ends its requests and flushes for a few seconds.   *)
(*                                                                         *)
(* A request that its client has given up goes on in the service: it is    *)
(* "abandoned".  A sample is named by its satellite and its time.          *)
(***************************************************************************)
EXTENDS TleProducer

CONSTANT QueueCap  \* queue.buffering.max.messages of the Kafka client

ASSUME IngestAssumption == QueueCap \in Nat \ {0}

VARIABLES
  api,         \* the service: "up", "stopping" or "down"
  handling,    \* requests that are in a handler
  queue,       \* the local queue: times, per satellite, which is the key
  newest,      \* anduin.satellite.position.v1: the newest time, per satellite
  promised,    \* history: samples answered with 202, not yet in the topic,
               \* and not lost to a crash, an expiry or a flush that timed out
  abandoned    \* history: samples under way whose client has given up

records == <<queue, newest, promised>>
service == <<api, handling, records, abandoned>>

Sample == [sat : Sat, at : 0..MaxTime]
Current(n) == [sat |-> n, at |-> sampled]
First(n) == [sat |-> n, at |-> queue[n][1]]
Queued == UNION {{<<n, i>> : i \in DOMAIN queue[n]} : n \in Sat}
EmptyQueue == [n \in Sat |-> <<>>]
Later(s, t) == IF s < t THEN t ELSE s

IngestInit ==
  /\ Init
  /\ api = "up"
  /\ handling = {}
  /\ queue = EmptyQueue
  /\ newest = [n \in Sat |-> 0]
  /\ promised = {}
  /\ abandoned = {}

\* The answer goes to the client, if it still waits for it.
Reply(r) ==
  /\ handling' = handling \ {r}
  /\ IF r.sat \in sent /\ r = Current(r.sat) /\ r \notin abandoned
     THEN PostEnds(r.sat)
     ELSE UNCHANGED running

\* A request goes out, and reaches a handler if the service is up.
Post(n) ==
  /\ Send(n)
  /\ handling' = IF api = "up" THEN handling \cup {Current(n)} ELSE handling
  /\ UNCHANGED <<faults, api, records, abandoned>>

\* The connection fails, or the service died with the request.
PostFails(n) ==
  /\ Current(n) \notin handling
  /\ PostEnds(n)
  /\ UNCHANGED <<faults, service>>

\* The client gives up after its timeout; the handler does not notice.
PostTimesOut(n) ==
  /\ Current(n) \in handling
  /\ Fault
  /\ PostEnds(n)
  /\ abandoned' = abandoned \cup {Current(n)}
  /\ UNCHANGED <<api, handling, records>>

\* The producer dies with its requests under way.
ProducerCrash ==
  /\ Crash
  /\ abandoned' = abandoned \cup {r \in handling : r.sat \in sent /\ r = Current(r.sat)}
  /\ UNCHANGED <<api, handling, records>>

\* producer.produce, with the satellite as the key.
Enqueued(r) == [queue EXCEPT ![r.sat] = Append(@, r.at)]

\* post_position of a key that may pass: publish, and 202.
Accept(r) ==
  /\ r \in handling
  /\ Cardinality(Queued) < QueueCap
  /\ queue' = Enqueued(r)
  /\ promised' = promised \cup {r}
  /\ Reply(r)
  /\ UNCHANGED <<faults, api, newest, abandoned>>

\* The BufferError of a full queue, which nobody catches: the answer is 500.
\* Otherwise 401, 429, or an error of the lookup or of the limiter.
Refuse(r) ==
  /\ r \in handling
  /\ IF Cardinality(Queued) < QueueCap THEN Fault ELSE UNCHANGED faults
  /\ Reply(r)
  /\ abandoned' = abandoned \ {r}
  /\ UNCHANGED <<api, records>>

\* The client library delivers the first message of a partition.
Deliver(n) ==
  /\ queue[n] # <<>>
  /\ newest' = [newest EXCEPT ![n] = Later(@, Head(queue[n]))]
  /\ queue' = [queue EXCEPT ![n] = Tail(@)]
  /\ promised' = promised \ {First(n)}
  /\ abandoned' = abandoned \ {First(n)}
  /\ UNCHANGED <<producer, api, handling>>

\* It gives one up after message.timeout.ms; no callback is told.
Expire(n) ==
  /\ queue[n] # <<>>
  /\ Fault
  /\ queue' = [queue EXCEPT ![n] = Tail(@)]
  /\ promised' = promised \ {First(n)}
  /\ abandoned' = abandoned \ {First(n)}
  /\ UNCHANGED <<running, api, handling, newest>>

ApiStart ==
  /\ api = "down"
  /\ api' = "up"
  /\ UNCHANGED <<producer, handling, records, abandoned>>

\* SIGTERM: no new requests, and those in a handler end.
ApiSignal ==
  /\ api = "up"
  /\ Fault
  /\ api' = "stopping"
  /\ UNCHANGED <<running, handling, records, abandoned>>

\* Mutated form: the process ends without the flush.
Flushed_Skipped ==
  /\ api = "stopping" /\ handling = {}
  /\ api' = "down"
  /\ queue' = EmptyQueue
  /\ UNCHANGED <<producer, handling, newest, promised, abandoned>>

\* flush(5.0) has emptied the queue, and the process ends.
Flushed ==
  /\ api = "stopping" /\ handling = {} /\ queue = EmptyQueue
  /\ api' = "down"
  /\ UNCHANGED <<producer, handling, records, abandoned>>

\* The queue is lost: flush(5.0) times out, or the process dies.
QueueLost ==
  /\ api \in {"up", "stopping"}
  /\ Fault
  /\ api' = "down"
  /\ handling' = {}
  /\ queue' = EmptyQueue
  /\ promised' = {}
  /\ abandoned' = {}
  /\ UNCHANGED <<running, newest>>

IngestNext ==
  \/ Alone /\ UNCHANGED service
  \/ \E n \in Sat : Post(n) \/ PostFails(n) \/ PostTimesOut(n)
  \/ ProducerCrash
  \/ \E r \in handling : Accept(r) \/ Refuse(r)
  \/ \E n \in Sat : Deliver(n) \/ Expire(n)
  \/ ApiStart
  \/ ApiSignal
  \/ Flushed
  \/ QueueLost

IngestSpec == IngestInit /\ [][IngestNext]_<<producer, service>>

-----------------------------------------------------------------------------
(* Properties.                                                             *)

\* A sample reaches the topic after the earlier ones of its satellite, and
\* once, which the readers of the topic rely on, though its requests are
\* handled concurrently: a tick waits for its requests, nothing is sent twice,
\* and the queue keeps the order.  Only a sample whose client gave up waiting
\* may come late.
TopicInOrder ==
  \A n \in Sat : \A i \in DOMAIN queue[n] :
    \/ [sat |-> n, at |-> queue[n][i]] \in abandoned
    \/ /\ queue[n][i] > newest[n]
       /\ \A j \in 1..(i - 1) : queue[n][j] < queue[n][i]

\* A sample that was answered with 202 stays in the queue until it is in the
\* topic, unless the process dies, the message expires or the flush times
\* out: the service stops in the order that loses nothing.
AcceptedIsKept ==
  \A r \in promised : \E i \in DOMAIN queue[r.sat] : queue[r.sat][i] = r.at
=============================================================================
