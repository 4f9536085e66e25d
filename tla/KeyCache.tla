------------------------------ MODULE KeyCache ------------------------------
(***************************************************************************)
(* API-key authentication (src/ingest-api/app/auth.py and src/query-api/   *)
(* app/auth.py): lookup() of a key in a process's cache, or else in the    *)
(* api_keys table, whose answer it caches for 60 seconds.                  *)
(*                                                                         *)
(* Lookups of a process interleave at the await of the query: what a       *)
(* lookup has read may be out of date when it gets to cache it.            *)
(***************************************************************************)
EXTENDS Naturals

CONSTANTS
  Lookup,       \* lookups that may be in progress at once
  Process,      \* processes, each with a cache
  ProcessOf,    \* the process a lookup runs in
  Key,          \* raw keys
  Rate,         \* rate_per_minute of an enabled key
  Ttl,          \* cache_ttl_s
  MaxClock      \* bound: seconds that pass

ASSUME CacheAssumption ==
  /\ ProcessOf \in [Lookup -> Process]
  /\ Rate \subseteq Nat \ {0}
  /\ Ttl \in Nat \ {0}
  /\ MaxClock \in Nat

\* No enabled row has the key's hash: lookup() returns None.
None == 0
\* A cache holds no entry for the key.
NoEntry == [rate |-> None, at |-> 0]

VARIABLES
  clock,      \* time.monotonic() in seconds
  api_keys,   \* Postgres: the rate of a key's enabled row, or None
  cache,      \* _cache, per process
  pc,         \* where each lookup is: "idle", "query" or "return"
  key,        \* the key it looks up
  now,        \* the clock it has read
  row,        \* the row it has read
  held,       \* history: <<k, v, t>> if api_keys had v for k at t
  answer      \* history: the last answer, if any

locals == <<pc, key, now, row>>
vars == <<clock, api_keys, cache, locals, held, answer>>

Init ==
  /\ clock = 0
  /\ api_keys \in [Key -> Rate \cup {None}]
  /\ cache = [p \in Process |-> [k \in Key |-> NoEntry]]
  /\ pc = [l \in Lookup |-> "idle"]
  /\ key \in [Lookup -> Key]
  /\ now = [l \in Lookup |-> 0]
  /\ row = [l \in Lookup |-> None]
  /\ held = {<<k, api_keys[k], 0>> : k \in Key}
  /\ answer = {}

Tick ==
  /\ clock < MaxClock
  /\ clock' = clock + 1
  /\ held' = held \cup {<<k, api_keys[k], clock'>> : k \in Key}
  /\ UNCHANGED <<api_keys, cache, locals, answer>>

\* A key is added, disabled, enabled again, or its rate is changed.
SetKey(k, v) ==
  /\ api_keys' = [api_keys EXCEPT ![k] = v]
  /\ held' = held \cup {<<k, v, clock>>}
  /\ UNCHANGED <<clock, cache, locals, answer>>

Answer(k, v, started) ==
  answer' = {[key |-> k, rate |-> v, from |-> started, to |-> clock]}

Entry(l, k) == cache[ProcessOf[l]][k]

\* Mutated form: an entry may be as old as the time to live.
Fresh_Inclusive(entry) == entry.rate # None /\ clock - entry.at <= Ttl

Fresh(entry) == entry.rate # None /\ clock - entry.at < Ttl

\* The cache has a fresh entry, and no await comes between.
Hit(l, k) ==
  /\ pc[l] = "idle"
  /\ Fresh(Entry(l, k))
  /\ Answer(k, Entry(l, k).rate, clock)
  /\ UNCHANGED <<clock, api_keys, cache, locals, held>>

Miss(l, k) ==
  /\ pc[l] = "idle"
  /\ ~Fresh(Entry(l, k))
  /\ pc' = [pc EXCEPT ![l] = "query"]
  /\ key' = [key EXCEPT ![l] = k]
  /\ now' = [now EXCEPT ![l] = clock]
  /\ UNCHANGED <<clock, api_keys, cache, row, held, answer>>

\* Postgres runs the query.
Fetch(l) ==
  /\ pc[l] = "query"
  /\ row' = [row EXCEPT ![l] = api_keys[key[l]]]
  /\ pc' = [pc EXCEPT ![l] = "return"]
  /\ UNCHANGED <<clock, api_keys, cache, key, now, held, answer>>

\* The lookup ends, and its locals with it.
Done(l) ==
  /\ pc' = [pc EXCEPT ![l] = "idle"]
  /\ now' = [now EXCEPT ![l] = 0]
  /\ row' = [row EXCEPT ![l] = None]

\* The query raises: the request fails, and nothing is cached.
FetchFails(l) ==
  /\ pc[l] = "query"
  /\ Done(l)
  /\ UNCHANGED <<clock, api_keys, cache, key, held, answer>>

\* Mutated form: an entry is stamped when it is made.
Store_StampedLate(l) ==
  cache' = [cache EXCEPT ![ProcessOf[l]][key[l]] = [rate |-> row[l], at |-> clock]]

\* Entries are stamped with the clock that the lookup began with.
Store(l) ==
  cache' = [cache EXCEPT ![ProcessOf[l]][key[l]] = [rate |-> row[l], at |-> now[l]]]

Return(l) ==
  /\ pc[l] = "return"
  /\ IF row[l] = None THEN UNCHANGED cache ELSE Store(l)
  /\ Answer(key[l], row[l], now[l])
  /\ Done(l)
  /\ UNCHANGED <<clock, api_keys, key, held>>

\* The process ends, and its cache and lookups with it.
Restart(p) ==
  /\ cache' = [cache EXCEPT ![p] = [k \in Key |-> NoEntry]]
  /\ pc' = [l \in Lookup |-> IF ProcessOf[l] = p THEN "idle" ELSE pc[l]]
  /\ UNCHANGED <<clock, api_keys, key, now, row, held, answer>>

Next ==
  \/ Tick
  \/ \E k \in Key, v \in Rate \cup {None} : SetKey(k, v)
  \/ \E l \in Lookup :
       \/ \E k \in Key : Hit(l, k) \/ Miss(l, k)
       \/ Fetch(l)
       \/ FetchFails(l)
       \/ Return(l)
  \/ \E p \in Process : Restart(p)

Spec == Init /\ [][Next]_vars

-----------------------------------------------------------------------------
(* Properties.                                                             *)

Held == Key \X (Rate \cup {None}) \X (0..MaxClock)

\* Every variable has its type.
TypeOK ==
  /\ clock \in 0..MaxClock
  /\ api_keys \in [Key -> Rate \cup {None}]
  /\ cache \in [Process -> [Key -> [rate : Rate \cup {None}, at : 0..MaxClock]]]
  /\ pc \in [Lookup -> {"idle", "query", "return"}]
  /\ key \in [Lookup -> Key]
  /\ now \in [Lookup -> 0..MaxClock]
  /\ row \in [Lookup -> Rate \cup {None}]
  /\ held \subseteq Held
  /\ answer \subseteq [key : Key, rate : Rate \cup {None}, from : 0..MaxClock,
                        to : 0..MaxClock]

\* "Results are cached in-process for 60 seconds" (auth.py:4): an answer is
\* what the table said less than that before the lookup began, or during it,
\* however its lookup was overtaken by others.  So a key that has been
\* disabled for 60 seconds is not let in, nor held to a rate it no longer has.
AnswersAreRecent ==
  \A a \in answer :
    \E t \in 0..a.to : a.from < t + Ttl /\ <<a.key, a.rate, t>> \in held

\* A key that is not in the table is never answered from a cache: a key that
\* has just been added is let in at once.
RefusalsAreCurrent ==
  \A a \in answer :
    a.rate = None => \E t \in a.from..a.to : <<a.key, None, t>> \in held
=============================================================================
