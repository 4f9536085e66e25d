--------------------------- MODULE KeyCacheProofs ---------------------------
(***************************************************************************)
(* Theorems about the key cache, for any lookups, processes, keys, rates   *)
(* and time to live: how old an answer can be.                             *)
(***************************************************************************)
EXTENDS KeyCache, TLAPS

\* What the table says now is in its history.
NowIsHeld == \A k \in Key : <<k, api_keys[k], clock>> \in held

\* An entry is what the table said at its stamp or later.
EntriesAreHeld ==
  \A p \in Process, k \in Key :
    cache[p][k].rate # None =>
      \E t \in cache[p][k].at..clock : <<k, cache[p][k].rate, t>> \in held

\* So is the row that a lookup has read, for the clock that it began with.
RowsAreHeld ==
  \A l \in Lookup :
    /\ pc[l] = "query" => now[l] <= clock
    /\ pc[l] = "return" =>
         \E t \in now[l]..clock : <<key[l], row[l], t>> \in held

IInv ==
  /\ TypeOK
  /\ NowIsHeld
  /\ EntriesAreHeld
  /\ RowsAreHeld
  /\ AnswersAreRecent
  /\ RefusalsAreCurrent

\* The initial states have their types.
LEMMA TypeInit == Init => TypeOK
  BY CacheAssumption DEF Init, TypeOK, NoEntry, None, Held

\* The rate of a stored row.
LEMMA StoreType ==
  ASSUME TypeOK, NEW l \in Lookup, Store(l)
  PROVE  cache' \in [Process -> [Key -> [rate : Rate \cup {None}, at : 0..MaxClock]]]
<1>1. ProcessOf[l] \in Process /\ key[l] \in Key  BY CacheAssumption DEF TypeOK
<1>2. [rate |-> row[l], at |-> now[l]] \in [rate : Rate \cup {None}, at : 0..MaxClock]
  BY DEF TypeOK
<1> QED  BY <1>1, <1>2 DEF TypeOK, Store

\* Every step keeps the types.
LEMMA TypeNext == TypeOK /\ [Next]_vars => TypeOK'
<1> SUFFICES ASSUME TypeOK, [Next]_vars PROVE TypeOK'  OBVIOUS
<1>0. MaxClock \in Nat /\ clock \in 0..MaxClock  BY CacheAssumption DEF TypeOK
<1>1. CASE Tick
  <2>1. clock' \in 0..MaxClock  BY <1>0, <1>1 DEF Tick
  <2>2. held' \subseteq Held  BY <1>1, <2>1 DEF Tick, TypeOK, Held
  <2> QED  BY <1>1, <2>1, <2>2 DEF Tick, TypeOK, locals
<1>2. ASSUME NEW k \in Key, NEW v \in Rate \cup {None}, SetKey(k, v) PROVE TypeOK'
  BY <1>2 DEF SetKey, TypeOK, Held, locals
<1>3. ASSUME NEW l \in Lookup, NEW k \in Key, Hit(l, k) PROVE TypeOK'
  <2>1. Entry(l, k) \in [rate : Rate \cup {None}, at : 0..MaxClock]
    BY CacheAssumption DEF Entry, TypeOK
  <2> QED  BY <1>3, <2>1 DEF Hit, Answer, TypeOK, locals
<1>4. ASSUME NEW l \in Lookup, NEW k \in Key, Miss(l, k) PROVE TypeOK'
  BY <1>4 DEF Miss, TypeOK
<1>5. ASSUME NEW l \in Lookup, Fetch(l) PROVE TypeOK'
  BY <1>5 DEF Fetch, TypeOK
<1>6. ASSUME NEW l \in Lookup, FetchFails(l) PROVE TypeOK'
  BY <1>0, <1>6 DEF FetchFails, Done, TypeOK
<1>7. ASSUME NEW l \in Lookup, Return(l) PROVE TypeOK'
  <2>1. cache' \in [Process -> [Key -> [rate : Rate \cup {None}, at : 0..MaxClock]]]
    BY <1>7, StoreType DEF Return, TypeOK
  <2> QED  BY <1>0, <1>7, <2>1 DEF Return, Done, Answer, TypeOK
<1>8. ASSUME NEW p \in Process, Restart(p) PROVE TypeOK'
  <2>1. [k \in Key |-> NoEntry] \in [Key -> [rate : Rate \cup {None}, at : 0..MaxClock]]
    BY <1>0 DEF NoEntry
  <2> QED  BY <1>8, <2>1 DEF Restart, TypeOK
<1>9. CASE UNCHANGED vars
  BY <1>9 DEF vars, locals, TypeOK
<1> QED
  BY <1>1, <1>2, <1>3, <1>4, <1>5, <1>6, <1>7, <1>8, <1>9 DEF Next

\* The initial states satisfy the invariant: nothing is cached or read.
LEMMA InvInit == Init => IInv
<1> SUFFICES ASSUME Init PROVE IInv  OBVIOUS
<1>1. TypeOK  BY TypeInit
<1>2. NowIsHeld  BY DEF Init, NowIsHeld
<1>3. EntriesAreHeld  BY DEF Init, EntriesAreHeld, NoEntry
<1>4. RowsAreHeld  BY DEF Init, RowsAreHeld
<1>5. AnswersAreRecent /\ RefusalsAreCurrent
  BY DEF Init, AnswersAreRecent, RefusalsAreCurrent
<1> QED  BY <1>1, <1>2, <1>3, <1>4, <1>5 DEF IInv

\* History only grows, and with it what is known of entries and rows.
LEMMA HeldGrows ==
  ASSUME TypeOK, TypeOK', [Next]_vars
  PROVE  held \subseteq held' /\ clock <= clock'
<1>1. clock \in Nat /\ clock' \in Nat  BY CacheAssumption DEF TypeOK
<1> QED
  BY <1>1 DEF Next, Tick, SetKey, Hit, Miss, Fetch, FetchFails, Return, Restart, vars

\* The table's present is recorded by every step that changes it.
LEMMA NowNext == TypeOK /\ TypeOK' /\ NowIsHeld /\ [Next]_vars => NowIsHeld'
<1> SUFFICES ASSUME TypeOK, TypeOK', NowIsHeld, [Next]_vars, NEW k \in Key
             PROVE  <<k, api_keys'[k], clock'>> \in held'
  BY DEF NowIsHeld
<1>1. CASE Tick
  BY <1>1 DEF Tick
<1>2. ASSUME NEW q \in Key, NEW v \in Rate \cup {None}, SetKey(q, v)
      PROVE  <<k, api_keys'[k], clock'>> \in held'
  BY <1>2 DEF SetKey, TypeOK, NowIsHeld
<1>3. CASE UNCHANGED <<clock, api_keys>>
  BY <1>3, HeldGrows DEF NowIsHeld
<1> QED
  BY <1>1, <1>2, <1>3
     DEF Next, Hit, Miss, Fetch, FetchFails, Return, Restart, vars

\* An entry is made of a row that a lookup has read since its stamp.
LEMMA EntriesNext ==
  TypeOK /\ TypeOK' /\ EntriesAreHeld /\ RowsAreHeld /\ [Next]_vars => EntriesAreHeld'
<1> SUFFICES ASSUME TypeOK, TypeOK', EntriesAreHeld, RowsAreHeld, [Next]_vars,
                    NEW p \in Process, NEW k \in Key, cache'[p][k].rate # None
             PROVE  \E t \in cache'[p][k].at..clock' :
                      <<k, cache'[p][k].rate, t>> \in held'
  BY DEF EntriesAreHeld
<1>0. clock \in Nat /\ clock' \in Nat /\ held \subseteq held' /\ clock <= clock'
  BY HeldGrows, CacheAssumption DEF TypeOK
<1>1. CASE cache'[p][k] = cache[p][k]
  <2>1. PICK t \in cache[p][k].at..clock : <<k, cache[p][k].rate, t>> \in held
    BY <1>1 DEF EntriesAreHeld
  <2>2. cache[p][k].at \in Nat  BY CacheAssumption DEF TypeOK
  <2>3. t \in cache[p][k].at..clock'  BY <1>0, <2>1, <2>2
  <2> QED  BY <1>0, <1>1, <2>1, <2>3
<1>2. ASSUME NEW l \in Lookup, Return(l), cache'[p][k] # cache[p][k]
      PROVE  \E t \in cache'[p][k].at..clock' : <<k, cache'[p][k].rate, t>> \in held'
  <2>1. Store(l) /\ clock' = clock /\ pc[l] = "return"  BY <1>2 DEF Return
  <2>2. /\ p = ProcessOf[l] /\ k = key[l]
        /\ cache'[p][k] = [rate |-> row[l], at |-> now[l]]
    BY <1>2, <2>1, CacheAssumption DEF Store, TypeOK
  <2>3. PICK t \in now[l]..clock : <<key[l], row[l], t>> \in held
    BY <2>1 DEF RowsAreHeld
  <2> QED  BY <1>0, <2>1, <2>2, <2>3
<1>3. ASSUME NEW q \in Process, Restart(q), cache'[p][k] # cache[p][k] PROVE FALSE
  <2>1. cache'[p][k] = NoEntry  BY <1>3 DEF Restart, TypeOK
  <2> QED  BY <2>1 DEF NoEntry
<1> QED
  BY <1>1, <1>2, <1>3 DEF Next, Tick, SetKey, Hit, Miss, Fetch, FetchFails, vars

\* A row is read from the table as it is, after the clock was.
LEMMA RowsNext ==
  TypeOK /\ TypeOK' /\ NowIsHeld /\ RowsAreHeld /\ [Next]_vars => RowsAreHeld'
<1> SUFFICES ASSUME TypeOK, TypeOK', NowIsHeld, RowsAreHeld, [Next]_vars,
                    NEW l \in Lookup
             PROVE  /\ pc'[l] = "query" => now'[l] <= clock'
                    /\ pc'[l] = "return" =>
                         \E t \in now'[l]..clock' : <<key'[l], row'[l], t>> \in held'
  BY DEF RowsAreHeld
<1>0. /\ clock \in Nat /\ clock' \in Nat /\ held \subseteq held' /\ clock <= clock'
      /\ now[l] \in Nat
  BY HeldGrows, CacheAssumption DEF TypeOK
<1>1. CASE UNCHANGED <<pc[l], key[l], now[l], row[l]>>
  <2>1. CASE pc[l] = "query"
    BY <1>0, <1>1, <2>1 DEF RowsAreHeld
  <2>2. CASE pc[l] = "return"
    <3>1. PICK t \in now[l]..clock : <<key[l], row[l], t>> \in held
      BY <2>2 DEF RowsAreHeld
    <3>2. t \in now[l]..clock'  BY <1>0, <3>1
    <3> QED  BY <1>0, <1>1, <2>2, <3>1, <3>2
  <2> QED  BY <1>1, <2>1, <2>2
<1>2. CASE pc'[l] = "idle"  BY <1>2
<1>3. ASSUME NEW q \in Lookup, NEW k \in Key, Miss(q, k), q = l
      PROVE  pc'[l] = "query" /\ now'[l] <= clock'
  BY <1>0, <1>3 DEF Miss, TypeOK
<1>4. ASSUME NEW q \in Lookup, Fetch(q), q = l
      PROVE  /\ pc'[l] = "return"
             /\ \E t \in now'[l]..clock' : <<key'[l], row'[l], t>> \in held'
  <2>1. /\ pc'[l] = "return" /\ now'[l] = now[l] /\ clock' = clock /\ held' = held
        /\ key'[l] = key[l] /\ row'[l] = api_keys[key[l]] /\ pc[l] = "query"
    BY <1>4 DEF Fetch, TypeOK
  <2>2. clock \in now[l]..clock  BY <1>0, <2>1 DEF RowsAreHeld
  <2>3. <<key[l], api_keys[key[l]], clock>> \in held  BY DEF NowIsHeld, TypeOK
  <2> QED  BY <2>1, <2>2, <2>3
<1>5. ASSUME NEW q \in Lookup, q # l,
             (\E k \in Key : Hit(q, k) \/ Miss(q, k)) \/ Fetch(q) \/ FetchFails(q) \/ Return(q)
      PROVE  UNCHANGED <<pc[l], key[l], now[l], row[l]>>
  BY <1>5 DEF Hit, Miss, Fetch, FetchFails, Return, Done, TypeOK, locals
<1>6. ASSUME NEW p \in Process, Restart(p)
      PROVE  pc'[l] = "idle" \/ UNCHANGED <<pc[l], key[l], now[l], row[l]>>
  BY <1>6 DEF Restart, TypeOK
<1>7. ASSUME FetchFails(l) \/ Return(l) PROVE pc'[l] = "idle"
  BY <1>7 DEF FetchFails, Return, Done, TypeOK
<1>8. ASSUME NEW q \in Lookup, NEW k \in Key, Hit(q, k)
      PROVE  UNCHANGED <<pc[l], key[l], now[l], row[l]>>
  BY <1>8 DEF Hit, locals
<1>9. ASSUME Tick \/ (\E k \in Key, v \in Rate \cup {None} : SetKey(k, v)) \/ UNCHANGED vars
      PROVE  UNCHANGED <<pc[l], key[l], now[l], row[l]>>
  BY <1>9 DEF Tick, SetKey, locals, vars
<1> QED
  BY <1>1, <1>2, <1>3, <1>4, <1>5, <1>6, <1>7, <1>8, <1>9 DEF Next

\* An answer comes from a fresh entry, or from a row just read.
LEMMA AnswersNext ==
  IInv /\ TypeOK' /\ [Next]_vars => AnswersAreRecent' /\ RefusalsAreCurrent'
<1> SUFFICES ASSUME IInv, TypeOK', [Next]_vars, NEW a \in answer'
             PROVE  /\ \E t \in 0..a.to : a.from < t + Ttl /\ <<a.key, a.rate, t>> \in held'
                    /\ a.rate = None =>
                         \E t \in a.from..a.to : <<a.key, None, t>> \in held'
  BY DEF AnswersAreRecent, RefusalsAreCurrent
<1>0. /\ TypeOK /\ clock \in Nat /\ held \subseteq held' /\ Ttl \in Nat \ {0}
  BY HeldGrows, CacheAssumption DEF IInv, TypeOK
<1>1. CASE answer' = answer
  BY <1>0, <1>1 DEF IInv, AnswersAreRecent, RefusalsAreCurrent
<1>2. ASSUME NEW l \in Lookup, NEW k \in Key, Hit(l, k)
      PROVE  /\ \E t \in 0..a.to : a.from < t + Ttl /\ <<a.key, a.rate, t>> \in held'
             /\ a.rate # None
  <2> DEFINE e == cache[ProcessOf[l]][k]
  <2>1. /\ a = [key |-> k, rate |-> e.rate, from |-> clock, to |-> clock]
        /\ e.rate # None /\ clock - e.at < Ttl
    BY <1>2 DEF Hit, Answer, Fresh, Entry
  <2>2. ProcessOf[l] \in Process  BY CacheAssumption
  <2>3. e.at \in Nat  BY <1>0, <2>2, CacheAssumption DEF TypeOK
  <2>4. PICK t \in e.at..clock : <<k, e.rate, t>> \in held
    BY <2>1, <2>2 DEF IInv, EntriesAreHeld
  <2> HIDE DEF e
  <2>5. t \in 0..clock /\ clock < t + Ttl  BY <1>0, <2>1, <2>3, <2>4
  <2> QED  BY <1>0, <2>1, <2>4, <2>5
<1>3. ASSUME NEW l \in Lookup, Return(l)
      PROVE  /\ \E t \in 0..a.to : a.from < t + Ttl /\ <<a.key, a.rate, t>> \in held'
             /\ \E t \in a.from..a.to : <<a.key, a.rate, t>> \in held'
  <2>1. /\ a = [key |-> key[l], rate |-> row[l], from |-> now[l], to |-> clock]
        /\ pc[l] = "return"
    BY <1>3 DEF Return, Answer
  <2>2. now[l] \in Nat  BY <1>0, CacheAssumption DEF TypeOK
  <2>3. PICK t \in now[l]..clock : <<key[l], row[l], t>> \in held
    BY <2>1 DEF IInv, RowsAreHeld
  <2>4. t \in 0..clock /\ now[l] < t + Ttl  BY <1>0, <2>2, <2>3
  <2> QED  BY <1>0, <2>1, <2>3, <2>4
<1> QED
  BY <1>1, <1>2, <1>3 DEF Next, Tick, SetKey, Miss, Fetch, FetchFails, Restart, vars

\* Every step keeps the invariant.
LEMMA InvNext == IInv /\ [Next]_vars => IInv'
  BY TypeNext, NowNext, EntriesNext, RowsNext, AnswersNext DEF IInv

\* The clocks, the table, the caches and the lookups keep their types.
THEOREM TypesCorrect == Spec => []TypeOK
<1>1. IInv => TypeOK  BY DEF IInv
<1> QED  BY <1>1, InvInit, InvNext, PTL DEF Spec

\* Every answer is what the table said less than the time to live before its
\* lookup began, or during it.
THEOREM AnswersRecent == Spec => []AnswersAreRecent
<1>1. IInv => AnswersAreRecent  BY DEF IInv
<1> QED  BY <1>1, InvInit, InvNext, PTL DEF Spec

\* No refusal comes from a cache.
THEOREM RefusalsCurrent == Spec => []RefusalsAreCurrent
<1>1. IInv => RefusalsAreCurrent  BY DEF IInv
<1> QED  BY <1>1, InvInit, InvNext, PTL DEF Spec
=============================================================================
