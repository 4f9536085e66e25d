--------------------------- MODULE HotCellsProofs ---------------------------
(***************************************************************************)
(* Proofs about HotCells, for every number of cells, windows and requests, *)
(* every limit and every lifetime of the keys.                             *)
(***************************************************************************)
EXTENDS HotCells, FiniteSetTheorems, TLAPS

\* The set that the latest key names is there, and outlives the key.
LatestIsBacked ==
  latest # 0 =>
    /\ Members(latest) # {}
    /\ clock < latest_until
    /\ latest_until <= hot_until[latest]
    /\ hot_until[latest] = stored[latest] + WindowTTL
    /\ stored[latest] <= clock

\* What holds between the two reads of a request.
ReadIsBacked ==
  \A i \in Client : request[i].at = "reading" =>
    LET w == request[i].window
    IN  /\ request[i].row <= request[i].since
        /\ request[i].since <= clock
        /\ request[i].since - request[i].row < WindowTTL
        /\ hot_until[w] >= request[i].row + WindowTTL
        /\ \/ Members(w) # {}
           \/ clock - request[i].row >= WindowTTL
           \/ lost >= request[i].since

AnswerIsPast ==
  \A i \in Client : request[i].at = "done" => request[i].since <= clock

Inv ==
  /\ TypeOK
  /\ lost <= clock
  /\ LatestIsBacked
  /\ ReadIsBacked
  /\ AnswerIsPast
  /\ AnswerIsFresh
  /\ NamedWindowHasCells

LEMMA TopIsNotEmpty ==
  ASSUME NEW w \in Window, Members(w) # {}, NEW cells \in Top(w)
  PROVE  cells # {}
<1>1. IsFiniteSet(Members(w))
  BY HotCellsAssumption, FS_Subset DEF Members
<1>2. Cardinality(Members(w)) \in Nat /\ Cardinality(Members(w)) # 0
  BY <1>1, FS_CardinalityType, FS_EmptySet
<1>3. Cardinality(cells) # 0
  BY <1>2, HotCellsAssumption DEF Top
<1> QED
  BY <1>3, FS_EmptySet

LEMMA InitInv == Init => Inv
BY HotCellsAssumption
   DEF Init, Inv, TypeOK, LatestIsBacked, ReadIsBacked, AnswerIsPast, AnswerIsFresh,
       NamedWindowHasCells, Window, NoCells, Request, Idle

LEMMA StoreInv ==
  ASSUME Inv, NEW w \in Ended, NEW c \in Cell, NEW n \in 1..MaxSats, Store(w, c, n),
         pump' \in BOOLEAN, faults' \in 0..MaxFaults, UNCHANGED <<clock, request>>
  PROVE  Inv'
<1> USE HotCellsAssumption DEF Inv
<1>0. w \in Window
  BY DEF Ended
<1>1. TypeOK'
  BY <1>0 DEF TypeOK, Store
<1>2. \A v \in Window : hot_until'[v] >= hot_until[v] \/ hot_until'[v] >= clock + WindowTTL
  BY <1>0 DEF TypeOK, Store
<1>3. \A v \in Window : Members(v) # {} => Members(v)' # {}
  BY <1>0 DEF TypeOK, Store, Members
<1>4. LatestIsBacked'
  BY <1>0 DEF TypeOK, Store, Members, LatestIsBacked
<1>5. ReadIsBacked'
  <2> SUFFICES ASSUME NEW i \in Client, request[i].at = "reading"
               PROVE  LET v == request[i].window
                      IN  /\ request[i].row <= request[i].since
                          /\ request[i].since <= clock
                          /\ request[i].since - request[i].row < WindowTTL
                          /\ hot_until'[v] >= request[i].row + WindowTTL
                          /\ \/ Members(v)' # {}
                             \/ clock - request[i].row >= WindowTTL
                             \/ lost >= request[i].since
    BY DEF ReadIsBacked, Store
  <2>1. /\ request[i].window \in Window
        /\ request[i].row \in Nat
        /\ request[i].since \in Nat
    BY DEF TypeOK, Request, Idle
  <2>2. hot_until \in [Window -> Nat] /\ hot_until' \in [Window -> Nat] /\ clock \in Nat
    BY <1>1 DEF TypeOK
  <2> QED
    BY <1>2, <1>3, <2>1, <2>2 DEF ReadIsBacked
<1>6. lost' <= clock' /\ AnswerIsPast' /\ AnswerIsFresh' /\ NamedWindowHasCells'
  BY DEF Store, AnswerIsPast, AnswerIsFresh, NamedWindowHasCells
<1> QED
  BY <1>1, <1>4, <1>5, <1>6

-----------------------------------------------------------------------------

LEMMA RestartInv == Inv /\ Restart => Inv'
BY DEF Inv, Restart, redis, TypeOK, LatestIsBacked, ReadIsBacked, AnswerIsPast, AnswerIsFresh,
       NamedWindowHasCells, Members, Request, Idle

LEMMA ConsumeInv ==
  ASSUME Inv, NEW w \in Ended, NEW c \in Cell, NEW n \in 1..MaxSats, Consume(w, c, n)
  PROVE  Inv'
BY StoreInv DEF Consume, Inv, TypeOK

LEMMA PumpEndsInv == Inv /\ PumpEnds => Inv'
<1> SUFFICES ASSUME Inv, PumpEnds PROVE Inv'
  OBVIOUS
<1>0. pump' \in BOOLEAN /\ UNCHANGED <<clock, request>>
  BY Zenon DEF PumpEnds
<1>1. faults' \in 0..MaxFaults
  BY HotCellsAssumption DEF PumpEnds, Fault, Inv, TypeOK
<1>2. CASE UNCHANGED redis
  BY <1>0, <1>1, <1>2 DEF Inv, redis, TypeOK, LatestIsBacked, ReadIsBacked, AnswerIsPast,
                    AnswerIsFresh, NamedWindowHasCells, Members
<1>3. CASE \E w \in Ended, c \in Cell, n \in 1..MaxSats : Store(w, c, n)
  BY <1>0, <1>1, <1>3, StoreInv
<1> QED
  BY <1>2, <1>3 DEF PumpEnds

\* A step of a request leaves Redis alone, so that only its own state counts.
LEMMA RequestInv ==
  ASSUME Inv, NEW i \in Client, NEW new \in Request,
         request' = [request EXCEPT ![i] = new],
         faults' \in 0..MaxFaults, UNCHANGED <<clock, pump, redis>>,
         new.at = "reading" =>
           /\ new.row <= new.since /\ new.since <= clock
           /\ new.since - new.row < WindowTTL
           /\ hot_until[new.window] >= new.row + WindowTTL
           /\ Members(new.window) # {},
         new.at = "done" =>
           /\ new.since <= clock
           /\ new.since - new.row < WindowTTL
           /\ \/ new.cells # {}
              \/ new.end - new.row >= WindowTTL
              \/ lost >= new.since
  PROVE  Inv'
<1> USE DEF Inv, redis
<1>1. TypeOK'
  BY DEF TypeOK
<1>2. \A j \in Client : request'[j] = IF j = i THEN new ELSE request[j]
  BY DEF TypeOK
<1>3. LatestIsBacked'
  BY DEF LatestIsBacked, Members
<1>4. ReadIsBacked'
  BY <1>2 DEF ReadIsBacked, Members
<1>5. AnswerIsPast' /\ AnswerIsFresh'
  BY <1>2 DEF AnswerIsPast, AnswerIsFresh
<1>6. NamedWindowHasCells'
  BY <1>2 DEF NamedWindowHasCells
<1> QED
  BY <1>1, <1>3, <1>4, <1>5, <1>6

LEMMA ReadLatestInv ==
  ASSUME Inv, NEW i \in Client, ReadLatest(i)
  PROVE  Inv'
<1> DEFINE new == [at |-> "reading", window |-> latest, row |-> stored[latest], since |-> clock]
<1>1. new \in Request
  BY DEF ReadLatest, Inv, TypeOK, Request
<1>2. /\ new.row <= new.since /\ new.since <= clock
      /\ new.since - new.row < WindowTTL
      /\ hot_until[new.window] >= new.row + WindowTTL
      /\ Members(new.window) # {}
  BY HotCellsAssumption DEF ReadLatest, Inv, TypeOK, LatestIsBacked
<1>3. new.at # "done"
  OBVIOUS
<1> HIDE DEF new
<1>4. request' = [request EXCEPT ![i] = new] /\ UNCHANGED <<clock, pump, redis, faults>>
  BY DEF ReadLatest, new
<1>5. faults' \in 0..MaxFaults
  BY <1>4 DEF Inv, TypeOK
<1> QED
  BY <1>1, <1>2, <1>3, <1>4, <1>5, RequestInv

LEMMA IdleInv ==
  ASSUME Inv, NEW i \in Client, NothingLatest(i) \/ ReadFails(i)
  PROVE  Inv'
<1>1. Idle \in Request /\ Idle.at # "reading" /\ Idle.at # "done"
  BY DEF Idle, Request
<1>2. request' = [request EXCEPT ![i] = Idle] /\ UNCHANGED <<clock, pump, redis>>
  BY DEF NothingLatest, ReadFails
<1>3. faults' \in 0..MaxFaults
  BY HotCellsAssumption DEF NothingLatest, ReadFails, Fault, Inv, TypeOK
<1> QED
  BY <1>1, <1>2, <1>3, RequestInv

LEMMA ReadCellsInv ==
  ASSUME Inv, NEW i \in Client, ReadCells(i)
  PROVE  Inv'
<1> DEFINE old == request[i]
<1>1. old \in Request /\ old.at = "reading"
  BY DEF ReadCells, Inv, TypeOK
<1>2. old.window \in Window /\ old.row \in 0..MaxTime /\ old.since \in 0..MaxTime
  BY <1>1 DEF Request, Idle
<1>3. PICK cells \in Top(old.window) :
        request' = [request EXCEPT ![i] = [at |-> "done", window |-> old.window,
          row |-> old.row, since |-> old.since, end |-> clock, cells |-> cells]]
  BY DEF ReadCells
<1> DEFINE new == [at |-> "done", window |-> old.window, row |-> old.row,
                   since |-> old.since, end |-> clock, cells |-> cells]
<1>4. cells \subseteq Cell /\ clock \in 0..MaxTime
  BY DEF Top, Members, Inv, TypeOK
<1>5. new \in Request
  BY <1>2, <1>4 DEF Request
<1>6. /\ new.since <= clock
      /\ new.since - new.row < WindowTTL
      /\ \/ new.cells # {}
         \/ new.end - new.row >= WindowTTL
         \/ lost >= new.since
  BY <1>1, <1>2, TopIsNotEmpty DEF Inv, ReadIsBacked
<1>7. new.at # "reading" /\ request' = [request EXCEPT ![i] = new]
  BY <1>3
<1>8. faults' \in 0..MaxFaults /\ UNCHANGED <<clock, pump, redis>>
  BY DEF ReadCells, Inv, TypeOK
<1> HIDE DEF new
<1> QED
  BY <1>5, <1>6, <1>7, <1>8, RequestInv

LEMMA ElapseInv == Inv /\ Elapse => Inv'
<1> SUFFICES ASSUME Inv, Elapse PROVE Inv'
  OBVIOUS
<1> USE HotCellsAssumption DEF Inv
<1>1. TypeOK'
  BY DEF TypeOK, Elapse, NoCells
<1>2. \A w \in Window : Members(w)' = IF hot_until[w] <= clock + 1 THEN {} ELSE Members(w)
  BY DEF TypeOK, Elapse, Members, NoCells
<1>3. LatestIsBacked'
  <2> SUFFICES ASSUME latest' # 0 PROVE LatestIsBacked'
    BY DEF LatestIsBacked
  <2>1. latest' = latest /\ latest \in Window /\ clock + 1 < latest_until
    BY DEF Elapse, TypeOK
  <2>2. hot_until[latest] > clock + 1
    BY <2>1 DEF LatestIsBacked, TypeOK
  <2> QED
    BY <1>2, <2>1, <2>2 DEF LatestIsBacked, Elapse, TypeOK
<1>4. ReadIsBacked'
  <2> SUFFICES ASSUME NEW i \in Client, request[i].at = "reading"
               PROVE  LET w == request[i].window
                      IN  /\ request[i].row <= request[i].since
                          /\ request[i].since <= clock'
                          /\ request[i].since - request[i].row < WindowTTL
                          /\ hot_until[w] >= request[i].row + WindowTTL
                          /\ \/ Members(w)' # {}
                             \/ clock' - request[i].row >= WindowTTL
                             \/ lost >= request[i].since
    BY DEF ReadIsBacked, Elapse
  <2>1. /\ request[i].window \in Window
        /\ request[i].row \in Nat
        /\ request[i].since \in Nat
    BY DEF TypeOK, Request, Idle
  <2>2. hot_until[request[i].window] \in Nat /\ clock \in Nat /\ clock' = clock + 1
    BY <2>1 DEF TypeOK, Elapse
  <2>3. /\ request[i].row <= request[i].since
        /\ request[i].since <= clock
        /\ request[i].since - request[i].row < WindowTTL
        /\ hot_until[request[i].window] >= request[i].row + WindowTTL
        /\ \/ Members(request[i].window) # {}
           \/ clock - request[i].row >= WindowTTL
           \/ lost >= request[i].since
    BY DEF ReadIsBacked
  <2>4. CASE hot_until[request[i].window] <= clock + 1
    BY <2>1, <2>2, <2>3, <2>4
  <2>5. CASE hot_until[request[i].window] > clock + 1
    <3>1. Members(request[i].window)' = Members(request[i].window)
      BY <1>2, <2>1, <2>2, <2>5 DEF Elapse
    <3> QED
      BY <3>1, <2>1, <2>2, <2>3
  <2> QED
    BY <2>2, <2>4, <2>5
<1>5. lost' <= clock' /\ AnswerIsPast' /\ AnswerIsFresh' /\ NamedWindowHasCells'
  <2>1. \A i \in Client : request[i].at = "done" => request[i].since \in Nat
    BY DEF TypeOK, Request, Idle
  <2> QED
    BY <2>1 DEF Elapse, TypeOK, AnswerIsPast, AnswerIsFresh, NamedWindowHasCells
<1> QED
  BY <1>1, <1>3, <1>4, <1>5

LEMMA RedisRestartsInv == Inv /\ RedisRestarts => Inv'
<1> SUFFICES ASSUME Inv, RedisRestarts PROVE Inv'
  OBVIOUS
<1> USE HotCellsAssumption DEF Inv
<1>1. TypeOK'
  BY DEF TypeOK, RedisRestarts, NoCells, Fault
<1>2. LatestIsBacked'
  BY DEF LatestIsBacked, RedisRestarts
<1>3. ReadIsBacked'
  BY DEF ReadIsBacked, RedisRestarts
<1>4. lost' <= clock' /\ AnswerIsPast' /\ AnswerIsFresh' /\ NamedWindowHasCells'
  <2>1. \A i \in Client : request[i].at = "done" => lost' >= request[i].since
    BY DEF AnswerIsPast, RedisRestarts
  <2> QED
    BY <2>1 DEF RedisRestarts, TypeOK, AnswerIsPast, AnswerIsFresh, NamedWindowHasCells
<1> QED
  BY <1>1, <1>2, <1>3, <1>4

LEMMA NextInv == Inv /\ [Next]_vars => Inv'
<1> SUFFICES ASSUME Inv, [Next]_vars PROVE Inv'
  OBVIOUS
<1>1. CASE UNCHANGED vars
  BY <1>1 DEF vars, redis, Inv, TypeOK, LatestIsBacked, ReadIsBacked, AnswerIsPast,
              AnswerIsFresh, NamedWindowHasCells, Members
<1>2. CASE Next
  BY <1>2, RestartInv, ConsumeInv, PumpEndsInv, ReadLatestInv, IdleInv, ReadCellsInv,
     ElapseInv, RedisRestartsInv
     DEF Next
<1> QED
  BY <1>1, <1>2

\* The keys of Redis and the requests are always as declared.
THEOREM TypesCorrect == Spec => []TypeOK
<1>1. Inv => TypeOK
  BY DEF Inv
<1> QED
  BY <1>1, InitInv, NextInv, PTL DEF Spec

\* No answer names a window whose last row is WINDOW_TTL_S old: the expiry
\* of the latest key, which each row renews, ends a map nobody renews.
THEOREM AnswersFresh == Spec => []AnswerIsFresh
<1>1. Inv => AnswerIsFresh
  BY DEF Inv
<1> QED
  BY <1>1, InitInv, NextInv, PTL DEF Spec

\* An answer that names a window has cells of it, whatever happens between
\* the two reads, unless the window expired or Redis was lost meanwhile.
THEOREM NamedWindowsHaveCells == Spec => []NamedWindowHasCells
<1>1. Inv => NamedWindowHasCells
  BY DEF Inv
<1> QED
  BY <1>1, InitInv, NextInv, PTL DEF Spec
=============================================================================
