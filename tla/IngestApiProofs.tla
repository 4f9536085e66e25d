--------------------------- MODULE IngestApiProofs ---------------------------
(***************************************************************************)
(* Proofs about TleProducer, for every catalogue, watchlist, tick, cadence *)
(* and fetch interval; and about IngestApi: that the TLE producer in it is *)
(* the one of TleProducer, whose theorems therefore hold of it, and that   *)
(* the samples reach the topic in order and are kept, for every number of  *)
(* satellites, every queue and every limit on the requests under way.      *)
(***************************************************************************)
EXTENDS IngestApi, FiniteSetTheorems, TLAPS

-----------------------------------------------------------------------------
(* The producer.                                                           *)

\* A fetch is under way exactly while run() is in it, and what it writes is
\* an answer of Celestrak.
StepInv ==
  /\ step # "none" <=> pc \in {"starting", "refreshing"}
  /\ step \in {"writing", "stamping"} => answer \in Catalogue

\* The two files: the throttle is off until the file is whole again.
DiskInv ==
  /\ file.state # "whole" => clock - stamp >= FetchInterval
  /\ file.state = "whole" => file.at >= stamp
  /\ step \in {"asking", "writing", "stamping"} => clock - stamp >= FetchInterval
  /\ step = "stamping" => file = Whole(answer, clock)

\* The last answer of Celestrak is not younger than the timestamp.
SpacingInv ==
  /\ asked <= clock
  /\ kept => asked <= stamp

\* How old the elements are when they are loaded, and how old a load gets.
AgeInv ==
  /\ pc \notin {"down", "starting"} /\ ~stale => last_refresh - fetched < FetchInterval
  /\ pc = "ticking" => last_refresh = clock
  /\ pc = "posting" => sampled - last_refresh < FetchInterval

\* How far a cursor has to go to position k, counted from 0.
Way(len, cursor, k) ==
  LET c == cursor % len IN IF c <= k THEN k - c ELSE k - c + len

\* The slices since a satellite was posted, and the way to it, are one round.
TurnInv ==
  \A k \in 0..(Len(bulk_ids) - 1) :
    waited[bulk_ids[k + 1]] * SliceSize(Len(bulk_ids))
      + Way(Len(bulk_ids), bulk_cursor, k) < Len(bulk_ids)

Inv ==
  /\ TypeOK
  /\ StepInv
  /\ DiskInv
  /\ SpacingInv
  /\ AgeInv
  /\ TurnInv

-----------------------------------------------------------------------------
(* Arithmetic.                                                             *)

\* Division with a remainder, and that it is the only one.
LEMMA Remainder ==
  ASSUME NEW a \in Nat, NEW l \in Nat \ {0}, NEW q \in Nat, NEW r \in 0..(l - 1), a = l * q + r
  PROVE  a % l = r
OBVIOUS

LEMMA Division ==
  ASSUME NEW a \in Nat, NEW l \in Nat \ {0}
  PROVE  /\ a \div l \in Nat
         /\ a % l \in 0..(l - 1)
         /\ a = l * (a \div l) + (a % l)
<1> DEFINE q == a \div l
           r == a - l * q
<1>1. q \in Nat /\ l * q <= a /\ a < l * q + l
  OBVIOUS
<1>2. r \in 0..(l - 1) /\ a = l * q + r
  BY <1>1
<1> HIDE DEF r
<1>3. a % l = r
  BY <1>1, <1>2, Remainder
<1>4. a % l \in 0..(l - 1)
  BY <1>2, <1>3
<1>5. a = l * q + (a % l)
  BY <1>2, <1>3
<1> QED
  BY <1>1, <1>4, <1>5

\* A step of less than a round from position c % l.
LEMMA Wrap ==
  ASSUME NEW c \in Nat, NEW l \in Nat \ {0}, NEW i \in 0..(l - 1)
  PROVE  (c + i) % l = IF (c % l) + i < l THEN (c % l) + i ELSE (c % l) + i - l
<1> DEFINE q == c \div l
           r == c % l
<1>1. q \in Nat /\ r \in 0..(l - 1) /\ c = l * q + r
  BY Division
<1> HIDE DEF q, r
<1>2. CASE r + i < l
  <2>1. r + i \in 0..(l - 1) /\ c + i = l * q + (r + i)
    BY <1>1, <1>2
  <2>2. (c + i) % l = r + i
    BY <2>1, <1>1, Remainder
  <2> QED
    BY <1>1, <1>2, <2>2 DEF r
<1>3. CASE r + i >= l
  <2>1. l * (q + 1) = l * q + l
    BY <1>1
  <2>2. r + i - l \in 0..(l - 1) /\ c + i = l * (q + 1) + (r + i - l)
    BY <1>1, <1>3, <2>1
  <2>3. q + 1 \in Nat /\ c + i \in Nat
    BY <1>1
  <2>4. (c + i) % l = r + i - l
    BY <2>2, <2>3, Remainder
  <2> QED
    BY <1>1, <1>3, <2>4 DEF r
<1> QED
  BY <1>1, <1>2, <1>3

LEMMA Product ==
  ASSUME NEW x \in Nat, NEW a \in Nat, NEW b \in Nat, a >= b
  PROVE  x * a >= x * b
OBVIOUS

LEMMA PermilleIsNat == Permille \in Nat
<1> DEFINE a == 1000 * TickSeconds
<1>1. a \in Nat /\ CadenceSeconds \in Nat \ {0}
  BY ProducerAssumption
<1>2. Permille = a \div CadenceSeconds
  BY DEF Permille
<1> HIDE DEF a
<1> QED
  BY <1>1, <1>2, Division

\* _bulk_slice_per_tick: the ceiling of the list's length times the ratio in
\* thousandths, and at least one satellite.
LEMMA SliceFacts ==
  ASSUME NEW len \in Nat
  PROVE  /\ SliceSize(len) \in Nat
         /\ len > 0 => SliceSize(len) >= 1
         /\ 1000 * SliceSize(len) >= len * Permille
<1> DEFINE x == len * Permille
           n == -((-x) \div 1000)
<1>1. x \in Nat
  BY PermilleIsNat
<1>2. -len * Permille = -x
  OBVIOUS
<1> HIDE DEF x
<1>3. n \in Int /\ 1000 * n >= x
  BY <1>1
<1>4. CASE len = 0
  BY <1>4, PermilleIsNat DEF SliceSize
<1>5. CASE len # 0
  <2>1. SliceSize(len) = IF n < 1 THEN 1 ELSE n
    BY <1>2, <1>5 DEF SliceSize
  <2> QED
    BY <1>1, <1>3, <2>1 DEF x
<1> QED
  BY <1>4, <1>5

-----------------------------------------------------------------------------
(* The lists.                                                              *)

LEMMA BulkType ==
  ASSUME NEW ids \in Seq(Sat), NEW list_ \in Bulk(ids)
  PROVE  list_ \in Seq(Sat)
<1> DEFINE rest == {i \in DOMAIN ids : ids[i] \notin Watchlist}
<1>1. IsFiniteSet(rest)
  <2>1. IsFiniteSet(1..Len(ids))
    BY FS_Interval
  <2>2. rest \subseteq 1..Len(ids)
    OBVIOUS
  <2> QED
    BY <2>1, <2>2, FS_Subset
<1>2. Cardinality(rest) \in Nat
  BY <1>1, FS_CardinalityType
<1>3. PICK place \in [1..Cardinality(rest) -> rest] :
        list_ = [k \in DOMAIN place |-> ids[place[k]]]
  BY DEF Bulk
<1>4. list_ \in [1..Cardinality(rest) -> Sat]
  BY <1>3
<1>5. \A n \in Nat : [1..n -> Sat] \subseteq Seq(Sat)
  OBVIOUS
<1> HIDE DEF rest
<1> QED
  BY <1>2, <1>4, <1>5

LEMMA ParsedType ==
  ASSUME TypeOK
  PROVE  /\ Parsed(file) \in Seq(Sat)
         /\ file.state = "whole" => file.at \in 0..MaxTime
BY ProducerAssumption DEF TypeOK, Parsed, File, NoFile, Torn, Whole

LEMMA AnswerType ==
  ASSUME TypeOK
  PROVE  answer \in Seq(Sat)
<1>1. answer \in Catalogue \cup {<<>>}
  BY DEF TypeOK
<1>2. Catalogue \subseteq Seq(Sat)
  BY ProducerAssumption
<1>3. <<>> \in Seq(Sat)
  OBVIOUS
<1> QED
  BY <1>1, <1>2, <1>3

\* A list that is loaded starts its turns, wherever the cursor is.
LEMMA UseCatalogueFacts ==
  ASSUME TypeOK, NEW ids \in Seq(Sat), NEW at \in 0..MaxTime, UseCatalogue(ids, at)
  PROVE  /\ bulk_ids' \in Seq(Sat)
         /\ watched' \subseteq Watchlist
         /\ waited' \in [Sat -> Nat]
         /\ bulk_cursor' \in Nat
         /\ TurnInv'
<1>1. bulk_ids' \in Seq(Sat)
  BY BulkType DEF UseCatalogue
<1>2. watched' \subseteq Watchlist
  BY DEF UseCatalogue
<1>3. waited' = [n \in Sat |-> 0] /\ bulk_cursor' = bulk_cursor /\ bulk_cursor \in Nat
  BY DEF UseCatalogue, TypeOK
<1>4. TurnInv'
  <2> SUFFICES ASSUME NEW k \in 0..(Len(bulk_ids') - 1)
               PROVE  waited'[bulk_ids'[k + 1]] * SliceSize(Len(bulk_ids'))
                        + Way(Len(bulk_ids'), bulk_cursor', k) < Len(bulk_ids')
    BY DEF TurnInv
  <2>1. Len(bulk_ids') \in Nat \ {0} /\ bulk_ids'[k + 1] \in Sat
    BY <1>1
  <2>2. waited'[bulk_ids'[k + 1]] * SliceSize(Len(bulk_ids')) = 0
    <3>1. waited'[bulk_ids'[k + 1]] = 0
      BY <1>3, <2>1
    <3> QED
      BY <3>1, <2>1, SliceFacts
  <2>3. bulk_cursor' % Len(bulk_ids') \in 0..(Len(bulk_ids') - 1)
    BY <1>3, <2>1, Division
  <2>4. Way(Len(bulk_ids'), bulk_cursor', k) \in 0..(Len(bulk_ids') - 1)
    BY <2>1, <2>3 DEF Way
  <2> QED
    BY <2>1, <2>2, <2>4
<1> QED
  BY <1>1, <1>2, <1>3, <1>4

LEMMA TurnIsKept ==
  ASSUME TurnInv, UNCHANGED <<bulk_ids, bulk_cursor, waited>>
  PROVE  TurnInv'
BY DEF TurnInv

\* Where nothing is loaded there are no turns.
LEMMA GoneFacts ==
  ASSUME Gone
  PROVE  TurnInv' /\ bulk_ids' \in Seq(Sat) /\ waited' \in [Sat -> Nat]
<1>1. Len(bulk_ids') = 0 /\ bulk_ids' \in Seq(Sat) /\ waited' \in [Sat -> Nat]
  BY DEF Gone
<1>2. TurnInv'
  BY <1>1 DEF TurnInv
<1> QED
  BY <1>1, <1>2

-----------------------------------------------------------------------------
(* The tick.                                                               *)

\* The slice holds what is less than its size away from the cursor, and the
\* others come nearer by that size.
LEMMA EmitTurn ==
  ASSUME TypeOK, TurnInv, EmitTick
  PROVE  TurnInv'
<1> DEFINE len == Len(bulk_ids)
           size == SliceSize(len)
           c == bulk_cursor % len
           next == NextCursor(bulk_ids, bulk_cursor)
<1> SUFFICES ASSUME NEW k \in 0..(len - 1)
             PROVE  waited'[bulk_ids[k + 1]] * size + Way(len, next, k) < len
  BY DEF TurnInv, EmitTick
<1> DEFINE n == bulk_ids[k + 1]
           before == Way(len, bulk_cursor, k)
           after == Way(len, next, k)
<1>1. bulk_ids \in Seq(Sat) /\ len \in Nat \ {0} /\ n \in Sat /\ n \in Range(bulk_ids)
  BY DEF TypeOK, Range
<1>2. size \in Nat /\ c \in 0..(len - 1) /\ bulk_cursor \in Nat /\ waited[n] \in Nat
  <2>1. bulk_cursor \in Nat /\ waited[n] \in Nat
    BY <1>1 DEF TypeOK
  <2> HIDE DEF len
  <2>2. c \in 0..(len - 1)
    BY <1>1, <2>1, Division
  <2>3. size \in Nat
    BY <1>1, SliceFacts, ZenonT(30)
  <2> QED
    BY <2>1, <2>2, <2>3
<1>3. before = IF c <= k THEN k - c ELSE k - c + len
  BY DEF Way
<1>4. before \in 0..(len - 1)
  BY <1>1, <1>2, <1>3
<1>5. waited[n] * size + before < len
  BY DEF TurnInv
<1>6. next = (bulk_cursor + size) % len
  BY <1>1 DEF NextCursor
<1>7. next \in 0..(len - 1)
  <2> HIDE DEF len, size, next
  <2>1. bulk_cursor + size \in Nat
    BY <1>2
  <2> QED
    BY <1>1, <1>6, <2>1, Division
<1>8. after = IF next <= k THEN k - next ELSE k - next + len
  <2>1. next % len = next
    <3>1. next = len * 0 + next
      BY <1>1, <1>7
    <3> QED
      BY <1>1, <1>7, <3>1, Remainder
  <2> QED
    BY <1>6, <2>1 DEF Way
<1>9. after \in 0..(len - 1)
  <2> HIDE DEF len, n, next, after
  <2> QED
    BY <1>1, <1>7, <1>8
<1>10. waited'[n] = IF n \in Slice(bulk_ids, bulk_cursor) THEN 0 ELSE waited[n] + 1
  BY <1>1 DEF EmitTick
<1> HIDE DEF size, c, len, n, next, before, after
<1>11. CASE n \in Slice(bulk_ids, bulk_cursor)
  <2>1. waited'[n] * size = 0
    BY <1>2, <1>10, <1>11
  <2> QED
    BY <1>1, <1>9, <2>1 DEF n, after
<1>12. CASE n \notin Slice(bulk_ids, bulk_cursor)
  <2>1. before >= size
    <3> SUFFICES ASSUME before < size PROVE n \in Slice(bulk_ids, bulk_cursor)
      BY <1>2, <1>4, <1>12
    <3>1. (bulk_cursor + before) % len = k
      <4>1. (bulk_cursor + before) % len =
              IF c + before < len THEN c + before ELSE c + before - len
        BY <1>1, <1>2, <1>4, Wrap DEF c
      <4> QED
        BY <1>1, <1>2, <1>3, <4>1
    <3>2. before \in 0..(size - 1)
      BY <1>1, <1>2, <1>4
    <3> QED
      BY <3>1, <3>2 DEF Slice, size, len, n
  <2>2. after = before - size
    <3>1. size \in 0..(len - 1)
      BY <1>1, <1>2, <1>4, <2>1
    <3>2. next = IF c + size < len THEN c + size ELSE c + size - len
      BY <1>1, <1>2, <1>6, <3>1, Wrap DEF c
    <3> QED
      BY <1>1, <1>2, <1>3, <1>8, <2>1, <3>1, <3>2
  <2>3. waited'[n] * size = waited[n] * size + size
    BY <1>2, <1>10, <1>12
  <2>4. waited[n] * size \in Nat
    BY <1>2
  <2> QED
    BY <1>1, <1>2, <1>4, <1>5, <2>2, <2>3, <2>4 DEF n, after
<1> QED
  BY <1>11, <1>12

-----------------------------------------------------------------------------
(* The steps.                                                              *)

LEMMA InitInv == Init => Inv
<1> SUFFICES ASSUME Init PROVE Inv
  OBVIOUS
<1>1. TypeOK
  <2>1. /\ clock \in FetchInterval..MaxTime
        /\ {0} \subseteq 0..MaxTime /\ 0 \in 0..(MaxTime + TickSeconds) /\ 0 \in 0..MaxFaults
    BY ProducerAssumption DEF Init
  <2>2. bulk_ids \in Seq(Sat) /\ waited \in [Sat -> Nat] /\ bulk_cursor \in Nat
    BY DEF Init
  <2>3. file \in File /\ answer \in Catalogue \cup {<<>>}
    BY DEF Init, File
  <2> QED
    BY <2>1, <2>2, <2>3 DEF Init, TypeOK
<1>2. StepInv /\ SpacingInv /\ AgeInv
  BY ProducerAssumption DEF Init, StepInv, SpacingInv, AgeInv
<1>3. DiskInv
  BY ProducerAssumption DEF Init, DiskInv, NoFile
<1>4. TurnInv
  BY DEF Init, TurnInv
<1> QED
  BY <1>1, <1>2, <1>3, <1>4 DEF Inv

\* What loads a list.
LEMMA UseCatalogueInv ==
  ASSUME Inv, NEW ids \in Seq(Sat), NEW at \in 0..MaxTime, UseCatalogue(ids, at),
         clock - at < FetchInterval, pc \in {"starting", "refreshing"},
         UNCHANGED <<clock, wake, stop, posts>>, faults' \in 0..MaxFaults,
         file' = file, asked' = asked, kept' \in BOOLEAN, kept' => asked <= stamp',
         stamp' = stamp \/ (stamp' = clock /\ file = Whole(answer, clock))
  PROVE  Inv'
<1> USE ProducerAssumption DEF Inv
<1>1. TypeOK'
  <2>1. /\ bulk_ids' \in Seq(Sat) /\ watched' \subseteq Watchlist
        /\ waited' \in [Sat -> Nat] /\ bulk_cursor' \in Nat
    BY UseCatalogueFacts
  <2>2. /\ pc' \in {"looping", "ticking"} /\ step' = "none" /\ answer' = <<>>
        /\ last_refresh' = clock /\ fetched' = at /\ stale' = FALSE
    BY DEF UseCatalogue
  <2>3. clock \in 0..MaxTime
    BY DEF TypeOK
  <2> QED
    BY <2>1, <2>2, <2>3 DEF posts, TypeOK
<1>2. StepInv'
  BY DEF UseCatalogue, StepInv
<1>3. DiskInv'
  BY DEF UseCatalogue, DiskInv, Whole, TypeOK
<1>4. SpacingInv'
  BY DEF SpacingInv
<1>5. AgeInv'
  BY DEF UseCatalogue, AgeInv, TypeOK
<1> QED
  BY <1>1, <1>2, <1>3, <1>4, <1>5, UseCatalogueFacts

\* A step that leaves the files and the lists alone, and the process in the
\* loop or outside.
LEMMA LoopInv ==
  ASSUME Inv, UNCHANGED <<clock, disk, step, answer, list, spacing>>, TypeOK', StepInv',
         pc \in {"down", "starting"} => pc' \in {"down", "starting"},
         pc' \in {"ticking", "posting"} => pc' = pc /\ sampled' = sampled
  PROVE  Inv'
<1> USE DEF Inv, disk, list, spacing
<1>1. DiskInv' /\ SpacingInv'
  BY DEF DiskInv, SpacingInv
<1>2. AgeInv'
  BY DEF AgeInv
<1> QED
  BY <1>1, <1>2, TurnIsKept

LEMMA StartInv == Inv /\ Start => Inv'
<1> SUFFICES ASSUME Inv, Start PROVE Inv'
  OBVIOUS
<1> USE DEF Inv, Start, disk, list, posts, spacing
<1>1. TypeOK' /\ StepInv' /\ SpacingInv'
  BY DEF TypeOK, StepInv, SpacingInv
<1>2. DiskInv' /\ AgeInv'
  BY DEF DiskInv, AgeInv
<1> QED
  BY <1>1, <1>2, TurnIsKept

LEMMA UsePreviousInv == Inv /\ UsePrevious => Inv'
<1> SUFFICES ASSUME Inv, UsePrevious PROVE Inv'
  OBVIOUS
<1>1. file.state = "whole" /\ file.at >= stamp /\ file.at \in 0..MaxTime
  <2>1. clock - stamp \in Int /\ clock - stamp < FetchInterval /\ FetchInterval \in Int
    BY ProducerAssumption DEF Inv, TypeOK, UsePrevious, Throttled
  <2>2. file.state = "whole" /\ file.at >= stamp
    BY <2>1 DEF Inv, DiskInv
  <2> QED
    BY <2>2, ParsedType DEF Inv
<1>2. UseCatalogue(Parsed(file), file.at)
  BY <1>1 DEF UsePrevious
<1>3. clock - file.at < FetchInterval
  BY <1>1, ProducerAssumption DEF UsePrevious, Throttled, Inv, TypeOK
<1>4. pc \in {"starting", "refreshing"}
  BY DEF UsePrevious, Inv, StepInv
<1>5. UNCHANGED <<clock, wake, stop, posts, faults, file, stamp, asked, kept>>
  BY DEF UsePrevious, disk, spacing
<1>6. faults' \in 0..MaxFaults /\ kept' \in BOOLEAN
  BY <1>5 DEF Inv, TypeOK
<1>7. kept' => asked <= stamp'
  BY <1>5 DEF Inv, SpacingInv
<1>8. Parsed(file) \in Seq(Sat)
  BY ParsedType DEF Inv
<1> QED
  BY <1>1, <1>2, <1>3, <1>4, <1>5, <1>6, <1>7, <1>8, UseCatalogueInv

LEMMA AskInv == Inv /\ Ask => Inv'
<1> SUFFICES ASSUME Inv, Ask PROVE Inv'
  OBVIOUS
<1> USE DEF Inv, Ask, disk, list, posts, spacing
<1>1. TypeOK' /\ StepInv' /\ SpacingInv' /\ AgeInv'
  BY DEF TypeOK, StepInv, SpacingInv, AgeInv
<1>2. DiskInv'
  BY ProducerAssumption DEF DiskInv, Throttled, TypeOK
<1> QED
  BY <1>1, <1>2, TurnIsKept

LEMMA AnsweredInv ==
  ASSUME Inv, NEW ids \in Catalogue, Answered(ids)
  PROVE  Inv'
<1> USE DEF Inv, Answered, list, posts
<1>1. Torn \in File /\ Torn.state = "torn"
  BY DEF File, Torn
<1>2. clock \in 0..MaxTime /\ kept' = FALSE
  BY ProducerAssumption DEF TypeOK
<1>3. TypeOK'
  BY <1>1, <1>2 DEF TypeOK
<1>4. StepInv' /\ AgeInv'
  BY DEF StepInv, AgeInv
<1>5. DiskInv' /\ SpacingInv'
  BY <1>1, <1>2, ProducerAssumption DEF DiskInv, SpacingInv, TypeOK
<1> QED
  BY <1>3, <1>4, <1>5, TurnIsKept

LEMMA WriteFileInv == Inv /\ WriteFile => Inv'
<1> SUFFICES ASSUME Inv, WriteFile PROVE Inv'
  OBVIOUS
<1> USE DEF Inv, WriteFile, list, posts, spacing
<1>0. answer \in Catalogue
  BY DEF StepInv
<1>1. /\ Whole(answer, clock) \in File
      /\ Whole(answer, clock).state = "whole" /\ Whole(answer, clock).at = clock
  BY <1>0, ProducerAssumption DEF File, Whole, TypeOK
<1>2. TypeOK' /\ StepInv' /\ AgeInv' /\ SpacingInv'
  BY <1>1 DEF TypeOK, StepInv, AgeInv, SpacingInv
<1>3. DiskInv'
  BY <1>1, ProducerAssumption DEF DiskInv, TypeOK
<1> QED
  BY <1>2, <1>3, TurnIsKept

LEMMA WriteStampInv == Inv /\ WriteStamp => Inv'
<1> SUFFICES ASSUME Inv, WriteStamp PROVE Inv'
  OBVIOUS
<1>1. answer \in Seq(Sat) /\ clock \in 0..MaxTime /\ clock - clock < FetchInterval
  BY AnswerType, ProducerAssumption DEF Inv, TypeOK
<1>2. pc \in {"starting", "refreshing"} /\ file = Whole(answer, clock)
  BY DEF WriteStamp, Inv, StepInv, DiskInv
<1>3. /\ UNCHANGED <<clock, wake, stop, posts, faults, file, asked>>
      /\ stamp' = clock /\ kept' = TRUE
      /\ UseCatalogue(answer, clock)
  BY DEF WriteStamp
<1>4. kept' \in BOOLEAN /\ faults' \in 0..MaxFaults /\ (kept' => asked <= stamp')
  BY <1>3 DEF Inv, TypeOK, SpacingInv
<1> QED
  BY <1>1, <1>2, <1>3, <1>4, UseCatalogueInv

LEMMA FaultType == TypeOK /\ Fault => faults' \in 0..MaxFaults
BY ProducerAssumption DEF TypeOK, Fault

LEMMA StampFailsInv == Inv /\ StampFails => Inv'
<1> SUFFICES ASSUME Inv, StampFails PROVE Inv'
  OBVIOUS
<1>1. answer \in Seq(Sat) /\ clock \in 0..MaxTime /\ clock - clock < FetchInterval
  BY AnswerType, ProducerAssumption DEF Inv, TypeOK
<1>2. pc \in {"starting", "refreshing"}
  BY DEF StampFails, Inv, StepInv
<1>3. /\ UNCHANGED <<clock, wake, stop, posts, file, stamp, asked, kept>>
      /\ UseCatalogue(answer, clock)
  BY DEF StampFails, disk, spacing
<1>4. kept' \in BOOLEAN /\ faults' \in 0..MaxFaults /\ (kept' => asked <= stamp')
  BY <1>3, FaultType DEF StampFails, Inv, TypeOK, SpacingInv
<1> QED
  BY <1>1, <1>2, <1>3, <1>4, UseCatalogueInv

LEMMA FetchFailsInv == Inv /\ FetchFails => Inv'
<1> SUFFICES ASSUME Inv, FetchFails PROVE Inv'
  OBVIOUS
<1> USE DEF Inv, disk, posts, spacing
<1>1. pc \in {"starting", "refreshing"}
  BY DEF FetchFails, StepInv
<1>2. /\ step' = "none" /\ answer' = <<>> /\ faults' \in 0..MaxFaults
      /\ UNCHANGED <<clock, file, stamp, bulk_ids, watched, bulk_cursor, fetched, waited, wake,
                     stop, waiting, sent, sampled, asked, kept>>
      /\ \/ pc' = "down" /\ last_refresh' = last_refresh /\ stale' = stale
         \/ pc' = "ticking" /\ last_refresh' = clock /\ stale' = TRUE
  BY FaultType DEF FetchFails
<1>3. clock \in 0..MaxTime
  BY ProducerAssumption DEF TypeOK
<1>4. TypeOK' /\ StepInv'
  BY <1>2, <1>3 DEF TypeOK, StepInv
<1>5. DiskInv' /\ SpacingInv' /\ AgeInv'
  BY <1>2 DEF DiskInv, SpacingInv, AgeInv
<1> QED
  BY <1>2, <1>4, <1>5, TurnIsKept

LEMMA GoneInv ==
  ASSUME Inv, Gone, faults' \in 0..MaxFaults
  PROVE  Inv'
<1> USE DEF Inv, Gone, disk, spacing
<1>1. {0} \subseteq 0..MaxTime /\ 0 \in 0..(MaxTime + TickSeconds)
  BY ProducerAssumption
<1>2. TypeOK' /\ StepInv'
  BY <1>1, GoneFacts DEF TypeOK, StepInv
<1>3. DiskInv' /\ SpacingInv' /\ AgeInv'
  BY DEF DiskInv, SpacingInv, AgeInv
<1> QED
  BY <1>2, <1>3, GoneFacts

LEMMA LeaveInv == Inv /\ Leave => Inv'
BY GoneInv DEF Leave, Inv, TypeOK

LEMMA CrashInv == Inv /\ Crash => Inv'
BY GoneInv, FaultType DEF Crash, Inv

LEMMA RefreshInv == Inv /\ Refresh => Inv'
<1> SUFFICES ASSUME Inv, Refresh PROVE Inv'
  OBVIOUS
<1> USE DEF Inv, Refresh, disk, list, posts, spacing
<1>1. TypeOK' /\ StepInv' /\ SpacingInv'
  BY DEF TypeOK, StepInv, SpacingInv
<1>2. DiskInv' /\ AgeInv'
  BY DEF DiskInv, AgeInv
<1> QED
  BY <1>1, <1>2, TurnIsKept

LEMMA EmitTickInv == Inv /\ EmitTick => Inv'
<1> SUFFICES ASSUME Inv, EmitTick PROVE Inv'
  OBVIOUS
<1> USE DEF Inv, disk, spacing
<1>1. /\ pc \in {"looping", "ticking"} /\ pc' = "posting" /\ sampled' = clock
      /\ waiting' = watched \cup Slice(bulk_ids, bulk_cursor)
      /\ bulk_cursor' = NextCursor(bulk_ids, bulk_cursor)
      /\ UNCHANGED <<clock, file, stamp, step, answer, bulk_ids, watched, last_refresh, fetched,
                     stale, wake, stop, sent, asked, kept, faults>>
  BY DEF EmitTick
<1>2. clock - last_refresh < FetchInterval
  BY ProducerAssumption DEF EmitTick, RefreshDue, TypeOK, AgeInv
<1>3. clock \in 0..MaxTime
  BY ProducerAssumption DEF TypeOK
<1>4. waited' \in [Sat -> Nat]
  BY DEF EmitTick, TypeOK
<1>5. bulk_cursor' \in Nat /\ Slice(bulk_ids, bulk_cursor) \subseteq Sat
  <2>1. CASE bulk_ids = <<>>
    BY <1>1, <2>1 DEF NextCursor, Slice, SliceSize, TypeOK
  <2>2. CASE bulk_ids # <<>>
    <3>1. bulk_ids \in Seq(Sat) /\ Len(bulk_ids) \in Nat \ {0} /\ bulk_cursor \in Nat
      BY <2>2 DEF TypeOK
    <3>2. SliceSize(Len(bulk_ids)) \in Nat
      BY <3>1, SliceFacts
    <3>3. \A i \in Nat : (bulk_cursor + i) % Len(bulk_ids) \in 0..(Len(bulk_ids) - 1)
      BY <3>1, Division
    <3> QED
      BY <1>1, <2>2, <3>1, <3>2, <3>3 DEF NextCursor, Slice
  <2> QED
    BY <2>1, <2>2
<1>6. TypeOK'
  BY <1>1, <1>3, <1>4, <1>5, ProducerAssumption DEF TypeOK
<1>7. StepInv' /\ DiskInv' /\ SpacingInv'
  BY <1>1 DEF StepInv, DiskInv, SpacingInv
<1>8. AgeInv'
  BY <1>1, <1>2 DEF AgeInv
<1> QED
  BY <1>6, <1>7, <1>8, EmitTurn

\* Requests start and end.
LEMMA RequestInv ==
  ASSUME Inv, NEW n \in Sat, Send(n) \/ PostEnds(n), faults' \in 0..MaxFaults
  PROVE  Inv'
<1> USE DEF Inv, Send, PostEnds, disk, list, spacing
<1>1. TypeOK' /\ StepInv'
  BY DEF TypeOK, StepInv
<1>2. DiskInv' /\ SpacingInv' /\ AgeInv'
  BY DEF DiskInv, SpacingInv, AgeInv
<1> QED
  BY <1>1, <1>2, TurnIsKept

LEMMA WaitInv ==
  ASSUME Inv, Sleep \/ Wake
  PROVE  Inv'
<1> USE DEF Inv, Sleep, Wake, disk, list, posts, spacing
<1>1. clock + TickSeconds \in 0..(MaxTime + TickSeconds) /\ 0 \in 0..(MaxTime + TickSeconds)
  BY ProducerAssumption DEF TypeOK
<1>2. TypeOK' /\ StepInv'
  BY <1>1 DEF TypeOK, StepInv
<1>3. DiskInv' /\ SpacingInv' /\ AgeInv'
  BY DEF DiskInv, SpacingInv, AgeInv
<1> QED
  BY <1>2, <1>3, TurnIsKept

\* A signal, or a fault of the service.
LEMMA SignalInv ==
  ASSUME Inv, Fault,
         stop' \in BOOLEAN, UNCHANGED <<clock, disk, pc, step, answer, list, wake, posts, spacing>>
  PROVE  Inv'
<1> USE DEF Inv, disk, list, posts, spacing
<1>1. TypeOK' /\ StepInv'
  BY FaultType DEF TypeOK, StepInv
<1>2. DiskInv' /\ SpacingInv' /\ AgeInv'
  BY DEF DiskInv, SpacingInv, AgeInv
<1> QED
  BY <1>1, <1>2, TurnIsKept

LEMMA ElapseInv == Inv /\ Elapse => Inv'
<1> SUFFICES ASSUME Inv, Elapse PROVE Inv'
  OBVIOUS
<1> USE DEF Inv, Elapse, disk, list, posts, spacing
<1>1. clock + 1 \in FetchInterval..MaxTime
  BY ProducerAssumption DEF TypeOK
<1>2. TypeOK' /\ StepInv'
  BY <1>1 DEF TypeOK, StepInv
<1>3. DiskInv' /\ SpacingInv' /\ AgeInv'
  BY ProducerAssumption DEF DiskInv, SpacingInv, AgeInv, TypeOK
<1> QED
  BY <1>2, <1>3, TurnIsKept

LEMMA NextInv == Inv /\ [Next]_producer => Inv'
<1> SUFFICES ASSUME Inv, [Next]_producer PROVE Inv'
  OBVIOUS
<1>1. CASE UNCHANGED producer
  BY <1>1, TurnIsKept
     DEF producer, running, disk, list, posts, spacing, Inv, TypeOK, StepInv, DiskInv,
         SpacingInv, AgeInv
<1>2. CASE Alone
  <2>1. ASSUME Signal PROVE Inv'
    BY <2>1, SignalInv DEF Signal
  <2> QED
    BY <1>2, <2>1, StartInv, UsePreviousInv, AskInv, AnsweredInv, WriteFileInv, WriteStampInv,
       StampFailsInv, FetchFailsInv, LeaveInv, RefreshInv, EmitTickInv, WaitInv, ElapseInv
       DEF Alone
<1>3. CASE Requests
  <2>1. CASE Crash
    BY <2>1, CrashInv
  <2>2. CASE (\E n \in Sat : Send(n) \/ PostEnds(n)) /\ (UNCHANGED faults \/ Fault)
    <3>1. faults' \in 0..MaxFaults
      BY <2>2, FaultType DEF Inv, TypeOK
    <3> QED
      BY <2>2, <3>1, RequestInv
  <2>3. CASE UNCHANGED running /\ Fault
    BY <2>3, SignalInv DEF running, Inv, TypeOK
  <2> QED
    BY <1>3, <2>1, <2>2, <2>3 DEF Requests
<1> QED
  BY <1>1, <1>2, <1>3 DEF Next

LEMMA InvAlways == Spec => []Inv
BY InitInv, NextInv, PTL DEF Spec

-----------------------------------------------------------------------------
(* The properties.                                                         *)

\* A satellite waits for less than a round of slices.
LEMMA TurnsFollow == Inv => EachInTurn
<1> SUFFICES ASSUME Inv, NEW n \in Range(bulk_ids)
             PROVE  waited[n] * SliceSize(Len(bulk_ids)) < Len(bulk_ids)
  BY DEF EachInTurn
<1> DEFINE len == Len(bulk_ids)
<1>1. bulk_ids \in Seq(Sat) /\ bulk_cursor \in Nat
  BY DEF Inv, TypeOK
<1>2. PICK k \in 0..(len - 1) : n = bulk_ids[k + 1]
  <2>1. PICK i \in 1..len : n = bulk_ids[i]
    BY <1>1 DEF Range
  <2> QED
    BY <1>1, <2>1
<1>3. len \in Nat \ {0} /\ n \in Sat
  BY <1>1, <1>2
<1>4. waited[n] \in Nat /\ SliceSize(len) \in Nat
  BY <1>3, SliceFacts DEF Inv, TypeOK
<1>5. Way(len, bulk_cursor, k) \in Nat
  <2>1. bulk_cursor % len \in 0..(len - 1)
    BY <1>1, <1>3, Division
  <2> QED
    BY <1>3, <2>1 DEF Way
<1>6. waited[n] * SliceSize(len) + Way(len, bulk_cursor, k) < len
  BY <1>2 DEF Inv, TurnInv
<1> HIDE DEF len
<1>7. waited[n] * SliceSize(len) \in Nat
  BY <1>4
<1> QED
  BY <1>3, <1>5, <1>6, <1>7 DEF len

\* The files, the lists and the loop are always as declared.
THEOREM TypesCorrect == Spec => []TypeOK
<1>1. Inv => TypeOK
  BY DEF Inv
<1> QED
  BY <1>1, InvAlways, PTL

\* A throttled start finds the whole file of the last fetch, wherever the
\* process died: the timestamp is written last.
THEOREM ThrottledFilesAreWhole == Spec => []ThrottledFileIsWhole
<1>1. Inv => ThrottledFileIsWhole
  <2> SUFFICES ASSUME Inv, Throttled PROVE file.state = "whole" /\ file.at >= stamp
    BY DEF ThrottledFileIsWhole
  <2>1. ~(clock - stamp >= FetchInterval)
    BY ProducerAssumption DEF Throttled, Inv, TypeOK
  <2> QED
    BY <2>1 DEF Inv, DiskInv
<1> QED
  BY <1>1, InvAlways, PTL

\* Celestrak sends two catalogues no closer than the interval, whatever is
\* restarted, unless the time of the first did not get to the disk.
THEOREM FetchesSpaced == Spec => FetchesAreSpaced
<1>1. Inv /\ [Next]_producer => [asked' # asked /\ kept => asked' - asked >= FetchInterval]_producer
  <2> SUFFICES ASSUME Inv, Next, asked' # asked, kept PROVE asked' - asked >= FetchInterval
    OBVIOUS
  <2>1. PICK ids \in Catalogue : Answered(ids)
    BY DEF Next, Alone, Requests, Start, UsePrevious, Ask, WriteFile, WriteStamp, StampFails,
           FetchFails, Leave, Gone, Refresh, EmitTick, Sleep, Wake, Signal, Elapse, Crash, Send,
           PostEnds, running, spacing
  <2>2. clock - stamp >= FetchInterval /\ asked' = clock /\ asked <= stamp
    BY <2>1 DEF Answered, Inv, DiskInv, SpacingInv
  <2> QED
    BY <2>2, ProducerAssumption DEF Inv, TypeOK
<1> QED
  BY <1>1, InvAlways, PTL DEF Spec, FetchesAreSpaced

\* While refreshes succeed, no sample is computed from elements that are two
\* intervals old.
THEOREM ElementsRecent == Spec => []ElementsAreRecent
<1>1. Inv => ElementsAreRecent
  BY ProducerAssumption DEF Inv, AgeInv, TypeOK, ElementsAreRecent
<1> QED
  BY <1>1, InvAlways, PTL

\* The cursor leaves no satellite out, whatever the length of the list, the
\* tick and the cadence, and wherever the last list left the cursor.
THEOREM TurnsCome == Spec => []EachInTurn
BY TurnsFollow, InvAlways, PTL

\* How long the whole bulk catalog takes to cycle (main.py:51-58), for every
\* tick, cadence and length of the list: a satellite is left out of fewer than
\* 1000 / Permille slices in a row.  With the 5 and 30 seconds of the
\* configuration (166 thousandths) that is up to 6, and its turn comes 35
\* seconds after the last one, not 30.
THEOREM WaitsAreBounded == Spec => [](\A n \in Range(bulk_ids) : waited[n] * Permille < 1000)
<1>1. Inv => \A n \in Range(bulk_ids) : waited[n] * Permille < 1000
  <2> SUFFICES ASSUME Inv, NEW n \in Range(bulk_ids)
               PROVE  waited[n] * Permille < 1000
    OBVIOUS
  <2> DEFINE len == Len(bulk_ids)
             size == SliceSize(len)
             w == waited[n]
  <2>1. w * size < len
    BY TurnsFollow DEF EachInTurn
  <2>2. bulk_ids \in Seq(Sat) /\ len \in Nat /\ n \in Sat /\ w \in Nat
    BY DEF Inv, TypeOK, Range
  <2>3. size \in Nat /\ 1000 * size >= len * Permille
    BY <2>2, SliceFacts
  <2> HIDE DEF len, size, w
  <2>4. Permille \in Nat
    BY PermilleIsNat
  <2> DEFINE p == w * Permille
  <2>5. p \in Nat /\ w * size \in Nat /\ len \in Nat \ {0}
    BY <2>1, <2>2, <2>3, <2>4
  <2>6. w * (len * Permille) = len * p /\ w * (1000 * size) = 1000 * (w * size)
    BY <2>2, <2>3, <2>4
  <2>7. w * (1000 * size) >= w * (len * Permille)
    BY <2>2, <2>3, <2>4, Product
  <2> HIDE DEF p
  <2>8. p < 1000
    <3> SUFFICES ASSUME p >= 1000 PROVE FALSE
      BY <2>5
    <3>1. len * p >= len * 1000
      BY <2>5, Product
    <3> QED
      BY <2>1, <2>5, <2>6, <2>7, <3>1
  <2> QED
    BY <2>8 DEF p, w
<1> QED
  BY <1>1, InvAlways, PTL
-----------------------------------------------------------------------------
(* The producer with the service.                                          *)

RecordsOK ==
  /\ api \in {"up", "stopping", "down"}
  /\ handling \subseteq Sample
  /\ queue \in [Sat -> Seq(0..MaxTime)]
  /\ newest \in [Sat -> 0..MaxTime]
  /\ promised \subseteq Sample
  /\ abandoned \subseteq Sample

\* A tick is later than the one before, and awaits its requests.
TicksAreApart ==
  /\ sampled <= clock
  /\ \/ pc \in {"starting", "refreshing", "ticking"}
     \/ pc = "looping" /\ ~stop
     => sampled < clock
  /\ pc = "sleeping" => sampled < wake
  /\ pc # "posting" => waiting = {} /\ sent = {}

\* Nothing is newer than the tick.
PastOnly ==
  /\ \A r \in handling : r.at <= sampled
  /\ \A n \in Sat : newest[n] <= sampled
  /\ \A n \in Sat : \A i \in DOMAIN queue[n] : queue[n][i] <= sampled

\* A sample is in one place.
InOnePlace ==
  /\ \A r \in handling : \A i \in DOMAIN queue[r.sat] : queue[r.sat][i] # r.at
  /\ \A n \in Sat : \A i, j \in DOMAIN queue[n] : queue[n][i] = queue[n][j] => i = j

\* A request in a handler has a client that waits for it, or is abandoned.
ClientsWait ==
  \A r \in handling : r \in abandoned \/ (r.sat \in sent /\ r.at = sampled)

\* Everything of the satellite in the queue and the topic is older.
OlderOnly(n) ==
  /\ newest[n] < sampled
  /\ \A i \in DOMAIN queue[n] : queue[n][i] < sampled

\* The sample of this tick is still to come.
StillToCome ==
  \A n \in Sat :
    /\ n \in waiting \/ Current(n) \in handling => OlderOnly(n)
    /\ n \in waiting => Current(n) \notin handling

OrderInv == RecordsOK /\ PastOnly /\ InOnePlace /\ ClientsWait /\ StillToCome /\ TopicInOrder

IngestInv == Inv /\ TicksAreApart /\ OrderInv /\ AcceptedIsKept

-----------------------------------------------------------------------------
(* The producer in the composition.                                        *)

LEMMA IngestInitInv == IngestInit => IngestInv
<1> SUFFICES ASSUME IngestInit PROVE IngestInv
  OBVIOUS
<1> USE ProducerAssumption DEF IngestInit
<1>1. Inv
  BY InitInv
<1>2. \A n \in Sat : queue[n] = <<>>
  BY DEF EmptyQueue
<1>3. RecordsOK
  BY DEF RecordsOK, EmptyQueue
<1>4. TicksAreApart
  BY DEF Init, TicksAreApart
<1>5. PastOnly /\ InOnePlace /\ ClientsWait
  BY <1>2 DEF Init, PastOnly, InOnePlace, ClientsWait
<1>6. StillToCome /\ TopicInOrder /\ AcceptedIsKept
  BY <1>2 DEF Init, StillToCome, TopicInOrder, AcceptedIsKept
<1> QED
  BY <1>1, <1>3, <1>4, <1>5, <1>6 DEF IngestInv, OrderInv

LEMMA ReplyRequests ==
  ASSUME RecordsOK, NEW r \in handling, Reply(r), UNCHANGED faults \/ Fault
  PROVE  [Next]_producer
<1>1. r.sat \in Sat
  BY DEF RecordsOK, Sample
<1>2. CASE PostEnds(r.sat)
  BY <1>1, <1>2 DEF Next, Requests
<1>3. CASE UNCHANGED running
  BY <1>3 DEF Next, Requests, producer
<1> QED
  BY <1>2, <1>3 DEF Reply

\* Each step of the composition is one of the producer, or none of its own.
LEMMA IngestStep == RecordsOK /\ [IngestNext]_<<producer, service>> => [Next]_producer
<1> SUFFICES ASSUME RecordsOK, [IngestNext]_<<producer, service>> PROVE [Next]_producer
  OBVIOUS
<1>1. CASE UNCHANGED <<producer, service>>
  BY <1>1
<1>2. CASE Alone
  BY <1>2 DEF Next
<1>3. ASSUME NEW n \in Sat, Post(n) \/ PostFails(n) \/ PostTimesOut(n) PROVE Next
  BY <1>3 DEF Post, PostFails, PostTimesOut, Next, Requests
<1>4. CASE ProducerCrash
  BY <1>4 DEF ProducerCrash, Next, Requests
<1>5. ASSUME NEW r \in handling, Accept(r) PROVE [Next]_producer
  BY <1>5, ReplyRequests DEF Accept
<1>6. ASSUME NEW r \in handling, Refuse(r) PROVE [Next]_producer
  BY <1>6, ReplyRequests DEF Refuse
<1>7. ASSUME NEW n \in Sat, Deliver(n) PROVE UNCHANGED producer
  BY <1>7 DEF Deliver
<1>8. ASSUME NEW n \in Sat, Expire(n) PROVE Next
  BY <1>8 DEF Expire, Next, Requests
<1>9. CASE ApiStart \/ Flushed
  BY <1>9 DEF ApiStart, Flushed
<1>10. CASE ApiSignal \/ QueueLost
  BY <1>10 DEF ApiSignal, QueueLost, Next, Requests
<1> QED
  BY <1>1, <1>2, <1>3, <1>4, <1>5, <1>6, <1>7, <1>8, <1>9, <1>10 DEF IngestNext

LEMMA TicksStep == Inv /\ TicksAreApart /\ [Next]_producer => TicksAreApart'
<1> SUFFICES ASSUME Inv, TicksAreApart, [Next]_producer PROVE TicksAreApart'
  OBVIOUS
<1> USE ProducerAssumption DEF TicksAreApart, disk, list, posts, spacing
<1>0. /\ clock \in Int /\ sampled \in Int /\ wake \in Int /\ TickSeconds \in Nat \ {0}
      /\ stop \in BOOLEAN
      /\ step # "none" <=> pc \in {"starting", "refreshing"}
  BY DEF Inv, TypeOK, StepInv
<1>1. CASE UNCHANGED producer
  BY <1>1 DEF producer, running
<1>2. CASE Start
  BY <1>2 DEF Start
<1>3. ASSUME NEW ids, NEW at, UseCatalogue(ids, at), step # "none",
             UNCHANGED <<clock, wake, stop, posts>>
      PROVE  TicksAreApart'
  BY <1>0, <1>3 DEF UseCatalogue
<1>4. CASE UsePrevious
  BY <1>3, <1>4 DEF UsePrevious
<1>5. CASE WriteStamp \/ StampFails
  BY <1>3, <1>5 DEF WriteStamp, StampFails
<1>6. CASE Ask \/ WriteFile \/ (\E ids \in Catalogue : Answered(ids))
  BY <1>0, <1>6 DEF Ask, WriteFile, Answered
<1>7. CASE FetchFails
  BY <1>0, <1>7 DEF FetchFails
<1>8. CASE Leave \/ Crash
  BY <1>8 DEF Leave, Crash, Gone
<1>9. CASE Refresh
  BY <1>9 DEF Refresh
<1>10. CASE EmitTick
  BY <1>0, <1>10 DEF EmitTick
<1>11. CASE Sleep
  BY <1>0, <1>11 DEF Sleep
<1>12. CASE Wake
  BY <1>0, <1>12 DEF Wake
<1>13. CASE Signal
  BY <1>0, <1>13 DEF Signal
<1>14. CASE Elapse
  BY <1>0, <1>14 DEF Elapse
<1>15. ASSUME NEW n \in Sat, Send(n) \/ PostEnds(n) PROVE TicksAreApart'
  BY <1>15 DEF Send, PostEnds
<1>16. CASE UNCHANGED running
  BY <1>16 DEF running
<1> QED
  BY <1>1, <1>2, <1>4, <1>5, <1>6, <1>7, <1>8, <1>9, <1>10, <1>11, <1>12, <1>13, <1>14, <1>15,
     <1>16
     DEF Next, Alone, Requests

-----------------------------------------------------------------------------
(* The samples.                                                            *)

LEMMA ElementType ==
  ASSUME NEW S, NEW seq \in Seq(S), NEW i \in DOMAIN seq
  PROVE  seq[i] \in S
OBVIOUS

LEMMA TailFacts ==
  ASSUME NEW S, NEW seq \in Seq(S), seq # <<>>
  PROVE  /\ Tail(seq) \in Seq(S) /\ Len(Tail(seq)) = Len(seq) - 1 /\ Head(seq) = seq[1]
         /\ Len(seq) \in Nat \ {0} /\ DOMAIN seq = 1..Len(seq)
         /\ DOMAIN Tail(seq) = 1..(Len(seq) - 1)
         /\ \A i \in 1..(Len(seq) - 1) : Tail(seq)[i] = seq[i + 1]
<1>1. Len(seq) \in Nat \ {0} /\ DOMAIN seq = 1..Len(seq)
  OBVIOUS
<1>2. Tail(seq) \in Seq(S) /\ Len(Tail(seq)) = Len(seq) - 1
  OBVIOUS
<1>3. Head(seq) = seq[1]
  OBVIOUS
<1>4. DOMAIN Tail(seq) = 1..(Len(seq) - 1)
  BY <1>2
<1>5. \A i \in 1..(Len(seq) - 1) : Tail(seq)[i] = seq[i + 1]
  OBVIOUS
<1> QED
  BY <1>1, <1>2, <1>3, <1>4, <1>5

LEMMA QueueType ==
  ASSUME RecordsOK, NEW n \in Sat
  PROVE  /\ queue[n] \in Seq(0..MaxTime)
         /\ \A i \in DOMAIN queue[n] : queue[n][i] \in Nat
<1>1. queue[n] \in Seq(0..MaxTime)
  BY DEF RecordsOK
<1>2. \A i \in DOMAIN queue[n] : queue[n][i] \in 0..MaxTime
  BY <1>1, ElementType
<1> QED
  BY <1>1, <1>2

\* A step that leaves the posts and the service alone.
LEMMA OrderIsKept ==
  ASSUME OrderInv, UNCHANGED <<posts, handling, queue, newest, abandoned>>,
         api' \in {"up", "stopping", "down"}, promised' \subseteq Sample
  PROVE  OrderInv'
BY DEF OrderInv, posts, RecordsOK, PastOnly, InOnePlace, ClientsWait, StillToCome, OlderOnly,
       Current, TopicInOrder

\* The tick before had its answers, and the samples of this one are newer
\* than all that is under way, queued or in the topic.
LEMMA EmitOrder ==
  ASSUME IngestInv, EmitTick, UNCHANGED service
  PROVE  OrderInv'
<1> USE DEF IngestInv, OrderInv, service, records
<1>1. sampled < sampled' /\ sampled' = clock /\ sent = {} /\ sent' = {}
  BY DEF EmitTick, TicksAreApart
<1>2. sampled \in Nat /\ sampled' \in Nat
  BY <1>1, ProducerAssumption DEF Inv, TypeOK
<1>3. RecordsOK' /\ InOnePlace' /\ TopicInOrder'
  BY DEF RecordsOK, InOnePlace, TopicInOrder
<1>4. ClientsWait'
  BY <1>1 DEF ClientsWait
<1>5. \A r \in handling : r.at \in Nat /\ r.at < sampled'
  BY <1>1, <1>2 DEF PastOnly, RecordsOK, Sample
<1>6. \A n \in Sat : newest[n] \in Nat /\ newest[n] < sampled'
  BY <1>1, <1>2 DEF PastOnly, RecordsOK
<1>7. \A n \in Sat : \A i \in DOMAIN queue[n] : queue[n][i] \in Nat /\ queue[n][i] < sampled'
  BY <1>1, <1>2, QueueType DEF PastOnly
<1>8. PastOnly'
  BY <1>2, <1>5, <1>6, <1>7 DEF PastOnly
<1>9. StillToCome'
  BY <1>2, <1>5, <1>6, <1>7 DEF StillToCome, OlderOnly, Current
<1> QED
  BY <1>3, <1>4, <1>8, <1>9

LEMMA AloneOrder ==
  ASSUME IngestInv, Alone, UNCHANGED service
  PROVE  OrderInv'
<1>1. CASE EmitTick
  BY <1>1, EmitOrder
<1>2. CASE Leave
  <2>1. UNCHANGED posts
    BY <1>2 DEF Leave, Gone, posts, IngestInv, TicksAreApart
  <2> QED
    BY <2>1, OrderIsKept DEF service, records, IngestInv, OrderInv, RecordsOK
<1>3. CASE UNCHANGED posts
  BY <1>3, OrderIsKept DEF service, records, IngestInv, OrderInv, RecordsOK
<1> QED
  BY <1>1, <1>2, <1>3
     DEF Alone, Start, UsePrevious, Ask, Answered, WriteFile, WriteStamp, StampFails, FetchFails,
         Refresh, Sleep, Wake, Signal, Elapse

LEMMA CurrentType ==
  ASSUME Inv, NEW n \in Sat
  PROVE  Current(n) \in Sample /\ Current(n).sat = n /\ Current(n).at = sampled /\ sampled \in Nat
BY ProducerAssumption DEF Inv, TypeOK, Current, Sample

LEMMA PostOrder ==
  ASSUME IngestInv, NEW n \in Sat, Post(n)
  PROVE  OrderInv'
<1> USE CurrentType DEF IngestInv, OrderInv, records
<1>1. /\ n \in waiting /\ waiting' = waiting \ {n} /\ sent' = sent \cup {n} /\ sampled' = sampled
      /\ handling' \subseteq handling \cup {Current(n)}
      /\ UNCHANGED <<api, queue, newest, promised, abandoned>>
  BY DEF Post, Send
<1>2. OlderOnly(n) /\ Current(n) \notin handling
  BY <1>1 DEF StillToCome
<1>3. RecordsOK' /\ TopicInOrder'
  BY <1>1 DEF RecordsOK, TopicInOrder
<1>4. PastOnly'
  BY <1>1 DEF PastOnly
<1>5. InOnePlace'
  <2>1. \A i \in DOMAIN queue[n] : queue[n][i] # sampled
    BY <1>2 DEF OlderOnly
  <2> QED
    BY <1>1, <2>1 DEF InOnePlace
<1>6. ClientsWait'
  BY <1>1 DEF ClientsWait
<1>7. StillToCome'
  BY <1>1, <1>2 DEF StillToCome, OlderOnly, Current
<1> QED
  BY <1>3, <1>4, <1>5, <1>6, <1>7

\* A client goes away, and what is left of its request is abandoned.
LEMMA ClientGone ==
  ASSUME IngestInv, sent' \subseteq sent, waiting' \subseteq waiting, sampled' = sampled,
         UNCHANGED <<api, handling, records>>,
         abandoned \subseteq abandoned', abandoned' \subseteq Sample,
         \A n \in Sat : n \in sent \ sent' /\ Current(n) \in handling => Current(n) \in abandoned'
  PROVE  OrderInv'
<1> USE DEF IngestInv, OrderInv, records
<1>1. RecordsOK' /\ PastOnly' /\ InOnePlace'
  BY DEF RecordsOK, PastOnly, InOnePlace
<1>2. ClientsWait'
  <2> SUFFICES ASSUME NEW r \in handling, r \notin abandoned'
               PROVE  r.sat \in sent' /\ r.at = sampled
    BY DEF ClientsWait
  <2>1. r.sat \in sent /\ r.at = sampled
    BY DEF ClientsWait
  <2>2. r.sat \in Sat /\ r = Current(r.sat)
    BY <2>1 DEF RecordsOK, Sample, Current
  <2> QED
    BY <2>1, <2>2
<1>3. StillToCome'
  BY DEF StillToCome, OlderOnly, Current
<1>4. TopicInOrder'
  BY DEF TopicInOrder
<1> QED
  BY <1>1, <1>2, <1>3, <1>4

LEMMA PostEndsOrder ==
  ASSUME IngestInv, NEW n \in Sat, PostFails(n) \/ PostTimesOut(n)
  PROVE  OrderInv'
<1>1. sent' = sent \ {n} /\ waiting' = waiting /\ sampled' = sampled
  BY DEF PostFails, PostTimesOut, PostEnds
<1>2. UNCHANGED <<api, handling, records>>
  BY DEF PostFails, PostTimesOut, service
<1>3. abandoned \subseteq abandoned' /\ abandoned' \subseteq Sample
  BY CurrentType DEF PostFails, PostTimesOut, service, IngestInv, OrderInv, RecordsOK
<1>4. Current(n) \in handling => Current(n) \in abandoned'
  BY DEF PostFails, PostTimesOut
<1> QED
  BY <1>1, <1>2, <1>3, <1>4, ClientGone

LEMMA CrashOrder ==
  ASSUME IngestInv, ProducerCrash
  PROVE  OrderInv'
<1>1. sent' = {} /\ waiting' = {} /\ sampled' = sampled /\ UNCHANGED <<api, handling, records>>
  BY DEF ProducerCrash, Crash, Gone
<1>2. abandoned' = abandoned \cup {r \in handling : r.sat \in sent /\ r = Current(r.sat)}
  BY DEF ProducerCrash
<1>3. abandoned \subseteq abandoned' /\ abandoned' \subseteq Sample
  BY <1>2 DEF IngestInv, OrderInv, RecordsOK
<1>4. \A n \in Sat : n \in sent /\ Current(n) \in handling => Current(n) \in abandoned'
  BY <1>2 DEF Current
<1> QED
  BY <1>1, <1>3, <1>4, ClientGone

\* The answer ends the request in the handler, and the client's if it waits.
LEMMA ReplyFacts ==
  ASSUME IngestInv, NEW r \in handling, Reply(r)
  PROVE  /\ r \in Sample /\ handling' = handling \ {r}
         /\ waiting' = waiting /\ sampled' = sampled
         /\ sent' \in {sent, sent \ {r.sat}}
         /\ sent' # sent => r = Current(r.sat)
BY DEF Reply, PostEnds, running, posts, IngestInv, OrderInv, RecordsOK

\* A request that is answered leaves the other clients waiting.
LEMMA ReplyClients ==
  ASSUME IngestInv, NEW r \in handling, Reply(r), abandoned \ {r} \subseteq abandoned'
  PROVE  ClientsWait'
<1> SUFFICES ASSUME NEW q \in handling, q # r, q \notin abandoned
             PROVE  q.sat \in sent' /\ q.at = sampled
  BY ReplyFacts DEF ClientsWait
<1>1. q.sat \in sent /\ q.at = sampled
  BY DEF IngestInv, OrderInv, ClientsWait
<1>2. q \in Sample /\ r \in Sample
  BY DEF IngestInv, OrderInv, RecordsOK
<1>3. sent' # sent => q.sat # r.sat
  BY <1>1, <1>2, ReplyFacts DEF Current, Sample
<1> QED
  BY <1>1, <1>3, ReplyFacts

LEMMA RefuseOrder ==
  ASSUME IngestInv, NEW r \in handling, Refuse(r)
  PROVE  OrderInv'
<1> USE DEF IngestInv, OrderInv, records
<1>1. /\ abandoned' = abandoned \ {r} /\ Reply(r)
      /\ UNCHANGED <<api, queue, newest, promised>>
  BY DEF Refuse
<1>2. /\ r \in Sample /\ handling' = handling \ {r}
      /\ waiting' = waiting /\ sampled' = sampled
  BY <1>1, ReplyFacts
<1>3. RecordsOK' /\ PastOnly' /\ InOnePlace'
  BY <1>1, <1>2 DEF RecordsOK, PastOnly, InOnePlace
<1>4. ClientsWait'
  BY <1>1, ReplyClients
<1>5. StillToCome'
  BY <1>1, <1>2 DEF StillToCome, OlderOnly, Current
<1>6. TopicInOrder'
  <2>1. \A n \in Sat : \A i \in DOMAIN queue[n] : [sat |-> n, at |-> queue[n][i]] # r
    BY DEF InOnePlace
  <2> QED
    BY <1>1, <2>1 DEF TopicInOrder
<1> QED
  BY <1>3, <1>4, <1>5, <1>6

\* A sample that is accepted comes after all that is queued of its satellite,
\* unless it is abandoned.
LEMMA AcceptOrder ==
  ASSUME IngestInv, NEW r \in handling, Accept(r)
  PROVE  OrderInv'
<1> USE DEF IngestInv, OrderInv, records
<1> DEFINE s == r.sat
           old == queue[s]
           new == Append(old, r.at)
<1>1. /\ abandoned' = abandoned /\ Reply(r) /\ UNCHANGED <<api, newest>>
      /\ queue' = [queue EXCEPT ![s] = new] /\ promised' = promised \cup {r}
  BY DEF Accept, Enqueued
<1>2. /\ r \in Sample /\ handling' = handling \ {r}
      /\ waiting' = waiting /\ sampled' = sampled
  BY <1>1, ReplyFacts
<1>3. s \in Sat /\ r.at \in 0..MaxTime /\ r = [sat |-> s, at |-> r.at]
  BY <1>2 DEF Sample
<1>4. old \in Seq(0..MaxTime) /\ \A i \in DOMAIN old : old[i] \in Nat
  BY <1>3, QueueType
<1>5. /\ new \in Seq(0..MaxTime) /\ Len(new) = Len(old) + 1 /\ new[Len(old) + 1] = r.at
      /\ DOMAIN new = 1..(Len(old) + 1) /\ DOMAIN old = 1..Len(old) /\ Len(old) \in Nat
      /\ \A i \in DOMAIN old : new[i] = old[i]
  BY <1>3, <1>4
<1>6. queue'[s] = new /\ \A n \in Sat : n # s => queue'[n] = queue[n]
  BY <1>1, <1>3 DEF RecordsOK
<1> HIDE DEF new, s, old
<1>7. RecordsOK'
  BY <1>1, <1>2, <1>3, <1>5 DEF RecordsOK
<1>8. PastOnly'
  <2>1. \A i \in DOMAIN new : new[i] <= sampled
    BY <1>3, <1>5 DEF PastOnly, s, old
  <2> QED
    BY <1>1, <1>2, <1>6, <2>1 DEF PastOnly
<1>9. InOnePlace'
  <2>1. \A q \in handling : q # r /\ q.sat = s => q.at # r.at
    BY <1>3 DEF RecordsOK, Sample
  <2>2. \A i \in DOMAIN old : old[i] # r.at
    BY DEF InOnePlace, s, old
  <2>3. \A i, j \in DOMAIN new : new[i] = new[j] => i = j
    BY <1>3, <1>5, <2>2 DEF InOnePlace, old
  <2>4. \A q \in handling' : \A i \in DOMAIN queue'[q.sat] : queue'[q.sat][i] # q.at
    <3> SUFFICES ASSUME NEW q \in handling, q # r, NEW i \in DOMAIN queue'[q.sat]
                 PROVE  queue'[q.sat][i] # q.at
      BY <1>2
    <3>1. q.sat \in Sat
      BY DEF RecordsOK, Sample
    <3>2. CASE q.sat = s
      <4>1. queue'[q.sat] = new /\ i \in DOMAIN new
        BY <1>6, <3>1, <3>2
      <4>2. q.at # r.at
        BY <2>1, <3>2
      <4>3. \A j \in DOMAIN old : old[j] # q.at
        BY <3>2 DEF InOnePlace, old
      <4> QED
        BY <1>5, <4>1, <4>2, <4>3
    <3>3. CASE q.sat # s
      BY <1>6, <3>1, <3>3 DEF InOnePlace
    <3> QED
      BY <3>2, <3>3
  <2> QED
    BY <1>6, <2>3, <2>4 DEF InOnePlace
<1>10. ClientsWait'
  BY <1>1, ReplyClients
<1>11. StillToCome'
  <2> SUFFICES ASSUME NEW n \in Sat, n \in waiting \/ Current(n) \in handling'
               PROVE  OlderOnly(n)' /\ (n \in waiting => Current(n) \notin handling')
    BY <1>2 DEF StillToCome, Current
  <2>1. OlderOnly(n) /\ (n \in waiting => Current(n) \notin handling)
    BY <1>2 DEF StillToCome
  <2>2. CASE n # s
    BY <1>1, <1>2, <1>6, <2>1, <2>2 DEF OlderOnly
  <2>3. CASE n = s
    <3>1. r # Current(n)
      BY <1>2, <2>1
    <3>2. r.at # sampled
      BY <1>3, <2>3, <3>1 DEF Current
    <3>3. r.at < sampled
      <4>1. r.at <= sampled
        BY DEF PastOnly
      <4>2. r.at \in Nat /\ sampled \in Nat
        BY <1>3, <2>3, CurrentType
      <4> QED
        BY <3>2, <4>1, <4>2
    <3>4. \A i \in DOMAIN new : new[i] < sampled
      BY <1>5, <2>1, <2>3, <3>3 DEF OlderOnly, old
    <3> QED
      BY <1>1, <1>2, <1>6, <2>1, <2>3, <3>4 DEF OlderOnly
  <2> QED
    BY <2>2, <2>3
<1>12. TopicInOrder'
  <2> SUFFICES ASSUME NEW n \in Sat, NEW i \in DOMAIN queue'[n],
                      [sat |-> n, at |-> queue'[n][i]] \notin abandoned
               PROVE  /\ queue'[n][i] > newest[n]
                      /\ \A j \in 1..(i - 1) : queue'[n][j] < queue'[n][i]
    BY <1>1 DEF TopicInOrder
  <2>1. CASE n # s
    BY <1>6, <2>1 DEF TopicInOrder
  <2>2. CASE n = s /\ i \in DOMAIN old
    <3>1. /\ old[i] > newest[s]
          /\ \A j \in 1..(i - 1) : old[j] < old[i]
      BY <1>5, <1>6, <2>2 DEF TopicInOrder, old
    <3>2. \A j \in 1..(i - 1) : j \in DOMAIN old
      BY <1>5, <2>2
    <3> QED
      BY <1>5, <1>6, <2>2, <3>1, <3>2
  <2>3. CASE n = s /\ i \notin DOMAIN old
    <3>1. i = Len(old) + 1 /\ queue'[n][i] = r.at
      BY <1>5, <1>6, <2>3
    <3>2. r \notin abandoned
      BY <1>3, <2>3, <3>1
    <3>3. r.at = sampled /\ r = Current(s)
      BY <1>3, <3>2 DEF ClientsWait, Current
    <3>4. OlderOnly(s)
      BY <1>3, <3>3 DEF StillToCome
    <3> QED
      BY <1>3, <1>5, <1>6, <2>3, <3>1, <3>3, <3>4 DEF OlderOnly, RecordsOK, old
  <2> QED
    BY <2>1, <2>2, <2>3
<1> QED
  BY <1>7, <1>8, <1>9, <1>10, <1>11, <1>12

\* The first sample of a queue leaves it, for the topic or for good.
LEMMA HeadGone ==
  ASSUME IngestInv, NEW n \in Sat, queue[n] # <<>>,
         queue' = [queue EXCEPT ![n] = Tail(@)],
         newest' = newest \/ newest' = [newest EXCEPT ![n] = Later(@, Head(queue[n]))],
         promised' = promised \ {First(n)}, abandoned' = abandoned \ {First(n)},
         UNCHANGED <<api, handling, posts>>
  PROVE  OrderInv'
<1> USE DEF IngestInv, OrderInv, posts
<1> DEFINE old == queue[n]
           new == Tail(old)
           first == old[1]
<1>1. old \in Seq(0..MaxTime) /\ \A i \in DOMAIN old : old[i] \in Nat
  BY QueueType
<1>2. /\ new \in Seq(0..MaxTime) /\ Len(old) \in Nat \ {0} /\ Len(new) = Len(old) - 1
      /\ DOMAIN new = 1..(Len(old) - 1) /\ DOMAIN old = 1..Len(old)
      /\ \A i \in DOMAIN new : new[i] = old[i + 1]
      /\ Head(old) = first
  BY <1>1, TailFacts
<1>3. first \in 0..MaxTime /\ First(n) = [sat |-> n, at |-> first]
  <2>1. 1 \in DOMAIN old
    BY <1>2
  <2>2. first \in 0..MaxTime
    BY <1>1, <2>1, ElementType
  <2> QED
    BY <2>2 DEF First
<1>4. queue'[n] = new /\ \A m \in Sat : m # n => queue'[m] = queue[m]
  BY DEF RecordsOK
<1>5. /\ \A m \in Sat : newest[m] \in Nat /\ newest'[m] \in Nat
      /\ \A m \in Sat : m # n => newest'[m] = newest[m]
      /\ newest'[n] \in {newest[n], first}
  BY <1>2, <1>3 DEF RecordsOK, Later
<1>6. newest' \in [Sat -> 0..MaxTime]
  BY <1>2, <1>3 DEF RecordsOK, Later
<1>7. \A i \in DOMAIN new : i + 1 \in DOMAIN old
  BY <1>2
<1> HIDE DEF new, first, old
<1>8. RecordsOK'
  <2>1. queue' \in [Sat -> Seq(0..MaxTime)]
    BY <1>2 DEF RecordsOK, old, new
  <2> QED
    BY <1>6, <2>1 DEF RecordsOK
<1>9. 1 \in DOMAIN old /\ first = queue[n][1] /\ DOMAIN old = DOMAIN queue[n]
  BY <1>2 DEF old, first
<1>10. PastOnly'
  <2>1. first <= sampled
    BY <1>9 DEF PastOnly
  <2>2. \A i \in DOMAIN new : new[i] <= sampled
    BY <1>2, <1>7 DEF PastOnly, old
  <2> QED
    BY <1>4, <1>5, <2>1, <2>2 DEF PastOnly
<1>11. InOnePlace'
  <2>1. \A i, j \in DOMAIN new : new[i] = new[j] => i = j
    <3> SUFFICES ASSUME NEW i \in DOMAIN new, NEW j \in DOMAIN new, new[i] = new[j]
                 PROVE  i = j
      OBVIOUS
    <3>1. i + 1 = j + 1
      BY <1>2, <1>7, SMTT(30) DEF InOnePlace, old
    <3> QED
      BY <1>2, <3>1
  <2>2. ASSUME NEW r \in handling, NEW i \in DOMAIN queue'[r.sat]
        PROVE  queue'[r.sat][i] # r.at
    <3>1. r.sat \in Sat
      BY DEF RecordsOK, Sample
    <3>2. CASE r.sat = n
      BY <1>2, <1>4, <1>7, <3>2 DEF InOnePlace, old
    <3>3. CASE r.sat # n
      BY <1>4, <3>1, <3>3 DEF InOnePlace
    <3> QED
      BY <3>2, <3>3
  <2> QED
    BY <1>4, <2>1, <2>2 DEF InOnePlace
<1>12. ClientsWait'
  <2>1. \A r \in handling : r # First(n)
    <3> SUFFICES ASSUME First(n) \in handling PROVE FALSE
      OBVIOUS
    <3>1. First(n).sat = n /\ First(n).at = first
      BY <1>3
    <3> QED
      BY <1>9, <3>1 DEF InOnePlace
  <2> QED
    BY <2>1 DEF ClientsWait
<1>13. StillToCome'
  <2> SUFFICES ASSUME NEW m \in Sat, OlderOnly(m) PROVE OlderOnly(m)'
    BY DEF StillToCome, Current
  <2>1. CASE m = n
    <3>1. first < sampled
      BY <1>9, <2>1 DEF OlderOnly
    <3>2. \A i \in DOMAIN new : new[i] < sampled
      BY <1>2, <1>7, <2>1 DEF OlderOnly, old
    <3> QED
      BY <1>4, <1>5, <2>1, <3>1, <3>2 DEF OlderOnly
  <2>2. CASE m # n
    BY <1>4, <1>5, <2>2 DEF OlderOnly
  <2> QED
    BY <2>1, <2>2
<1>14. TopicInOrder'
  <2> SUFFICES ASSUME NEW m \in Sat, NEW i \in DOMAIN queue'[m],
                      [sat |-> m, at |-> queue'[m][i]] \notin abandoned'
               PROVE  /\ queue'[m][i] > newest'[m]
                      /\ \A j \in 1..(i - 1) : queue'[m][j] < queue'[m][i]
    BY DEF TopicInOrder
  <2>1. CASE m # n
    <3>1. [sat |-> m, at |-> queue[m][i]] \notin abandoned
      BY <1>3, <1>4, <2>1
    <3> QED
      BY <1>4, <1>5, <2>1, <3>1 DEF TopicInOrder
  <2>2. CASE m = n
    <3>1. i \in DOMAIN new /\ i + 1 \in DOMAIN old /\ i \in Nat /\ queue'[m][i] = old[i + 1]
      BY <1>2, <1>4, <1>7, <2>2
    <3>2. old[i + 1] # first
      <4>1. i + 1 # 1
        BY <1>2, <3>1
      <4> QED
        BY <1>9, <3>1, <4>1 DEF InOnePlace, old
    <3>3. [sat |-> n, at |-> old[i + 1]] \notin abandoned
      BY <1>3, <2>2, <3>1, <3>2
    <3>4. /\ old[i + 1] > newest[n]
          /\ \A j \in 1..i : old[j] < old[i + 1]
      <4>1. (i + 1) - 1 = i
        BY <3>1
      <4> QED
        BY <3>1, <3>3, <4>1 DEF TopicInOrder, old
    <3>5. old[i + 1] > first
      <4>1. 1 \in 1..i
        BY <1>2, <3>1
      <4>2. first = old[1] /\ first \in Nat /\ old[i + 1] \in Nat
        BY <1>1, <1>9, <3>1 DEF old
      <4> QED
        BY <3>4, <4>1, <4>2
    <3>6. old[i + 1] > newest'[n]
      BY <1>5, <3>4, <3>5
    <3>7. ASSUME NEW j \in 1..(i - 1) PROVE new[j] = old[j + 1] /\ j + 1 \in 1..i
      <4>1. j \in DOMAIN new
        BY <1>2, <3>1
      <4> QED
        BY <1>2, <3>1, <4>1
    <3> QED
      BY <1>4, <2>2, <3>1, <3>4, <3>6, <3>7
  <2> QED
    BY <2>1, <2>2
<1> QED
  BY <1>8, <1>10, <1>11, <1>12, <1>13, <1>14

LEMMA DeliverOrder ==
  ASSUME IngestInv, NEW n \in Sat, Deliver(n) \/ Expire(n)
  PROVE  OrderInv'
<1>1. /\ queue[n] # <<>> /\ queue' = [queue EXCEPT ![n] = Tail(@)]
      /\ promised' = promised \ {First(n)} /\ abandoned' = abandoned \ {First(n)}
      /\ UNCHANGED <<api, handling>>
  BY DEF Deliver, Expire
<1>2. newest' = newest \/ newest' = [newest EXCEPT ![n] = Later(@, Head(queue[n]))]
  BY DEF Deliver, Expire
<1>3. UNCHANGED posts
  BY DEF Deliver, Expire, producer, running
<1> QED
  BY <1>1, <1>2, <1>3, HeadGone

\* The service dies with its queue.
LEMMA QueueLostOrder ==
  ASSUME IngestInv, QueueLost
  PROVE  OrderInv'
<1> USE DEF IngestInv, OrderInv
<1>1. /\ api' = "down" /\ handling' = {} /\ promised' = {} /\ abandoned' = {}
      /\ queue' = EmptyQueue /\ newest' = newest /\ UNCHANGED posts
  BY DEF QueueLost, running
<1>2. queue' \in [Sat -> Seq(0..MaxTime)] /\ \A n \in Sat : DOMAIN queue'[n] = {}
  BY <1>1 DEF EmptyQueue
<1>3. RecordsOK'
  BY <1>1, <1>2 DEF RecordsOK
<1>4. PastOnly' /\ InOnePlace' /\ ClientsWait' /\ TopicInOrder'
  BY <1>1, <1>2 DEF posts, PastOnly, InOnePlace, ClientsWait, TopicInOrder
<1>5. StillToCome'
  BY <1>1, <1>2 DEF posts, StillToCome, OlderOnly, Current
<1> QED
  BY <1>3, <1>4, <1>5

LEMMA OrderStep == IngestInv /\ [IngestNext]_<<producer, service>> => OrderInv'
<1> SUFFICES ASSUME IngestInv, [IngestNext]_<<producer, service>> PROVE OrderInv'
  OBVIOUS
<1>1. CASE UNCHANGED <<producer, service>>
  BY <1>1, OrderIsKept DEF producer, running, service, records, IngestInv, OrderInv, RecordsOK
<1>2. CASE ApiStart \/ ApiSignal \/ Flushed
  BY <1>2, OrderIsKept
     DEF ApiStart, ApiSignal, Flushed, producer, running, records, IngestInv, OrderInv, RecordsOK
<1> QED
  BY <1>1, <1>2, AloneOrder, PostOrder, PostEndsOrder, CrashOrder, AcceptOrder, RefuseOrder,
     DeliverOrder, QueueLostOrder
     DEF IngestNext

-----------------------------------------------------------------------------
(* What was promised.                                                      *)

\* A step that neither delivers nor accepts nor loses.
LEMMA PromisesStand ==
  ASSUME AcceptedIsKept, UNCHANGED <<queue, promised>>
  PROVE  AcceptedIsKept'
BY DEF AcceptedIsKept

LEMMA AcceptKept ==
  ASSUME IngestInv, NEW r \in handling, Accept(r)
  PROVE  AcceptedIsKept'
<1> USE DEF IngestInv, OrderInv
<1>1. queue' = [queue EXCEPT ![r.sat] = Append(queue[r.sat], r.at)] /\ promised' = promised \cup {r}
  BY DEF Accept, Enqueued
<1>2. r.sat \in Sat /\ r.at \in 0..MaxTime
  BY DEF RecordsOK, Sample
<1>3. queue[r.sat] \in Seq(0..MaxTime)
  BY <1>2 DEF RecordsOK
<1> DEFINE old == queue[r.sat]
           new == Append(old, r.at)
<1>4. /\ Len(old) + 1 \in DOMAIN new /\ new[Len(old) + 1] = r.at
      /\ \A i \in DOMAIN old : i \in DOMAIN new /\ new[i] = old[i]
  BY <1>2, <1>3
<1>5. queue'[r.sat] = new /\ \A n \in Sat : n # r.sat => queue'[n] = queue[n]
  BY <1>1, <1>2 DEF RecordsOK
<1> HIDE DEF new
<1> SUFFICES ASSUME NEW q \in promised'
             PROVE  \E i \in DOMAIN queue'[q.sat] : queue'[q.sat][i] = q.at
  BY DEF AcceptedIsKept
<1>6. CASE q = r
  BY <1>4, <1>5, <1>6
<1>7. CASE q # r
  <2>1. PICK i \in DOMAIN queue[q.sat] : queue[q.sat][i] = q.at
    BY <1>1, <1>7 DEF AcceptedIsKept
  <2>2. q.sat \in Sat
    BY <1>1, <1>7 DEF RecordsOK, Sample
  <2> QED
    BY <1>4, <1>5, <2>1, <2>2
<1> QED
  BY <1>6, <1>7

LEMMA HeadKept ==
  ASSUME IngestInv, NEW n \in Sat, Deliver(n) \/ Expire(n)
  PROVE  AcceptedIsKept'
<1> USE DEF IngestInv, OrderInv
<1>1. /\ queue[n] # <<>> /\ queue' = [queue EXCEPT ![n] = Tail(@)]
      /\ promised' = promised \ {First(n)}
  BY DEF Deliver, Expire
<1> DEFINE old == queue[n]
           new == Tail(old)
<1>2. old \in Seq(0..MaxTime)
  BY DEF RecordsOK
<1>3. /\ Len(old) \in Nat \ {0} /\ DOMAIN old = 1..Len(old) /\ DOMAIN new = 1..(Len(old) - 1)
      /\ \A i \in DOMAIN new : new[i] = old[i + 1]
  BY <1>1, <1>2, TailFacts
<1>4. queue'[n] = new /\ \A m \in Sat : m # n => queue'[m] = queue[m]
  BY <1>1 DEF RecordsOK
<1> HIDE DEF new
<1> SUFFICES ASSUME NEW q \in promised, q # First(n)
             PROVE  \E i \in DOMAIN queue'[q.sat] : queue'[q.sat][i] = q.at
  BY <1>1 DEF AcceptedIsKept
<1>5. PICK i \in DOMAIN queue[q.sat] : queue[q.sat][i] = q.at
  BY DEF AcceptedIsKept
<1>6. q \in Sample
  BY DEF RecordsOK
<1>7. CASE q.sat # n
  BY <1>4, <1>5, <1>6, <1>7 DEF Sample
<1>8. CASE q.sat = n
  <2>1. i # 1
    BY <1>5, <1>6, <1>8 DEF First, Sample
  <2>2. i - 1 \in DOMAIN new /\ new[i - 1] = q.at
    BY <1>3, <1>5, <1>8, <2>1
  <2> QED
    BY <1>4, <1>8, <2>2
<1> QED
  BY <1>7, <1>8

LEMMA KeptStep == IngestInv /\ [IngestNext]_<<producer, service>> => AcceptedIsKept'
<1> SUFFICES ASSUME IngestInv, [IngestNext]_<<producer, service>> PROVE AcceptedIsKept'
  OBVIOUS
<1>1. AcceptedIsKept
  BY DEF IngestInv
<1>2. CASE UNCHANGED service
  BY <1>1, <1>2, PromisesStand DEF service, records
<1>3. ASSUME NEW n \in Sat, Post(n) \/ PostFails(n) \/ PostTimesOut(n) PROVE AcceptedIsKept'
  BY <1>1, <1>3, PromisesStand DEF Post, PostFails, PostTimesOut, service, records
<1>4. CASE ProducerCrash \/ ApiStart \/ ApiSignal \/ Flushed
  BY <1>1, <1>4, PromisesStand DEF ProducerCrash, ApiStart, ApiSignal, Flushed, records
<1>5. ASSUME NEW r \in handling, Refuse(r) PROVE AcceptedIsKept'
  BY <1>1, <1>5, PromisesStand DEF Refuse, records
<1>6. CASE QueueLost
  BY <1>6 DEF QueueLost, AcceptedIsKept
<1> QED
  BY <1>2, <1>3, <1>4, <1>5, <1>6, AcceptKept, HeadKept DEF IngestNext

LEMMA IngestNextInv == IngestInv /\ [IngestNext]_<<producer, service>> => IngestInv'
<1> SUFFICES ASSUME IngestInv, [IngestNext]_<<producer, service>> PROVE IngestInv'
  OBVIOUS
<1>1. [Next]_producer
  BY IngestStep DEF IngestInv, OrderInv
<1>2. Inv' /\ TicksAreApart'
  BY <1>1, NextInv, TicksStep DEF IngestInv
<1>3. OrderInv' /\ AcceptedIsKept'
  BY OrderStep, KeptStep
<1> QED
  BY <1>2, <1>3 DEF IngestInv

LEMMA IngestInvAlways == IngestSpec => []IngestInv
BY IngestInitInv, IngestNextInv, PTL DEF IngestSpec

-----------------------------------------------------------------------------
(* The theorems.                                                           *)

\* The producer that talks to the service is the producer on its own: what a
\* request meets cannot make it do what TleProducer does not.
THEOREM IngestImplementsProducer == IngestSpec => Spec
<1>1. IngestInit => Init
  BY DEF IngestInit
<1>2. IngestInv /\ [IngestNext]_<<producer, service>> => [Next]_producer
  BY IngestStep DEF IngestInv, OrderInv
<1> QED
  BY <1>1, <1>2, IngestInvAlways, PTL DEF IngestSpec, Spec

\* So the producer keeps its promises there: about the files,
THEOREM IngestThrottledFilesAreWhole == IngestSpec => []ThrottledFileIsWhole
BY IngestImplementsProducer, ThrottledFilesAreWhole, PTL

\* the fetches,
THEOREM IngestFetchesSpaced == IngestSpec => FetchesAreSpaced
BY IngestImplementsProducer, FetchesSpaced, PTL

\* the age of the elements,
THEOREM IngestElementsRecent == IngestSpec => []ElementsAreRecent
BY IngestImplementsProducer, ElementsRecent, PTL

\* and the turns of the satellites.
THEOREM IngestTurnsCome == IngestSpec => []EachInTurn
BY IngestImplementsProducer, TurnsCome, PTL

\* The samples of a satellite reach the topic in order and once, unless the
\* producer gave up waiting for them: that a tick awaits its requests, and
\* that the next is later, is all it takes, whatever the handlers do.
THEOREM TopicOrdered == IngestSpec => []TopicInOrder
<1>1. IngestInv => TopicInOrder
  BY DEF IngestInv, OrderInv
<1> QED
  BY <1>1, IngestInvAlways, PTL

\* A sample answered with 202 is in the queue until it is in the topic or
\* the queue is lost.
THEOREM AcceptedKept == IngestSpec => []AcceptedIsKept
<1>1. IngestInv => AcceptedIsKept
  BY DEF IngestInv
<1> QED
  BY <1>1, IngestInvAlways, PTL
=============================================================================
