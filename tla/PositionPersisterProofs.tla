---------------------- MODULE PositionPersisterProofs ----------------------
(***************************************************************************)
(* Theorems about the persister and the readers of its hot state, proved   *)
(* for any topic, any bound and any disruption, but for two assumptions    *)
(* that single theorems name: Reliable, and NoRedelivery for the order of  *)
(* what Redis holds.                                                       *)
(***************************************************************************)
EXTENDS TrackQuery, FiniteSetTheorems, SequenceTheorems, TLAPS

\* A finite, non-empty set of numbers has a largest element.
LEMMA FiniteMax ==
  ASSUME NEW S \in SUBSET Nat, IsFiniteSet(S), S # {}
  PROVE  /\ Max(S) \in S
         /\ \A y \in S : y <= Max(S)
<1> DEFINE R == StrictSubsetOrdering(Nat)
           F == FiniteSubsetsOf(Nat)
           From(x) == {y \in S : y >= x}
           U == {From(x) : x \in S}
<1>1. IsWellFoundedOn(R, F)
  BY FS_StrictSubsetOrderingWellFounded
<1>2. \A x \in S : From(x) \in F
  <2> TAKE x \in S
  <2>1. From(x) \in SUBSET S
    OBVIOUS
  <2>2. IsFiniteSet(From(x))
    BY <2>1, FS_Subset
  <2> QED
    BY <2>1, <2>2 DEF FiniteSubsetsOf
<1>3. U \subseteq F /\ U # {}
  BY <1>2
<1> HIDE DEF F, R
<1>4. PICK X \in U : \A Y \in U : <<Y, X>> \notin R
  BY <1>1, <1>3, WFMin
<1>5. PICK x \in S : X = From(x)
  BY <1>4
<1>6. \A y \in S : ~(x < y)
  <2> SUFFICES ASSUME NEW y \in S, x < y
               PROVE  FALSE
    OBVIOUS
  <2>1. From(y) \in U
    OBVIOUS
  <2>2. From(y) \subseteq From(x)
    <3> SUFFICES ASSUME NEW z \in S, z >= y
                 PROVE  z >= x
      OBVIOUS
    <3> QED
      BY x \in Nat, y \in Nat, z \in Nat
  <2>3. x \in From(x) /\ x \notin From(y)
    BY x \in Nat, y \in Nat
  <2>4. <<From(y), From(x)>> \in R
    BY <2>2, <2>3 DEF R, StrictSubsetOrdering
  <2> QED
    BY <2>1, <2>4, <1>4, <1>5
<1>7. \E z \in S : \A y \in S : z >= y
  BY <1>6
<1> QED
  BY <1>7 DEF Max

-----------------------------------------------------------------------------
(* The j-th largest of a finite set of numbers.                            *)

\* A non-empty set of numbers has a smallest element.
LEMMA NatMin ==
  ASSUME NEW S \in SUBSET Nat, S # {}
  PROVE  Min(S) \in S /\ \A y \in S : Min(S) <= y
<1>1. PICK x \in S : \A y \in S : ~(<<y, x>> \in OpToRel(<, Nat))
  BY NatLessThanWellFounded, WFMin, Zenon
<1>2. \A y \in S : ~(y < x)
  <2> TAKE y \in S
  <2>1. <<y, x>> \notin OpToRel(<, Nat)
    BY <1>1
  <2> QED
    BY <2>1 DEF OpToRel
<1>3. \A y \in S : x <= y
  BY <1>2
<1> QED
  BY <1>3 DEF Min

\* The members of S from i on.
From(S, i) == {k \in S : k >= i}

\* Such a set is finite, and no larger than S.
LEMMA FromFinite ==
  ASSUME NEW S \in SUBSET Nat, IsFiniteSet(S), NEW i \in Nat
  PROVE  /\ IsFiniteSet(From(S, i))
         /\ Cardinality(From(S, i)) \in Nat
         /\ Cardinality(From(S, i)) <= Cardinality(S)
<1>1. From(S, i) \in SUBSET S
  BY DEF From
<1> QED
  BY <1>1, FS_Subset, FS_CardinalityType

\* The larger a member, the fewer are from it on.
LEMMA FromShrinks ==
  ASSUME NEW S \in SUBSET Nat, IsFiniteSet(S), NEW i \in S, NEW k \in S, i < k
  PROVE  Cardinality(From(S, k)) < Cardinality(From(S, i))
<1>1. /\ IsFiniteSet(From(S, i)) /\ IsFiniteSet(From(S, k))
      /\ Cardinality(From(S, i)) \in Nat /\ Cardinality(From(S, k)) \in Nat
  BY FromFinite
<1>2. From(S, k) \in SUBSET (From(S, i) \ {i})
  <2> SUFFICES ASSUME NEW m \in S, m >= k PROVE m >= i /\ m # i
    BY DEF From
  <2>1. m \in Nat /\ i \in Nat /\ k \in Nat
    OBVIOUS
  <2> QED
    BY <2>1
<1>3. i \in From(S, i)
  BY DEF From
<1>4. IsFiniteSet(From(S, i) \ {i}) /\ Cardinality(From(S, i) \ {i}) = Cardinality(From(S, i)) - 1
  BY <1>1, <1>3, FS_RemoveElement
<1>5. Cardinality(From(S, k)) <= Cardinality(From(S, i) \ {i})
  BY <1>2, <1>4, FS_Subset
<1> QED
  BY <1>1, <1>4, <1>5

\* There is a j-th largest member: the smallest from which at most j are on.
LEMMA LatestExists ==
  ASSUME NEW S \in SUBSET Nat, IsFiniteSet(S), NEW j \in 1..Cardinality(S)
  PROVE  \E i \in S : Cardinality(From(S, i)) = j
<1> DEFINE C(i) == Cardinality(From(S, i))
           Few == {i \in S : C(i) <= j}
           x == Min(Few)
           Less == {i \in S : i < x}
           y == Max(Less)
<1>0. Cardinality(S) \in Nat /\ j \in Nat /\ j >= 1 /\ j <= Cardinality(S)
  BY FS_CardinalityType
<1>1. Few # {}
  <2>1. S # {}
    BY <1>0, FS_EmptySet
  <2>2. Max(S) \in S /\ \A k \in S : k <= Max(S)
    BY <2>1, FiniteMax
  <2>3. From(S, Max(S)) = {Max(S)}
    <3>1. \A k \in S : k >= Max(S) => k = Max(S)
      <4> TAKE k \in S
      <4>1. k \in Nat /\ Max(S) \in Nat /\ k <= Max(S)
        BY <2>2
      <4> QED
        BY <4>1
    <3>2. Max(S) >= Max(S)
      BY <2>2
    <3> QED
      BY <2>2, <3>1, <3>2 DEF From
  <2>4. C(Max(S)) = 1
    BY <2>3, FS_Singleton
  <2> QED
    BY <1>0, <2>2, <2>4
<1>2. x \in Few /\ \A i \in Few : x <= i
  <2>1. Few \in SUBSET Nat
    OBVIOUS
  <2> HIDE DEF Few
  <2> QED
    BY <1>1, <2>1, NatMin
<1>3. x \in S /\ x \in Nat /\ C(x) <= j /\ C(x) \in Nat
  BY <1>2, FromFinite
<1>4. SUFFICES ASSUME C(x) < j PROVE FALSE
  BY <1>3, <1>0
<1>5. Less # {}
  <2> SUFFICES ASSUME Less = {} PROVE FALSE
    OBVIOUS
  <2> HIDE DEF x
  <2>1. From(S, x) = S
    <3>1. \A k \in S : ~(k < x)
      OBVIOUS
    <3>2. \A k \in S : k >= x
      BY <1>3, <3>1
    <3> QED
      BY <3>2 DEF From
  <2> QED
    BY <1>0, <1>4, <2>1
<1>6. y \in Less /\ \A i \in Less : i <= y
  <2>1. Less \in SUBSET Nat /\ Less \in SUBSET S
    OBVIOUS
  <2>2. IsFiniteSet(Less)
    BY <2>1, FS_Subset
  <2> HIDE DEF Less
  <2> QED
    BY <1>5, <2>1, <2>2, FiniteMax
<1>7. y \in S /\ y \in Nat /\ y < x
  BY <1>6
<1> HIDE DEF x, y, Few
<1>8. From(S, y) = From(S, x) \cup {y} /\ y \notin From(S, x)
  <2>1. \A k \in S : k < x => k <= y
    BY <1>6
  <2>2. \A k \in S : k \in Nat
    OBVIOUS
  <2> HIDE DEF Less
  <2>3. \A k \in S : k >= y <=> k >= x \/ k = y
    BY <1>3, <1>7, <2>1, <2>2
  <2>4. ~(y >= x)
    BY <1>3, <1>7
  <2> QED
    BY <1>7, <2>3, <2>4 DEF From
<1>9. C(y) = C(x) + 1
  BY <1>3, <1>8, FromFinite, FS_AddElement
<1>10. y \in Few
  BY <1>0, <1>3, <1>4, <1>7, <1>9 DEF Few
<1> QED
  BY <1>2, <1>3, <1>7, <1>10

\* The j-th largest is a member, from which j are on.
LEMMA LatestIs ==
  ASSUME NEW S \in SUBSET Nat, IsFiniteSet(S), NEW j \in 1..Cardinality(S)
  PROVE  Latest(S, j) \in S /\ Cardinality(From(S, Latest(S, j))) = j
BY LatestExists DEF Latest, From

\* Later ones are smaller.
LEMMA LatestDescends ==
  ASSUME NEW S \in SUBSET Nat, IsFiniteSet(S),
         NEW j \in 1..Cardinality(S), NEW k \in 1..Cardinality(S), j < k
  PROVE  Latest(S, j) > Latest(S, k)
<1>0. j \in Nat /\ k \in Nat
  OBVIOUS
<1>1. /\ Latest(S, j) \in S /\ Cardinality(From(S, Latest(S, j))) = j
      /\ Latest(S, k) \in S /\ Cardinality(From(S, Latest(S, k))) = k
  BY LatestIs
<1> SUFFICES ASSUME ~(Latest(S, j) > Latest(S, k)) PROVE FALSE
  OBVIOUS
<1>2. CASE Latest(S, j) = Latest(S, k)
  BY <1>0, <1>1, <1>2
<1>3. CASE Latest(S, j) < Latest(S, k)
  <2>1. Cardinality(From(S, Latest(S, k))) < Cardinality(From(S, Latest(S, j)))
    BY <1>1, <1>3, FromShrinks
  <2> QED
    BY <1>0, <1>1, <2>1
<1>4. Latest(S, j) \in Nat /\ Latest(S, k) \in Nat
  BY <1>1
<1> QED
  BY <1>2, <1>3, <1>4

\* Every member is the j-th largest for some j.
LEMMA LatestReaches ==
  ASSUME NEW S \in SUBSET Nat, IsFiniteSet(S), NEW i \in S
  PROVE  \E j \in 1..Cardinality(S) : Latest(S, j) = i
<1> DEFINE j == Cardinality(From(S, i))
<1>1. j \in Nat /\ j <= Cardinality(S) /\ Cardinality(S) \in Nat
  BY FromFinite, FS_CardinalityType
<1>2. j # 0
  <2>1. i \in From(S, i)
    BY DEF From
  <2> QED
    BY <2>1, FromFinite, FS_EmptySet
<1>3. j \in 1..Cardinality(S)
  BY <1>1, <1>2
<1>4. Latest(S, j) \in S /\ Cardinality(From(S, Latest(S, j))) = j
  BY <1>3, LatestIs
<1> DEFINE l == Latest(S, j)
<1> HIDE DEF j, l
<1>5. l \in S /\ Cardinality(From(S, l)) = j
  BY <1>4 DEF l
<1>6. l \in Nat /\ i \in Nat
  BY <1>5
<1>7. ~(i < l)
  <2> SUFFICES ASSUME i < l PROVE FALSE
    OBVIOUS
  <2>1. Cardinality(From(S, l)) < Cardinality(From(S, i))
    BY <1>5, FromShrinks
  <2> QED
    BY <1>1, <1>5, <2>1 DEF j
<1>8. ~(l < i)
  <2> SUFFICES ASSUME l < i PROVE FALSE
    OBVIOUS
  <2>1. Cardinality(From(S, i)) < Cardinality(From(S, l))
    BY <1>5, FromShrinks
  <2> QED
    BY <1>1, <1>5, <2>1 DEF j
<1>9. l = i
  BY <1>6, <1>7, <1>8
<1> QED
  BY <1>3, <1>9 DEF l

\* The first is the maximum.
LEMMA LatestFirst ==
  ASSUME NEW S \in SUBSET Nat, IsFiniteSet(S), S # {}
  PROVE  1 \in 1..Cardinality(S) /\ Latest(S, 1) = Max(S)
<1>1. Cardinality(S) \in Nat /\ Cardinality(S) # 0
  BY FS_CardinalityType, FS_EmptySet
<1>2. Max(S) \in S /\ \A k \in S : k <= Max(S)
  BY FiniteMax
<1>3. Latest(S, 1) \in S
  BY <1>1, LatestIs
<1>4. PICK j \in 1..Cardinality(S) : Latest(S, j) = Max(S)
  BY <1>2, LatestReaches
<1>5. ~(1 < j)
  <2> SUFFICES ASSUME 1 < j PROVE FALSE
    OBVIOUS
  <2>1. 1 \in 1..Cardinality(S)
    BY <1>1
  <2>2. Latest(S, 1) > Latest(S, j)
    BY <2>1, LatestDescends
  <2>3. Latest(S, 1) <= Max(S) /\ Latest(S, 1) \in Nat /\ Max(S) \in Nat
    BY <1>2, <1>3
  <2> QED
    BY <1>4, <2>2, <2>3
<1> QED
  BY <1>1, <1>4, <1>5

-----------------------------------------------------------------------------
(* Types.                                                                  *)

USE TopicAssumption, BoundAssumption

\* The initial state is typed.
LEMMA InitType == Init => CoreTypeOK
<1> SUFFICES ASSUME Init
             PROVE  CoreTypeOK
  OBVIOUS
<1> USE DEF Init, NowherePos
<1>1. BrokerTypeOK
  BY DEF BrokerTypeOK
<1>2. ProcessTypeOK
  <2>1. <<>> \in Seq(Row)
    OBVIOUS
  <2>2. NowherePos \in [Partition -> 0..MaxLog]
    OBVIOUS
  <2> QED
    BY <2>1, <2>2 DEF ProcessTypeOK
<1>3. PostgresTypeOK
  BY DEF PostgresTypeOK
<1>4. HistoryTypeOK
  BY DEF HistoryTypeOK
<1> QED
  BY <1>1, <1>2, <1>3, <1>4 DEF CoreTypeOK

\* The epochs the upsert compares for satellite s.
EpochsOf(s) == {last_tle_epoch[s]} \cup {rows[i].epoch : i \in RowIndex(s)}

\* The newest epoch among the flushed rows of a satellite is an epoch, or 0.
LEMMA UpsertType ==
  ASSUME CoreTypeOK, NEW s \in Sat
  PROVE  /\ Max(EpochsOf(s)) \in Epoch \cup {0}
         /\ \A e \in EpochsOf(s) : e <= Max(EpochsOf(s))
<1> DEFINE I == RowIndex(s)
           E == {rows[i].epoch : i \in I}
<1>1. rows \in Seq(Row) /\ last_tle_epoch[s] \in Epoch \cup {0}
  BY DEF CoreTypeOK, ProcessTypeOK, PostgresTypeOK
<1>2. IsFiniteSet(I)
  <2>1. IsFiniteSet(1..Len(rows))
    BY <1>1, FS_Interval
  <2>2. I \subseteq 1..Len(rows)
    BY <1>1 DEF RowIndex
  <2> QED
    BY <2>1, <2>2, FS_Subset
<1>3. IsFiniteSet(E)
  <2> DEFINE f == [i \in I |-> rows[i].epoch]
  <2>1. f \in Surjection(I, E)
    BY DEF Surjection
  <2> QED
    BY <1>2, <2>1, FS_Surjection
<1>4. IsFiniteSet(EpochsOf(s))
  BY <1>3, FS_Singleton, FS_Union DEF EpochsOf
<1>5. EpochsOf(s) \subseteq Epoch \cup {0}
  <2>1. ASSUME NEW i \in I
        PROVE  rows[i].epoch \in Epoch
    <3>1. rows[i] \in Row
      BY <1>1 DEF RowIndex
    <3> QED
      BY <3>1 DEF Row
  <2> QED
    BY <1>1, <2>1 DEF EpochsOf
<1>6. EpochsOf(s) \in SUBSET Nat
  <2>1. Epoch \cup {0} \subseteq Nat
    BY TopicAssumption
  <2> QED
    BY <1>5, <2>1, Zenon
<1>7. last_tle_epoch[s] \in EpochsOf(s)
  BY DEF EpochsOf
<1> QED
  BY <1>4, <1>5, <1>6, <1>7, FiniteMax

\* The rows of a satellite are finitely many, and typed.
LEMMA RowIndexFinite ==
  ASSUME CoreTypeOK, NEW s \in Sat
  PROVE  /\ RowIndex(s) \in SUBSET Nat /\ IsFiniteSet(RowIndex(s))
         /\ \A i \in RowIndex(s) : i \in DOMAIN rows /\ rows[i] \in Row /\ rows[i].sat = s
<1>1. rows \in Seq(Row)
  BY DEF CoreTypeOK, ProcessTypeOK
<1>2. DOMAIN rows = 1..Len(rows) /\ Len(rows) \in Nat
  BY <1>1, LenProperties
<1>3. RowIndex(s) \in SUBSET (1..Len(rows)) /\ IsFiniteSet(1..Len(rows))
  BY <1>2, FS_Interval DEF RowIndex
<1>4. IsFiniteSet(RowIndex(s))
  BY <1>3, FS_Subset
<1> QED
  BY <1>1, <1>2, <1>3, <1>4, ElementOfSeq DEF RowIndex

\* The name, if a row has one, is the time of the last row that has.
LEMMA NameIs ==
  ASSUME CoreTypeOK, UpsertSatellites, NEW s \in Sat
  PROVE  \/ Named(s) = {} /\ name'[s] = name[s]
         \/ \E i \in Named(s) : name'[s] = rows[i].t /\ \A k \in Named(s) : k <= i
<1>1. RowIndex(s) \in SUBSET Nat /\ IsFiniteSet(RowIndex(s)) /\ Named(s) \subseteq RowIndex(s)
  BY RowIndexFinite DEF Named
<1>2. Named(s) \in SUBSET Nat /\ IsFiniteSet(Named(s))
  BY <1>1, FS_Subset
<1>3. name'[s] = IF Named(s) = {} THEN name[s] ELSE rows[Max(Named(s))].t
  BY DEF UpsertSatellites
<1>4. CASE Named(s) # {}
  <2>1. Max(Named(s)) \in Named(s) /\ \A k \in Named(s) : k <= Max(Named(s))
    BY <1>2, <1>4, FiniteMax
  <2> QED
    BY <1>3, <1>4, <2>1
<1> QED
  BY <1>3, <1>4

\* The name is that of a sample, or there is none.
LEMMA NameType ==
  ASSUME CoreTypeOK, UpsertSatellites, NEW s \in Sat
  PROVE  name'[s] \in 0..MaxLog
<1>1. name[s] \in 0..MaxLog
  BY DEF CoreTypeOK, PostgresTypeOK
<1>2. ASSUME NEW i \in Named(s)
      PROVE  rows[i].t \in 0..MaxLog
  <2>1. rows[i] \in Row
    BY RowIndexFinite DEF Named
  <2> QED
    BY <2>1 DEF Row
<1> QED
  BY <1>1, <1>2, NameIs

\* Ending the process, for whatever reason, leaves it typed.
LEMMA DownType ==
  ASSUME CoreTypeOK, Down, committed' \in [Partition -> 0..MaxLog]
  PROVE  ProcessTypeOK' /\ skipped' \subseteq Offset
<1>1. <<>> \in Seq(Row)
  OBVIOUS
<1>2. ProcessTypeOK'
  BY <1>1 DEF Down, CoreTypeOK, ProcessTypeOK
<1>3. skipped' \subseteq Offset
  BY DEF Down, CoreTypeOK, HistoryTypeOK
<1> QED
  BY <1>2, <1>3

\* The cursors of a partition are ordered, and meet outside the batch loop.
CursorsOK ==
  /\ \A p \in Partition : /\ committed[p] <= cursor[p]
                          /\ cursor[p] <= pos[p]
                          /\ pos[p] <= Len(log[p])
  /\ pc # "decode" => cursor = pos

TypeInv == CoreTypeOK /\ CursorsOK

\* What the cursor of a running batch points at is a message of the log.
LEMMA NextOfType ==
  ASSUME TypeInv, NEW p \in Partition, AtRecord(p)
  PROVE  /\ cursor[p] + 1 \in 1..Len(log[p])
         /\ cursor[p] + 1 \in 1..MaxLog
         /\ NextOf(p) \in Message
<1>1. log[p] \in Seq(Message) /\ cursor[p] \in Nat /\ pos[p] \in 0..MaxLog
  BY DEF TypeInv, CoreTypeOK, BrokerTypeOK, ProcessTypeOK
<1>2. cursor[p] < pos[p] /\ pos[p] <= Len(log[p])
  BY DEF AtRecord, TypeInv, CursorsOK
<1>3. cursor[p] + 1 \in 1..Len(log[p]) /\ cursor[p] + 1 \in 1..MaxLog
  BY <1>1, <1>2
<1> QED
  BY <1>1, <1>3 DEF NextOf

\* A message becomes a row.
LEMMA RowOfType == ASSUME NEW m \in Message PROVE RowOf(m) \in Row
  BY DEF Message, Row, RowOf

\* Ending the process keeps the cursors in order: both return to what is committed.
LEMMA DownCursors ==
  ASSUME TypeInv, Down, log' = log,
         committed' = committed \/ (committed' = pos /\ pc # "decode")
  PROVE  CursorsOK'
<1>1. pos' = committed' /\ cursor' = committed'
  BY DEF Down
<1>2. ASSUME NEW p \in Partition
      PROVE  committed'[p] \in Nat /\ committed'[p] <= Len(log[p])
  <2>1. committed[p] \in Nat /\ cursor[p] \in Nat /\ pos[p] \in Nat /\ Len(log[p]) \in Nat
    BY DEF TypeInv, CoreTypeOK, BrokerTypeOK, ProcessTypeOK
  <2>2. committed[p] <= cursor[p] /\ cursor[p] <= pos[p] /\ pos[p] <= Len(log[p])
    BY DEF TypeInv, CursorsOK
  <2> QED
    BY <2>1, <2>2
<1> QED
  BY <1>1, <1>2 DEF CursorsOK

\* The type invariant, with what it needs of the cursors, holds at first.
LEMMA TypeInit == Init => TypeInv
<1> SUFFICES ASSUME Init
             PROVE  CursorsOK
  BY InitType DEF TypeInv
<1> QED
  BY DEF Init, NowherePos, CursorsOK

\* No step breaks the type invariant: one case for each action.
LEMMA TypeNext == TypeInv /\ [Next]_vars => TypeInv'
<1> SUFFICES ASSUME TypeInv, [Next]_vars
             PROVE  TypeInv'
  OBVIOUS
<1> USE DEF TypeInv, CursorsOK, CoreTypeOK, BrokerTypeOK, ProcessTypeOK,
            PostgresTypeOK, HistoryTypeOK
<1>1. ASSUME NEW s \in Sat, NEW e \in Epoch, NEW k \in Kind, Produce(s, e, k)
      PROVE  TypeInv'
  <2> DEFINE q == PartitionOf[s]
             m == [sat |-> s, t |-> Len(log[q]) + 1, epoch |-> e, kind |-> k]
  <2>1. q \in Partition /\ log[q] \in Seq(Message) /\ Len(log[q]) \in Nat
    OBVIOUS
  <2>2. m \in Message
    BY <2>1, <1>1 DEF Produce, Message
  <2>3. Append(log[q], m) \in Seq(Message) /\ Len(Append(log[q], m)) = Len(log[q]) + 1
    BY <2>1, <2>2
  <2>4. log' \in [Partition -> Seq(Message)]
    BY <2>1, <2>3, <1>1 DEF Produce
  <2>5. UNCHANGED <<committed, control, reading, postgres, redis, history>>
    BY <1>1 DEF Produce
  <2>6. CoreTypeOK'
    BY <2>4, <2>5 DEF control, reading, postgres, history
  <2>7. ASSUME NEW p \in Partition
        PROVE  Len(log[p]) <= Len(log'[p]) /\ Len(log[p]) \in Nat /\ Len(log'[p]) \in Nat
    <3>1. Len(log[p]) \in Nat /\ Len(log'[p]) \in Nat
      <4>1. log[p] \in Seq(Message) /\ log'[p] \in Seq(Message)
        BY <2>4
      <4> QED
        BY <4>1, LenProperties
    <3>2. CASE p = q
      BY <2>1, <2>3, <3>1, <3>2, <1>1 DEF Produce
    <3>3. CASE p # q
      BY <3>1, <3>3, <1>1 DEF Produce
    <3> QED
      BY <3>1, <3>2, <3>3
  <2>8. CursorsOK'
    <3>1. ASSUME NEW p \in Partition
          PROVE  pos[p] <= Len(log'[p])
      <4>1. pos[p] \in Nat /\ pos[p] <= Len(log[p])
        OBVIOUS
      <4>2. Len(log[p]) <= Len(log'[p]) /\ Len(log[p]) \in Nat /\ Len(log'[p]) \in Nat
        BY <2>7
      <4> HIDE DEF TypeInv, CoreTypeOK
      <4> QED
        BY <4>1, <4>2
    <3> QED
      BY <2>5, <3>1 DEF control, reading
  <2> QED
    BY <2>6, <2>8
<1>2. CASE Elapse
  BY <1>2 DEF Elapse, broker, reading, postgres, redis, history
<1>3. CASE Signal
  BY <1>3, SMTT(30) DEF Signal, Disrupt, broker, reading, postgres, redis
<1>4. CASE RedisRestart
  BY <1>4, SMTT(30) DEF RedisRestart, Disrupt, broker, control, reading, postgres
<1>5. CASE Restart
  BY <1>5 DEF Restart, broker, reading, postgres, redis, history
<1>6. CASE LeaveLoop
  BY <1>6 DEF LeaveLoop, broker, reading, postgres, redis, history
<1>7. CASE GetMany
  <2>1. PICK upto \in [Partition -> 0..MaxLog] :
          /\ \A p \in Partition : pos[p] <= upto[p] /\ upto[p] <= Len(log[p])
          /\ pos' = upto
    BY <1>7 DEF GetMany
  <2>2. UNCHANGED <<broker, closing, stop_event, late, schema, tp, cursor, buffer,
                    rows, postgres, history>> /\ pc' = "decode" /\ cursor = pos
    BY <1>7 DEF GetMany
  <2>3. CoreTypeOK'
    BY <2>1, <2>2 DEF broker, postgres, history
  <2>4. CursorsOK'
    BY <2>1, <2>2 DEF broker
  <2> QED
    BY <2>3, <2>4
<1>8. ASSUME NEW p \in Partition, DecodeRow(p)
      PROVE  TypeInv'
  <2>1. AtRecord(p)
    BY <1>8 DEF DecodeRow
  <2>2. cursor[p] + 1 \in 1..MaxLog /\ NextOf(p) \in Message
    BY <2>1, NextOfType
  <2>3. RowOf(NextOf(p)) \in Row
    BY <2>2, RowOfType
  <2>4. buffer' \in Seq(Row)
    BY <2>3, <1>8 DEF DecodeRow
  <2>5. cursor' \in [Partition -> 0..MaxLog]
    BY <2>2, <1>8 DEF DecodeRow, Handled
  <2>6. CoreTypeOK'
    BY <2>4, <2>5, <1>8 DEF DecodeRow, broker, postgres, redis, history
  <2>7. CursorsOK'
    BY <2>1, <1>8 DEF DecodeRow, AtRecord, Handled, broker
  <2> QED
    BY <2>6, <2>7
<1>9. ASSUME NEW p \in Partition, DecodeError(p)
      PROVE  TypeInv'
  <2>1. AtRecord(p)
    BY <1>9 DEF DecodeError
  <2>2. cursor[p] + 1 \in 1..MaxLog
    BY <2>1, NextOfType
  <2>3. skipped' \subseteq Offset
    BY <2>2, <1>9 DEF DecodeError, Offset
  <2>4. cursor' \in [Partition -> 0..MaxLog]
    BY <2>2, <1>9 DEF DecodeError, Handled
  <2>5. schema' \in {"unknown", "parsed", "poisoned"}
    BY <1>9 DEF DecodeError
  <2>6. CoreTypeOK'
    BY <2>3, <2>4, <2>5, <1>9 DEF DecodeError, broker, postgres, redis
  <2>7. CursorsOK'
    BY <2>1, <1>9 DEF DecodeError, AtRecord, Handled, broker
  <2> QED
    BY <2>6, <2>7
<1>10. ASSUME NEW p \in Partition, DecodeRaises(p)
       PROVE  TypeInv'
  <2>1. Batch \subseteq Offset
    BY DEF Batch, Between
  <2>2. skipped' \subseteq Offset
    BY <2>1, <1>10 DEF DecodeRaises
  <2>3. CoreTypeOK'
    BY <2>2, <1>10 DEF DecodeRaises, broker, postgres, redis
  <2>4. CursorsOK'
    BY <1>10 DEF DecodeRaises, broker
  <2> QED
    BY <2>3, <2>4
<1>11. CASE BatchDone
  BY <1>11 DEF BatchDone, broker, reading, postgres, redis, history
<1>12. CASE NoFlush
  BY <1>12 DEF NoFlush, broker, reading, postgres, redis, history
<1>13. CASE EmptyFlush
  BY <1>13 DEF EmptyFlush, broker, reading, postgres, redis, history
<1>14. CASE BeginFlush
  <2>1. <<>> \in Seq(Row)
    OBVIOUS
  <2> QED
    BY <2>1, <1>14 DEF BeginFlush, broker, postgres, redis, history
<1>15. CASE InsertPositions
  <2>1. Keys(rows) \subseteq Sat \X (1..MaxLog)
    <3>1. ASSUME NEW i \in DOMAIN rows
          PROVE  Key(rows[i]) \in Sat \X (1..MaxLog)
      <4>1. rows[i] \in Row
        OBVIOUS
      <4> QED
        BY <4>1 DEF Key, Row
    <3> QED
      BY <3>1 DEF Keys
  <2> QED
    BY <2>1, <1>15 DEF InsertPositions, broker, reading, redis, history
<1>16. CASE UpsertSatellites
  <2>1. last_tle_epoch' \in [Sat -> Epoch \cup {0}]
    <3>1. ASSUME NEW s \in Sat
          PROVE  last_tle_epoch'[s] \in Epoch \cup {0}
      <4>1. last_tle_epoch'[s] = Max(EpochsOf(s))
        BY <1>16 DEF UpsertSatellites, EpochsOf
      <4> QED
        BY <4>1, UpsertType
    <3> QED
      BY <3>1, <1>16 DEF UpsertSatellites
  <2>2. name' \in [Sat -> 0..MaxLog]
    <3>1. ASSUME NEW s \in Sat
          PROVE  name'[s] \in 0..MaxLog
      BY <1>16, NameType
    <3> QED
      BY <3>1, <1>16 DEF UpsertSatellites
  <2> QED
    BY <2>1, <2>2, <1>16 DEF UpsertSatellites, broker, reading, redis, history
<1>17. CASE WriteHotState
  BY <1>17 DEF WriteHotState, broker, reading, postgres, history
<1>18. CASE Commit
  <2>1. committed' = pos /\ pc # "decode" /\ UNCHANGED <<log, postgres, disruptions>>
    BY <1>18 DEF Commit
  <2>2. committed' \in [Partition -> 0..MaxLog]
    BY <2>1
  <2>3. CASE closing
    <3>1. Down
      BY <1>18, <2>3 DEF Commit
    <3>2. CoreTypeOK'
      BY <2>1, <2>2, <3>1, DownType DEF postgres
    <3>3. CursorsOK'
      BY <2>1, <3>1, DownCursors
    <3> QED
      BY <3>2, <3>3
  <2>4. CASE ~closing
    <3>1. <<>> \in Seq(Row)
      OBVIOUS
    <3> QED
      BY <2>1, <2>2, <2>4, <3>1, <1>18 DEF Commit, postgres
  <2> QED
    BY <2>3, <2>4
<1>19. CASE FlushFails
  <2>1. committed' = committed /\ disruptions' \in 0..MaxDisruptions
        /\ UNCHANGED <<log, postgres>>
    BY <1>19 DEF FlushFails, Disrupt
  <2>2. CASE closing
    <3>1. Down
      BY <1>19, <2>2 DEF FlushFails
    <3>2. CoreTypeOK'
      BY <2>1, <3>1, DownType DEF postgres
    <3>3. CursorsOK'
      BY <2>1, <3>1, DownCursors
    <3> QED
      BY <3>2, <3>3
  <2>3. CASE ~closing
    <3>1. <<>> \in Seq(Row)
      OBVIOUS
    <3> QED
      BY <2>1, <2>3, <3>1, <1>19 DEF FlushFails, postgres
  <2> QED
    BY <2>2, <2>3
<1>20. CASE CloseEmpty
  <2>1. committed' = committed /\ Down /\ UNCHANGED <<log, postgres, disruptions>>
    BY <1>20 DEF CloseEmpty
  <2>2. CoreTypeOK'
    BY <2>1, DownType DEF postgres
  <2>3. CursorsOK'
    BY <2>1, DownCursors
  <2> QED
    BY <2>2, <2>3
<1>21. CASE Crash
  <2>1. /\ committed' = committed /\ Down /\ UNCHANGED <<log, postgres>>
        /\ disruptions' \in 0..MaxDisruptions
    BY <1>21 DEF Crash, Disrupt
  <2>2. CoreTypeOK'
    BY <2>1, DownType DEF postgres
  <2>3. CursorsOK'
    BY <2>1, DownCursors
  <2> QED
    BY <2>2, <2>3
<1>22. CASE GetManyFails
  BY <1>22 DEF GetManyFails, Disrupt, broker, reading, postgres, redis
<1>23. CASE UNCHANGED vars
  BY <1>23 DEF vars, broker, control, reading, postgres, redis, history
<1> QED
  BY <1>1, <1>2, <1>3, <1>4, <1>5, <1>6, <1>7, <1>8, <1>9, <1>10, <1>11, <1>12,
     <1>13, <1>14, <1>15, <1>16, <1>17, <1>18, <1>19, <1>20, <1>21, <1>22, <1>23
     DEF Next, Work

-----------------------------------------------------------------------------
(* What is read and not yet committed is held somewhere.                   *)

Flushing == pc \in {"insert", "upsert", "hot", "commit"}

\* The rows in flight are in `buffer` or in `rows`, never in both; after the
\* insert those in `rows` are in the database.
BufferOK ==
  /\ Flushing \/ pc = "down" => buffer = <<>>
  /\ ~Flushing => rows = <<>>
  /\ pc \in {"upsert", "hot", "commit"} => Keys(rows) \subseteq db

Held(p, o) ==
  \/ Stored(p, o)
  \/ <<p, o>> \in skipped
  \/ Key(log[p][o]) \in Keys(buffer) \cup Keys(rows)

\* Only the way out after a failed flush forgets rows: it commits nothing.
ReadOK ==
  \/ pc = "close" /\ buffer = <<>>
  \/ \A p \in Partition : \A o \in 1..cursor[p] : Held(p, o)

Inv == TypeInv /\ BufferOK /\ ReadOK /\ CommittedAccounted

\* An empty buffer has no keys.
LEMMA KeysOfEmpty == Keys(<<>>) = {}
  BY DEF Keys

\* Appending a row to a buffer adds its key.
LEMMA KeysOfAppend ==
  ASSUME NEW q \in Seq(Row), NEW r \in Row
  PROVE  Keys(Append(q, r)) = Keys(q) \cup {Key(r)}
<1>1. Append(q, r) \in Seq(Row) /\ Len(Append(q, r)) = Len(q) + 1
  BY AppendProperties
<1>2. \A i \in 1..Len(q) : Append(q, r)[i] = q[i]
  BY AppendProperties
<1>3. Append(q, r)[Len(q) + 1] = r
  BY AppendProperties
<1>4. DOMAIN q = 1..Len(q) /\ DOMAIN Append(q, r) = 1..(Len(q) + 1) /\ Len(q) \in Nat
  BY <1>1, LenProperties
<1> QED
  BY <1>2, <1>3, <1>4 DEF Keys

\* A row has the key of its message.
LEMMA KeyOfRow == ASSUME NEW m \in Message PROVE Key(RowOf(m)) = Key(m)
  BY DEF Key, RowOf

\* A step that leaves the data alone, and does not leave "close".
LEMMA Quiet ==
  ASSUME Inv, UNCHANGED <<log, committed, cursor, buffer, rows, db, skipped>>,
         pc' = pc \/ pc # "close"
  PROVE  ReadOK' /\ CommittedAccounted'
  BY DEF Inv, ReadOK, CommittedAccounted, Held, Stored

\* Ending the process keeps the invariant: it forgets the buffer and what it had read, and commits nothing that is not accounted for.
LEMMA DownInv ==
  ASSUME Inv, Down, committed' = committed, UNCHANGED <<log, db>>
  PROVE  BufferOK' /\ ReadOK' /\ CommittedAccounted'
<1>1. BufferOK'
  BY DEF Down, BufferOK, Flushing
<1>2. CommittedAccounted'
  <2> SUFFICES ASSUME NEW p \in Partition, NEW o \in 1..committed[p]
               PROVE  Stored(p, o) \/ <<p, o>> \in skipped'
    BY DEF CommittedAccounted, Stored
  <2>1. Stored(p, o) \/ <<p, o>> \in skipped
    BY DEF Inv, CommittedAccounted
  <2> QED
    BY <2>1 DEF Down
<1>3. ReadOK'
  BY <1>2 DEF Down, ReadOK, Held, CommittedAccounted
<1> QED
  BY <1>1, <1>2, <1>3

\* The accounting invariant holds at first.
LEMMA InvInit == Init => Inv
<1> SUFFICES ASSUME Init
             PROVE  BufferOK /\ ReadOK /\ CommittedAccounted
  BY TypeInit DEF Inv
<1>1. \A p \in Partition : cursor[p] = 0 /\ committed[p] = 0
  BY DEF Init, NowherePos
<1> QED
  BY <1>1 DEF Init, BufferOK, ReadOK, CommittedAccounted, Flushing

\* No step breaks the accounting invariant.
LEMMA InvNext == Inv /\ [Next]_vars => Inv'
<1> SUFFICES ASSUME Inv, [Next]_vars
             PROVE  BufferOK' /\ ReadOK' /\ CommittedAccounted'
  BY TypeNext DEF Inv
<1>a. TypeInv
  BY DEF Inv
<1>b. BufferOK
  BY DEF Inv
<1>c. CommittedAccounted
  BY DEF Inv
<1>d. cursor \in [Partition -> Nat] /\ buffer \in Seq(Row) /\ rows \in Seq(Row)
  BY <1>a DEF TypeInv, CoreTypeOK, ProcessTypeOK
<1>1. ASSUME NEW s \in Sat, NEW e \in Epoch, NEW k \in Kind, Produce(s, e, k)
      PROVE  BufferOK' /\ ReadOK' /\ CommittedAccounted'
  <2>1. UNCHANGED <<committed, control, reading, postgres, redis, history>>
    BY <1>1 DEF Produce
  <2>2. ASSUME NEW p \in Partition, NEW o \in 1..cursor[p]
        PROVE  log'[p][o] = log[p][o]
    <3>1. log[p] \in Seq(Message) /\ o \in 1..Len(log[p])
      BY <1>a DEF TypeInv, CoreTypeOK, BrokerTypeOK, ProcessTypeOK, CursorsOK
    <3>2. CASE p = PartitionOf[s]
      BY <1>1, <1>a, <3>1, <3>2, AppendProperties
         DEF Produce, TypeInv, CoreTypeOK, BrokerTypeOK
    <3>3. CASE p # PartitionOf[s]
      BY <1>1, <1>a, <3>3 DEF Produce, TypeInv, CoreTypeOK, BrokerTypeOK
    <3> QED
      BY <3>2, <3>3
  <2>3. BufferOK'
    BY <1>b, <2>1 DEF BufferOK, Flushing, control, reading, postgres
  <2>4. ReadOK'
    BY <2>1, <2>2 DEF Inv, ReadOK, Held, Stored, control, reading, postgres, history
  <2>5. ASSUME NEW p \in Partition, NEW o \in 1..committed[p]
        PROVE  o \in 1..cursor[p]
    BY <1>a DEF TypeInv, CoreTypeOK, BrokerTypeOK, ProcessTypeOK, CursorsOK
  <2>6. CommittedAccounted'
    BY <1>c, <2>1, <2>2, <2>5 DEF CommittedAccounted, Stored, postgres, history
  <2> QED
    BY <2>3, <2>4, <2>6
<1>2. CASE Elapse
  BY <1>2, <1>b, Quiet DEF Elapse, BufferOK, Flushing, broker, reading, postgres, history
<1>3. CASE Signal
  BY <1>3, <1>b, Quiet DEF Signal, BufferOK, Flushing, broker, reading, postgres
<1>4. CASE RedisRestart
  BY <1>4, <1>b, Quiet
     DEF RedisRestart, BufferOK, Flushing, broker, control, reading, postgres
<1>5. CASE Restart
  BY <1>5, <1>b, Quiet DEF Restart, BufferOK, Flushing, broker, reading, postgres, history
<1>6. CASE LeaveLoop
  BY <1>6, <1>b, Quiet DEF LeaveLoop, BufferOK, Flushing, broker, reading, postgres, history
<1>7. CASE GetMany
  BY <1>7, <1>b, Quiet DEF GetMany, BufferOK, Flushing, broker, postgres, history
<1>8. ASSUME NEW p \in Partition, DecodeRow(p)
      PROVE  BufferOK' /\ ReadOK' /\ CommittedAccounted'
  <2>1. AtRecord(p) /\ pc = "decode" /\ pc' = "decode"
    BY <1>8 DEF DecodeRow, AtRecord
  <2>2. NextOf(p) \in Message /\ RowOf(NextOf(p)) \in Row
    BY <1>a, <2>1, NextOfType, RowOfType
  <2>3. Keys(buffer') = Keys(buffer) \cup {Key(NextOf(p))}
    BY <1>8, <1>d, <2>2, KeysOfAppend, KeyOfRow DEF DecodeRow
  <2>4. UNCHANGED <<log, committed, db, skipped, rows>>
    BY <1>8 DEF DecodeRow, broker, postgres, history
  <2>5. BufferOK'
    BY <1>b, <2>1, <2>4 DEF BufferOK, Flushing
  <2>6. ReadOK'
    <3> SUFFICES ASSUME NEW q \in Partition, NEW o \in 1..cursor'[q]
                 PROVE  Held(q, o)'
      BY DEF ReadOK
    <3>1. CASE o \in 1..cursor[q]
      BY <2>1, <2>3, <2>4, <3>1 DEF Inv, ReadOK, Held, Stored
    <3>2. CASE o \notin 1..cursor[q]
      <4>1. q = p /\ o = cursor[p] + 1
        BY <1>8, <1>d, <3>2 DEF DecodeRow, Handled
      <4> QED
        BY <2>3, <2>4, <4>1 DEF Held, NextOf
    <3> QED
      BY <3>1, <3>2
  <2>7. CommittedAccounted'
    BY <1>c, <2>4 DEF CommittedAccounted, Stored
  <2> QED
    BY <2>5, <2>6, <2>7
<1>9. ASSUME NEW p \in Partition, DecodeError(p)
      PROVE  BufferOK' /\ ReadOK' /\ CommittedAccounted'
  <2>1. AtRecord(p) /\ pc = "decode" /\ pc' = "decode"
    BY <1>9 DEF DecodeError, AtRecord
  <2>2. skipped' = skipped \cup {<<p, cursor[p] + 1>>}
    BY <1>9 DEF DecodeError
  <2>3. UNCHANGED <<log, committed, db, buffer, rows>>
    BY <1>9 DEF DecodeError, broker, postgres
  <2>4. BufferOK'
    BY <1>b, <2>1, <2>3 DEF BufferOK, Flushing
  <2>5. ReadOK'
    <3> SUFFICES ASSUME NEW q \in Partition, NEW o \in 1..cursor'[q]
                 PROVE  Held(q, o)'
      BY DEF ReadOK
    <3>1. CASE o \in 1..cursor[q]
      BY <2>1, <2>2, <2>3, <3>1 DEF Inv, ReadOK, Held, Stored
    <3>2. CASE o \notin 1..cursor[q]
      <4>1. q = p /\ o = cursor[p] + 1
        BY <1>9, <1>d, <3>2 DEF DecodeError, Handled
      <4> QED
        BY <2>2, <4>1 DEF Held
    <3> QED
      BY <3>1, <3>2
  <2>6. CommittedAccounted'
    BY <1>c, <2>2, <2>3 DEF CommittedAccounted, Stored
  <2> QED
    BY <2>4, <2>5, <2>6
<1>10. ASSUME NEW p \in Partition, DecodeRaises(p)
       PROVE  BufferOK' /\ ReadOK' /\ CommittedAccounted'
  <2>1. pc = "decode" /\ pc' = "close" /\ cursor' = pos /\ skipped' = skipped \cup Batch
    BY <1>10 DEF DecodeRaises, AtRecord
  <2>2. UNCHANGED <<log, committed, db, buffer, rows>>
    BY <1>10 DEF DecodeRaises, broker, postgres
  <2>3. BufferOK'
    BY <1>b, <2>1, <2>2 DEF BufferOK, Flushing
  <2>4. ReadOK'
    <3> SUFFICES ASSUME NEW q \in Partition, NEW o \in 1..pos[q]
                 PROVE  Held(q, o)'
      BY <2>1 DEF ReadOK
    <3>1. CASE o \in 1..cursor[q]
      BY <2>1, <2>2, <3>1 DEF Inv, ReadOK, Held, Stored
    <3>2. CASE o \notin 1..cursor[q]
      <4>1. pos[q] \in 0..MaxLog
        BY <1>a DEF TypeInv, CoreTypeOK, ProcessTypeOK
      <4>2. <<q, o>> \in Batch
        BY <1>d, <3>2, <4>1 DEF Batch, Between, Offset
      <4> QED
        BY <2>1, <4>2 DEF Held
    <3> QED
      BY <3>1, <3>2
  <2>5. CommittedAccounted'
    BY <1>c, <2>1, <2>2 DEF CommittedAccounted, Stored
  <2> QED
    BY <2>3, <2>4, <2>5
<1>11. CASE BatchDone
  BY <1>11, <1>b, Quiet DEF BatchDone, BufferOK, Flushing, broker, reading, postgres, history
<1>12. CASE NoFlush
  BY <1>12, <1>b, Quiet DEF NoFlush, BufferOK, Flushing, broker, reading, postgres, history
<1>13. CASE EmptyFlush
  BY <1>13, <1>b, Quiet DEF EmptyFlush, BufferOK, Flushing, broker, reading, postgres, history
<1>14. CASE BeginFlush
  <2>1. /\ pc \in {"check", "close"} /\ buffer # <<>> /\ pc' = "insert"
        /\ rows' = buffer /\ buffer' = <<>>
        /\ UNCHANGED <<log, committed, db, skipped, cursor>>
    BY <1>14 DEF BeginFlush, broker, postgres, history
  <2>2. BufferOK'
    BY <2>1 DEF BufferOK, Flushing
  <2>3. rows = <<>>
    BY <1>b, <2>1 DEF BufferOK, Flushing
  <2>4. ReadOK'
    BY <2>1, <2>3, KeysOfEmpty DEF Inv, ReadOK, Held, Stored
  <2>5. CommittedAccounted'
    BY <1>c, <2>1 DEF CommittedAccounted, Stored
  <2> QED
    BY <2>2, <2>4, <2>5
<1>15. CASE InsertPositions
  <2>1. /\ pc = "insert" /\ pc' = "upsert" /\ db' = db \cup Keys(rows)
        /\ UNCHANGED <<log, committed, skipped, cursor, buffer, rows>>
    BY <1>15 DEF InsertPositions, broker, reading, history
  <2>2. BufferOK'
    BY <1>b, <2>1 DEF BufferOK, Flushing
  <2>3. ReadOK'
    BY <2>1 DEF Inv, ReadOK, Held, Stored
  <2>4. CommittedAccounted'
    BY <1>c, <2>1 DEF CommittedAccounted, Stored
  <2> QED
    BY <2>2, <2>3, <2>4
<1>16. CASE UpsertSatellites
  BY <1>16, <1>b, Quiet
     DEF UpsertSatellites, BufferOK, Flushing, broker, reading, history
<1>17. CASE WriteHotState
  BY <1>17, <1>b, Quiet
     DEF WriteHotState, BufferOK, Flushing, broker, reading, postgres, history
<1>18. CASE Commit
  <2>1. pc = "commit" /\ committed' = pos /\ UNCHANGED <<log, db>>
    BY <1>18 DEF Commit, postgres
  <2>2. cursor = pos /\ buffer = <<>> /\ Keys(rows) \subseteq db
    BY <1>a, <1>b, <2>1 DEF TypeInv, CursorsOK, BufferOK, Flushing
  <2>3. \A p \in Partition : \A o \in 1..pos[p] : Stored(p, o) \/ <<p, o>> \in skipped
    BY <2>1, <2>2, KeysOfEmpty DEF Inv, ReadOK, Held, Stored
  <2>4. \A p \in Partition : \A o \in 1..pos[p] : <<p, o>> \in skipped => <<p, o>> \in skipped'
    <3>1. CASE closing
      BY <1>18, <2>1, <3>1 DEF Commit, Down
    <3>2. CASE ~closing
      BY <1>18, <3>2 DEF Commit
    <3> QED
      BY <3>1, <3>2
  <2>5. rows' = <<>> /\ buffer' = <<>> /\ pc' \in {"down", "poll"} /\ cursor' = pos
    BY <1>18, <2>1, <2>2 DEF Commit, Down
  <2>6. BufferOK'
    BY <2>5 DEF BufferOK, Flushing
  <2>7. CommittedAccounted'
    BY <2>1, <2>3, <2>4 DEF CommittedAccounted, Stored
  <2>8. ReadOK'
    BY <2>1, <2>5, <2>7 DEF ReadOK, Held, CommittedAccounted
  <2> QED
    BY <2>6, <2>7, <2>8
<1>19. CASE FlushFails
  <2>1. Flushing /\ committed' = committed /\ UNCHANGED <<log, db>>
    BY <1>19 DEF FlushFails, Flushing, postgres
  <2>2. CASE closing
    <3>1. Down
      BY <1>19, <2>2 DEF FlushFails
    <3> QED
      BY <2>1, <3>1, DownInv
  <2>3. CASE ~closing
    <3>1. /\ pc' = "close" /\ rows' = <<>> /\ buffer' = <<>>
          /\ UNCHANGED skipped
      BY <1>19, <1>b, <2>1, <2>3 DEF FlushFails, BufferOK
    <3>2. BufferOK' /\ ReadOK'
      BY <3>1 DEF BufferOK, ReadOK, Flushing
    <3>3. CommittedAccounted'
      BY <1>c, <2>1, <3>1 DEF CommittedAccounted, Stored
    <3> QED
      BY <3>2, <3>3
  <2> QED
    BY <2>2, <2>3
<1>20. CASE CloseEmpty
  BY <1>20, DownInv DEF CloseEmpty, postgres
<1>21. CASE Crash
  BY <1>21, DownInv DEF Crash, postgres
<1>22. CASE GetManyFails
  BY <1>22, <1>b, Quiet DEF GetManyFails, BufferOK, Flushing, broker, reading, postgres
<1>23. CASE UNCHANGED vars
  BY <1>23, <1>b, Quiet
     DEF vars, BufferOK, Flushing, broker, control, reading, postgres, history
<1> QED
  BY <1>1, <1>2, <1>3, <1>4, <1>5, <1>6, <1>7, <1>8, <1>9, <1>10, <1>11, <1>12,
     <1>13, <1>14, <1>15, <1>16, <1>17, <1>18, <1>19, <1>20, <1>21, <1>22, <1>23
     DEF Next, Work

\* Whatever fails, a committed offset is that of a stored sample or of a
\* record whose decoding failed or was cut short.
THEOREM CommitsAreAccounted == Spec => []CommittedAccounted
<1>1. Inv => CommittedAccounted
  BY DEF Inv
<1> QED
  BY InvInit, InvNext, <1>1, PTL DEF Spec

-----------------------------------------------------------------------------
(* Durability, when no decoding fails that could have succeeded.           *)

SkipOK ==
  /\ schema # "poisoned"
  /\ \A r \in skipped : r[2] <= cursor[r[1]] /\ log[r[1]][r[2]].kind # "sample"

\* Nothing is skipped at first.
LEMMA SkipInit == Init => SkipOK
  BY DEF Init, SkipOK

\* What the process decodes next is of one of the kinds the topic holds.
LEMMA KindOfNext ==
  ASSUME TypeInv, NEW p \in Partition, AtRecord(p)
  PROVE  NextOf(p).kind \in Kind
  BY NextOfType DEF Message

\* A step that reads and skips nothing.
LEMMA SkipQuiet ==
  ASSUME SkipOK, UNCHANGED <<log, cursor, skipped, schema>>
  PROVE  SkipOK'
  BY DEF SkipOK

\* Ending the process skips nothing new when the topic is reliable.
LEMMA SkipDown ==
  ASSUME TypeInv, SkipOK, Down, UNCHANGED log
  PROVE  SkipOK'
  BY DEF Down, SkipOK

\* With a reliable registry only messages that are not samples are skipped.
LEMMA SkipNext ==
  ASSUME Reliable
  PROVE  TypeInv /\ SkipOK /\ [Next]_vars => SkipOK'
<1> SUFFICES ASSUME TypeInv, SkipOK, [Next]_vars
             PROVE  SkipOK'
  OBVIOUS
<1>a. /\ cursor \in [Partition -> Nat] /\ skipped \subseteq Offset
      /\ log \in [Partition -> Seq(Message)]
  BY DEF TypeInv, CoreTypeOK, BrokerTypeOK, ProcessTypeOK, HistoryTypeOK
<1>1. ASSUME NEW s \in Sat, NEW e \in Epoch, NEW k \in Kind, Produce(s, e, k)
      PROVE  SkipOK'
  <2>1. UNCHANGED <<schema, cursor, skipped>>
    BY <1>1 DEF Produce, control, reading, history
  <2>2. ASSUME NEW r \in skipped
        PROVE  log'[r[1]][r[2]] = log[r[1]][r[2]]
    <3> DEFINE p == r[1]
               o == r[2]
    <3>1. p \in Partition /\ o \in 1..MaxLog /\ o <= cursor[p]
      BY <1>a DEF SkipOK, Offset
    <3>2. log[p] \in Seq(Message) /\ o \in 1..Len(log[p])
      <4>1. cursor[p] \in Nat /\ pos[p] \in Nat /\ Len(log[p]) \in Nat
        BY <1>a, <3>1 DEF TypeInv, CoreTypeOK, ProcessTypeOK
      <4>2. cursor[p] <= pos[p] /\ pos[p] <= Len(log[p])
        BY <3>1 DEF TypeInv, CursorsOK
      <4> QED
        BY <1>a, <3>1, <4>1, <4>2
    <3>3. CASE p = PartitionOf[s]
      BY <1>1, <1>a, <3>1, <3>2, <3>3, AppendProperties DEF Produce
    <3>4. CASE p # PartitionOf[s]
      BY <1>1, <1>a, <3>1, <3>4 DEF Produce
    <3> QED
      BY <3>3, <3>4
  <2> QED
    BY <2>1, <2>2 DEF SkipOK
<1>2. CASE Elapse
  BY <1>2, SkipQuiet DEF Elapse, broker, reading, history
<1>3. CASE Signal
  BY <1>3, SkipQuiet DEF Signal, broker, reading
<1>4. CASE RedisRestart
  BY <1>4, SkipQuiet DEF RedisRestart, broker, control, reading
<1>5. CASE Restart
  BY <1>5, SkipQuiet DEF Restart, broker, reading, history
<1>6. CASE LeaveLoop
  BY <1>6, SkipQuiet DEF LeaveLoop, broker, reading, history
<1>7. CASE GetMany
  BY <1>7, SkipQuiet DEF GetMany, broker, history
<1>8. ASSUME NEW p \in Partition, DecodeRow(p)
      PROVE  SkipOK'
  <2>1. schema' = "parsed" /\ UNCHANGED <<log, skipped>>
    BY <1>8 DEF DecodeRow, broker, history
  <2>2. \A q \in Partition : cursor[q] <= cursor'[q] /\ cursor'[q] \in Nat
    BY <1>8, <1>a DEF DecodeRow, Handled
  <2>3. ASSUME NEW r \in skipped
        PROVE  r[2] <= cursor'[r[1]]
    <3>1. r[1] \in Partition /\ r[2] \in Nat /\ r[2] <= cursor[r[1]] /\ cursor[r[1]] \in Nat
      BY <1>a DEF SkipOK, Offset
    <3> QED
      BY <2>2, <3>1
  <2> QED
    BY <2>1, <2>3 DEF SkipOK
<1>9. ASSUME NEW p \in Partition, DecodeError(p)
      PROVE  SkipOK'
  <2>1. AtRecord(p)
    BY <1>9 DEF DecodeError
  <2>2. NextOf(p).kind = "garbled" /\ UNCHANGED schema
    BY <1>9, <2>1, KindOfNext DEF DecodeError, Reliable, SkipOK
  <2>3. skipped' = skipped \cup {<<p, cursor[p] + 1>>} /\ UNCHANGED log
    BY <1>9 DEF DecodeError, broker
  <2>4. /\ \A q \in Partition : cursor[q] <= cursor'[q] /\ cursor'[q] \in Nat
        /\ cursor'[p] = cursor[p] + 1
    BY <1>9, <1>a DEF DecodeError, Handled
  <2>5. ASSUME NEW r \in skipped
        PROVE  r[2] <= cursor'[r[1]] /\ log[r[1]][r[2]].kind # "sample"
    <3>1. r[1] \in Partition /\ r[2] \in Nat /\ r[2] <= cursor[r[1]] /\ cursor[r[1]] \in Nat
      BY <1>a DEF SkipOK, Offset
    <3> QED
      BY <2>4, <3>1 DEF SkipOK
  <2>6. cursor[p] + 1 <= cursor'[p] /\ log[p][cursor[p] + 1].kind # "sample"
    BY <2>2, <2>4 DEF NextOf
  <2> QED
    BY <2>2, <2>3, <2>5, <2>6 DEF SkipOK
<1>10. ASSUME NEW p \in Partition, DecodeRaises(p)
       PROVE  SkipOK'
  BY <1>10, KindOfNext DEF DecodeRaises, Reliable
<1>11. CASE BatchDone
  BY <1>11, SkipQuiet DEF BatchDone, broker, reading, history
<1>12. CASE NoFlush
  BY <1>12, SkipQuiet DEF NoFlush, broker, reading, history
<1>13. CASE EmptyFlush
  BY <1>13, SkipQuiet DEF EmptyFlush, broker, reading, history
<1>14. CASE BeginFlush
  BY <1>14, SkipQuiet DEF BeginFlush, broker, history
<1>15. CASE InsertPositions
  BY <1>15, SkipQuiet DEF InsertPositions, broker, reading, history
<1>16. CASE UpsertSatellites
  BY <1>16, SkipQuiet DEF UpsertSatellites, broker, reading, history
<1>17. CASE WriteHotState
  BY <1>17, SkipQuiet DEF WriteHotState, broker, reading, history
<1>18. CASE Commit
  <2>1. CASE closing
    BY <1>18, <2>1, SkipDown DEF Commit
  <2>2. CASE ~closing
    BY <1>18, <2>2, SkipQuiet DEF Commit
  <2> QED
    BY <2>1, <2>2
<1>19. CASE FlushFails
  <2>1. CASE closing
    BY <1>19, <2>1, SkipDown DEF FlushFails
  <2>2. CASE ~closing
    BY <1>19, <2>2, SkipQuiet DEF FlushFails
  <2> QED
    BY <2>1, <2>2
<1>20. CASE CloseEmpty
  BY <1>20, SkipDown DEF CloseEmpty
<1>21. CASE Crash
  BY <1>21, SkipDown DEF Crash
<1>22. CASE GetManyFails
  BY <1>22, SkipQuiet DEF GetManyFails, broker, reading
<1>23. CASE UNCHANGED vars
  BY <1>23, SkipQuiet DEF vars, broker, control, reading, history
<1> QED
  BY <1>1, <1>2, <1>3, <1>4, <1>5, <1>6, <1>7, <1>8, <1>9, <1>10, <1>11, <1>12,
     <1>13, <1>14, <1>15, <1>16, <1>17, <1>18, <1>19, <1>20, <1>21, <1>22, <1>23
     DEF Next, Work

\* "Only commit Kafka offsets after DB + Redis succeed": when the registry
\* answers and the topic holds samples and undecodable bytes only, every
\* committed sample is in Postgres, at every moment and after any number of
\* crashes, failed flushes and restarts.
THEOREM CommitsAreDurable ==
  ASSUME Reliable
  PROVE  Spec => []CommittedIsDurable
<1>1. Init => Inv /\ SkipOK
  BY InvInit, SkipInit
<1>2. Inv /\ SkipOK /\ [Next]_vars => Inv' /\ SkipOK'
  BY InvNext, SkipNext DEF Inv
<1>3. Inv /\ SkipOK => CommittedIsDurable
  <2> SUFFICES ASSUME Inv, SkipOK, NEW p \in Partition, NEW o \in 1..committed[p],
                      log[p][o].kind = "sample"
               PROVE  Stored(p, o)
    BY DEF CommittedIsDurable
  <2>1. Stored(p, o) \/ <<p, o>> \in skipped
    BY DEF Inv, CommittedAccounted
  <2> QED
    BY <2>1 DEF SkipOK
<1> QED
  BY <1>1, <1>2, <1>3, PTL DEF Spec

-----------------------------------------------------------------------------
(* The buffer is bounded.                                                  *)

\* Outside the batch loop the batch is empty, and a fetch starts from a
\* buffer that is not due.
SizeOK ==
  /\ pc = "poll" => Len(buffer) < FlushRows
  /\ BufferBound

\* The offsets between two cursors are finitely many.
LEMMA BetweenFinite ==
  ASSUME NEW from, NEW to
  PROVE  IsFiniteSet(Between(from, to)) /\ Cardinality(Between(from, to)) \in Nat
<1>1. IsFiniteSet(1..MaxLog)
  BY FS_Interval, BoundAssumption
<1>2. IsFiniteSet(Offset)
  BY <1>1, FS_Product, TopicAssumption DEF Offset
<1>3. Between(from, to) \in SUBSET Offset
  BY DEF Between
<1> QED
  BY <1>2, <1>3, FS_Subset, FS_CardinalityType

\* There is nothing between a cursor and itself.
LEMMA BetweenNothing ==
  ASSUME NEW f \in [Partition -> Nat]
  PROVE  Cardinality(Between(f, f)) = 0
<1>1. Between(f, f) = {}
  BY DEF Between, Offset
<1> QED
  BY <1>1, FS_EmptySet

\* The loop over the batch takes one record out of it.
LEMMA BatchShrinks ==
  ASSUME TypeInv, NEW p \in Partition, AtRecord(p), Handled(p), pos' = pos
  PROVE  Cardinality(Batch') = Cardinality(Batch) - 1
<1>1. cursor \in [Partition -> Nat] /\ pos \in [Partition -> Nat]
  BY DEF TypeInv, CoreTypeOK, ProcessTypeOK
<1>2. <<p, cursor[p] + 1>> \in Batch
  <2>1. cursor[p] + 1 \in 1..MaxLog
    BY NextOfType
  <2> QED
    BY <1>1, <2>1 DEF Batch, Between, Offset, AtRecord
<1>3. Batch' = Batch \ {<<p, cursor[p] + 1>>}
  <2>1. ASSUME NEW r \in Offset
        PROVE  (cursor'[r[1]] < r[2]) <=> (cursor[r[1]] < r[2] /\ r # <<p, cursor[p] + 1>>)
    <3>1. r[1] \in Partition /\ r[2] \in Nat /\ r = <<r[1], r[2]>>
      BY DEF Offset
    <3>2. CASE r[1] = p
      <4>1. cursor'[p] = cursor[p] + 1
        BY <1>1 DEF Handled
      <4> QED
        BY <1>1, <3>1, <3>2, <4>1
    <3>3. CASE r[1] # p
      <4>1. cursor'[r[1]] = cursor[r[1]]
        BY <1>1, <3>1, <3>3 DEF Handled
      <4> QED
        BY <3>3, <4>1
    <3> QED
      BY <3>2, <3>3
  <2> QED
    BY <2>1 DEF Batch, Between
<1>4. IsFiniteSet(Batch)
  BY BetweenFinite DEF Batch
<1>5. Cardinality(Batch \ {<<p, cursor[p] + 1>>}) = Cardinality(Batch) - 1
  <2>1. ASSUME NEW r \in Batch
        PROVE  Cardinality(Batch \ {r}) = Cardinality(Batch) - 1
    BY <1>4, FS_RemoveElement
  <2> QED
    BY <1>2, <2>1, Zenon
<1> QED
  BY <1>3, <1>5

\* A step that empties the buffer and the batch, or leaves both alone.
LEMMA SizeQuiet ==
  ASSUME SizeOK, UNCHANGED <<buffer, cursor, pos>>,
         pc' # "poll" \/ pc = "poll" \/ Len(buffer) < FlushRows
  PROVE  SizeOK'
  BY DEF SizeOK, BufferBound, Batch

\* An emptied buffer is within its bound.
LEMMA SizeEmptied ==
  ASSUME buffer' = <<>>, cursor' = pos', pos' \in [Partition -> Nat]
  PROVE  SizeOK'
<1>1. Cardinality(Batch') = 0
  BY BetweenNothing DEF Batch
<1>2. Len(buffer') = 0
  OBVIOUS
<1> QED
  BY <1>1, <1>2, BoundAssumption DEF SizeOK, BufferBound

\* The buffer is within its bound at first.
LEMMA SizeInit == Init => SizeOK
<1> SUFFICES ASSUME Init
             PROVE  SizeOK
  OBVIOUS
<1>1. cursor = pos /\ pos \in [Partition -> Nat] /\ buffer = <<>>
  BY DEF Init, NowherePos
<1>2. Cardinality(Batch) = 0
  BY <1>1, BetweenNothing DEF Batch
<1>3. Len(buffer) = 0
  BY <1>1
<1> QED
  BY <1>2, <1>3, BoundAssumption DEF SizeOK, BufferBound

\* No step takes the buffer over its bound.
LEMMA SizeNext == Inv /\ SizeOK /\ [Next]_vars => SizeOK'
<1> SUFFICES ASSUME Inv, SizeOK, [Next]_vars
             PROVE  SizeOK'
  OBVIOUS
<1>a. TypeInv /\ BufferOK
  BY DEF Inv
<1>b. TypeInv'
  BY <1>a, TypeNext
<1>c. /\ cursor \in [Partition -> Nat] /\ pos \in [Partition -> Nat]
      /\ committed \in [Partition -> Nat] /\ buffer \in Seq(Row) /\ Len(buffer) \in Nat
  BY <1>a DEF TypeInv, CoreTypeOK, BrokerTypeOK, ProcessTypeOK
<1>d. Cardinality(Batch) \in Nat /\ Cardinality(Batch') \in Nat
  BY BetweenFinite DEF Batch
<1>1. ASSUME NEW s \in Sat, NEW e \in Epoch, NEW k \in Kind, Produce(s, e, k)
      PROVE  SizeOK'
  BY <1>1, SizeQuiet DEF Produce, control, reading
<1>2. CASE Elapse
  BY <1>2, SizeQuiet DEF Elapse, reading
<1>3. CASE Signal
  BY <1>3, SizeQuiet DEF Signal, reading
<1>4. CASE RedisRestart
  BY <1>4, SizeQuiet DEF RedisRestart, control, reading
<1>5. CASE Restart
  <2>1. Len(buffer) < FlushRows
    BY <1>5, <1>a, <1>c, BoundAssumption DEF Restart, BufferOK
  <2> QED
    BY <1>5, <2>1, SizeQuiet DEF Restart, reading
<1>6. CASE LeaveLoop
  BY <1>6, SizeQuiet DEF LeaveLoop, reading
<1>7. CASE GetMany
  <2>1. PICK upto : Cardinality(Between(pos, upto)) <= FlushRows /\ pos' = upto
    BY <1>7 DEF GetMany
  <2>2. pc = "poll" /\ pc' = "decode" /\ UNCHANGED <<buffer, cursor>> /\ cursor = pos
    BY <1>7, <1>a DEF GetMany, TypeInv, CursorsOK
  <2>3. Cardinality(Batch') <= FlushRows
    BY <2>1, <2>2 DEF Batch
  <2>4. Len(buffer) < FlushRows
    BY <2>2 DEF SizeOK
  <2> QED
    BY <1>c, <1>d, <2>2, <2>3, <2>4, BoundAssumption DEF SizeOK, BufferBound
<1>8. ASSUME NEW p \in Partition, DecodeRow(p)
      PROVE  SizeOK'
  <2>1. AtRecord(p) /\ Handled(p) /\ pos' = pos /\ pc' = "decode"
    BY <1>8 DEF DecodeRow, AtRecord
  <2>2. RowOf(NextOf(p)) \in Row
    BY <1>a, <2>1, NextOfType, RowOfType
  <2>3. Len(buffer') = Len(buffer) + 1
    BY <1>8, <1>c, <2>2, AppendProperties DEF DecodeRow
  <2>4. Cardinality(Batch') = Cardinality(Batch) - 1
    BY <1>a, <2>1, BatchShrinks
  <2> QED
    BY <1>c, <1>d, <2>1, <2>3, <2>4, BoundAssumption DEF SizeOK, BufferBound
<1>9. ASSUME NEW p \in Partition, DecodeError(p)
      PROVE  SizeOK'
  <2>1. AtRecord(p) /\ Handled(p) /\ pos' = pos /\ pc' = "decode" /\ buffer' = buffer
    BY <1>9 DEF DecodeError, AtRecord
  <2>2. Cardinality(Batch') = Cardinality(Batch) - 1
    BY <1>a, <2>1, BatchShrinks
  <2> QED
    BY <1>c, <1>d, <2>1, <2>2, BoundAssumption DEF SizeOK, BufferBound
<1>10. ASSUME NEW p \in Partition, DecodeRaises(p)
       PROVE  SizeOK'
  <2>1. cursor' = pos' /\ pos' = pos /\ pc' = "close" /\ buffer' = buffer
    BY <1>10 DEF DecodeRaises
  <2>2. Cardinality(Batch') = 0
    BY <1>c, <2>1, BetweenNothing DEF Batch
  <2> QED
    BY <1>c, <1>d, <2>1, <2>2, BoundAssumption DEF SizeOK, BufferBound
<1>11. CASE BatchDone
  BY <1>11, SizeQuiet DEF BatchDone, reading
<1>12. CASE NoFlush
  <2>1. Len(buffer) < FlushRows
    BY <1>12, <1>c, BoundAssumption DEF NoFlush, FlushDue
  <2> QED
    BY <1>12, <2>1, SizeQuiet DEF NoFlush, reading
<1>13. CASE EmptyFlush
  <2>1. buffer' = <<>> /\ cursor' = pos' /\ pos' = pos
    BY <1>13, <1>a DEF EmptyFlush, reading, TypeInv, CursorsOK
  <2> QED
    BY <1>c, <2>1, SizeEmptied
<1>14. CASE BeginFlush
  <2>1. buffer' = <<>> /\ cursor' = pos' /\ pos' = pos
    BY <1>14, <1>a DEF BeginFlush, TypeInv, CursorsOK
  <2> QED
    BY <1>c, <2>1, SizeEmptied
<1>15. CASE InsertPositions
  BY <1>15, SizeQuiet DEF InsertPositions, reading
<1>16. CASE UpsertSatellites
  BY <1>16, SizeQuiet DEF UpsertSatellites, reading
<1>17. CASE WriteHotState
  BY <1>17, SizeQuiet DEF WriteHotState, reading
<1>18. CASE Commit
  <2>1. buffer' = <<>> /\ cursor' = pos' /\ pos' = pos
    BY <1>18, <1>a DEF Commit, Down, TypeInv, CursorsOK, BufferOK, Flushing
  <2> QED
    BY <1>c, <2>1, SizeEmptied
<1>19. CASE FlushFails
  <2>1. CASE closing
    BY <1>19, <1>c, <2>1, SizeEmptied DEF FlushFails, Down
  <2>2. CASE ~closing
    BY <1>19, <2>2, SizeQuiet DEF FlushFails
  <2> QED
    BY <2>1, <2>2
<1>20. CASE CloseEmpty
  BY <1>20, <1>c, SizeEmptied DEF CloseEmpty, Down
<1>21. CASE Crash
  BY <1>21, <1>c, SizeEmptied DEF Crash, Down
<1>22. CASE GetManyFails
  BY <1>22, SizeQuiet DEF GetManyFails, reading
<1>23. CASE UNCHANGED vars
  BY <1>23, SizeQuiet DEF vars, control, reading
<1> QED
  BY <1>1, <1>2, <1>3, <1>4, <1>5, <1>6, <1>7, <1>8, <1>9, <1>10, <1>11, <1>12,
     <1>13, <1>14, <1>15, <1>16, <1>17, <1>18, <1>19, <1>20, <1>21, <1>22, <1>23
     DEF Next, Work

\* The buffer and what remains of the batch never exceed two batches less
\* one row, the batches being of FLUSH_ROWS at most.
THEOREM BufferIsBounded == Spec => []BufferBound
<1>1. Init => Inv /\ SizeOK
  BY InvInit, SizeInit
<1>2. Inv /\ SizeOK /\ [Next]_vars => Inv' /\ SizeOK'
  BY InvNext, SizeNext
<1>3. SizeOK => BufferBound
  BY DEF SizeOK
<1> QED
  BY <1>1, <1>2, <1>3, PTL DEF Spec

-----------------------------------------------------------------------------
(* What never goes back.                                                   *)

\* A step leaves the committed offsets, or commits the position read up to.
LEMMA CommittedStep ==
  ASSUME TypeInv, [Next]_vars
  PROVE  committed' = committed \/ committed' = pos
<1> USE DEF broker, postgres
<1>1. CASE \E s \in Sat, e \in Epoch, k \in Kind : Produce(s, e, k)
  BY <1>1 DEF Produce
<1>2. CASE Work
  BY <1>2 DEF Work, LeaveLoop, GetMany, DecodeRow, DecodeError, DecodeRaises,
     BatchDone, NoFlush, EmptyFlush, BeginFlush, InsertPositions,
     UpsertSatellites, WriteHotState, Commit, CloseEmpty
<1>3. CASE Elapse \/ Signal \/ RedisRestart \/ Restart \/ GetManyFails
  BY <1>3 DEF Elapse, Signal, RedisRestart, Restart, GetManyFails
<1>4. CASE FlushFails \/ Crash
  BY <1>4 DEF FlushFails, Crash
<1>5. CASE UNCHANGED vars
  BY <1>5 DEF vars
<1> QED
  BY <1>1, <1>2, <1>3, <1>4, <1>5 DEF Next

\* The committed offset of a partition never moves back, whatever crashes
\* and restarts there are between two commits.
THEOREM CommitsNeverRegress == Spec => CommitNeverRegresses
<1>1. TypeInv /\ [Next]_vars
        => [\A p \in Partition : committed'[p] >= committed[p]]_committed
  <2> SUFFICES ASSUME TypeInv, [Next]_vars, NEW p \in Partition
               PROVE  committed'[p] >= committed[p]
    OBVIOUS
  <2>1. committed[p] \in Nat /\ cursor[p] \in Nat /\ pos[p] \in Nat
    BY DEF TypeInv, CoreTypeOK, BrokerTypeOK, ProcessTypeOK
  <2>2. committed[p] <= cursor[p] /\ cursor[p] <= pos[p]
    BY DEF TypeInv, CursorsOK
  <2>3. committed' = committed \/ committed' = pos
    BY CommittedStep
  <2> QED
    BY <2>1, <2>2, <2>3
<1> QED
  BY TypeInit, TypeNext, <1>1, PTL DEF Spec, CommitNeverRegresses

-----------------------------------------------------------------------------
(* The persister implements an at-least-once sink.                         *)

\* A record knows its offset and is on the partition of its satellite.
LogOK ==
  \A p \in Partition : \A o \in 1..Len(log[p]) :
    log[p][o].t = o /\ PartitionOf[log[p][o].sat] = p

\* Every key in the database, or on its way there, is that of a record.
KeysLogged ==
  \A k \in db \cup Keys(buffer) \cup Keys(rows) :
    k[2] <= Len(log[PartitionOf[k[1]]])

\* The keys of a typed buffer are pairs of a satellite and an offset.
LEMMA KeysTyped ==
  ASSUME TypeInv
  PROVE  db \cup Keys(buffer) \cup Keys(rows) \subseteq Sat \X (1..MaxLog)
<1>1. buffer \in Seq(Row) /\ rows \in Seq(Row) /\ db \subseteq Sat \X (1..MaxLog)
  BY DEF TypeInv, CoreTypeOK, ProcessTypeOK, PostgresTypeOK
<1>2. ASSUME NEW q \in Seq(Row)
      PROVE  Keys(q) \subseteq Sat \X (1..MaxLog)
  <2>1. ASSUME NEW j \in DOMAIN q
        PROVE  Key(q[j]) \in Sat \X (1..MaxLog)
    <3>1. q[j] \in Row
      OBVIOUS
    <3> QED
      BY <3>1 DEF Key, Row
  <2> QED
    BY <2>1 DEF Keys
<1> QED
  BY <1>1, <1>2

\* Publishing appends one message to one partition and leaves the rest of the log.
LEMMA LogGrows ==
  ASSUME TypeInv, NEW s \in Sat, NEW e \in Epoch, NEW k \in Kind, Produce(s, e, k)
  PROVE  /\ PartitionOf[s] \in Partition
         /\ Len(log[PartitionOf[s]]) \in Nat
         /\ Len(log'[PartitionOf[s]]) = Len(log[PartitionOf[s]]) + 1
         /\ log'[PartitionOf[s]][Len(log[PartitionOf[s]]) + 1].sat = s
         /\ log'[PartitionOf[s]][Len(log[PartitionOf[s]]) + 1].t = Len(log[PartitionOf[s]]) + 1
         /\ \A p \in Partition : p # PartitionOf[s] => log'[p] = log[p]
         /\ \A p \in Partition : \A o \in 1..Len(log[p]) : log'[p][o] = log[p][o]
<1> DEFINE q == PartitionOf[s]
           m == [sat |-> s, t |-> Len(log[q]) + 1, epoch |-> e, kind |-> k]
<1>1. q \in Partition /\ log \in [Partition -> Seq(Message)] /\ log[q] \in Seq(Message)
  BY TopicAssumption DEF TypeInv, CoreTypeOK, BrokerTypeOK
<1>2. m \in Message
  BY <1>1 DEF Produce, Message
<1>3. log' = [log EXCEPT ![q] = Append(log[q], m)]
  BY DEF Produce
<1>4. log'[q] = Append(log[q], m)
  BY <1>1, <1>3
<1>5. \A p \in Partition : p # q => log'[p] = log[p]
  BY <1>1, <1>3
<1>6. /\ Len(Append(log[q], m)) = Len(log[q]) + 1
      /\ Append(log[q], m)[Len(log[q]) + 1] = m
      /\ \A o \in 1..Len(log[q]) : Append(log[q], m)[o] = log[q][o]
  BY <1>1, <1>2, AppendProperties
<1>7. Len(log[q]) \in Nat
  BY <1>1, LenProperties
<1>8. \A p \in Partition : \A o \in 1..Len(log[p]) : log'[p][o] = log[p][o]
  BY <1>4, <1>5, <1>6
<1> QED
  BY <1>1, <1>4, <1>5, <1>6, <1>7, <1>8

\* Every row and every buffered key comes from the log, at first.
LEMMA LogInit == Init => LogOK /\ KeysLogged
<1> SUFFICES ASSUME Init
             PROVE  LogOK /\ KeysLogged
  OBVIOUS
<1>1. \A p \in Partition : Len(log[p]) = 0
  BY DEF Init
<1>2. db \cup Keys(buffer) \cup Keys(rows) = {}
  BY KeysOfEmpty DEF Init
<1> QED
  BY <1>1, <1>2 DEF LogOK, KeysLogged

\* A step that publishes nothing and brings no new key.
LEMMA LogQuiet ==
  ASSUME LogOK, KeysLogged, log' = log,
         db' \cup Keys(buffer') \cup Keys(rows') \subseteq
           db \cup Keys(buffer) \cup Keys(rows)
  PROVE  LogOK' /\ KeysLogged'
  BY DEF LogOK, KeysLogged

\* No step makes a row, or buffers a key, that is not in the log.
LEMMA LogNext == TypeInv /\ LogOK /\ KeysLogged /\ [Next]_vars => LogOK' /\ KeysLogged'
<1> SUFFICES ASSUME TypeInv, LogOK, KeysLogged, [Next]_vars
             PROVE  LogOK' /\ KeysLogged'
  OBVIOUS
<1> USE DEF broker, reading, postgres
<1>1. ASSUME NEW s \in Sat, NEW e \in Epoch, NEW k \in Kind, Produce(s, e, k)
      PROVE  LogOK' /\ KeysLogged'
  <2> DEFINE q == PartitionOf[s]
  <2>1. UNCHANGED <<db, buffer, rows>>
    BY <1>1 DEF Produce
  <2>a. q \in Partition /\ Len(log[q]) \in Nat /\ Len(log'[q]) = Len(log[q]) + 1
    BY <1>1, LogGrows
  <2>b. /\ log'[q][Len(log[q]) + 1].sat = s
        /\ log'[q][Len(log[q]) + 1].t = Len(log[q]) + 1
    BY <1>1, LogGrows
  <2>c. \A p \in Partition : p # q => log'[p] = log[p]
    BY <1>1, LogGrows
  <2>d. \A p \in Partition : \A o \in 1..Len(log[p]) : log'[p][o] = log[p][o]
    BY <1>1, LogGrows
  <2>2. LogOK'
    <3> SUFFICES ASSUME NEW p \in Partition, NEW o \in 1..Len(log'[p])
                 PROVE  log'[p][o].t = o /\ PartitionOf[log'[p][o].sat] = p
      BY DEF LogOK
    <3>1. CASE o \in 1..Len(log[p])
      BY <2>d, <3>1 DEF LogOK
    <3>2. CASE o \notin 1..Len(log[p])
      <4>1. p = q
        BY <2>c, <3>2
      <4>2. o = Len(log[q]) + 1
        BY <2>a, <3>2, <4>1
      <4> QED
        BY <2>b, <4>1, <4>2
    <3> QED
      BY <3>1, <3>2
  <2>3. ASSUME NEW x \in db \cup Keys(buffer) \cup Keys(rows)
        PROVE  x[2] <= Len(log'[PartitionOf[x[1]]])
    <3>1. x[1] \in Sat /\ x[2] \in Nat /\ PartitionOf[x[1]] \in Partition
      BY KeysTyped, TopicAssumption
    <3>2. x[2] <= Len(log[PartitionOf[x[1]]])
      BY DEF KeysLogged
    <3>3. CASE PartitionOf[x[1]] = q
      BY <2>a, <3>1, <3>2, <3>3
    <3>4. CASE PartitionOf[x[1]] # q
      BY <2>c, <3>1, <3>2, <3>4
    <3> QED
      BY <3>3, <3>4
  <2> QED
    BY <2>1, <2>2, <2>3 DEF KeysLogged
<1>2. CASE Elapse \/ Signal \/ RedisRestart \/ Restart \/ GetManyFails
  <2>1. UNCHANGED <<log, db, buffer, rows>>
    BY <1>2 DEF Elapse, Signal, RedisRestart, Restart, GetManyFails
  <2> QED
    BY <2>1, LogQuiet
<1>3. ASSUME NEW p \in Partition, DecodeRow(p)
      PROVE  LogOK' /\ KeysLogged'
  <2>1. AtRecord(p) /\ UNCHANGED <<log, db, rows>>
    BY <1>3 DEF DecodeRow
  <2>2. /\ cursor[p] + 1 \in 1..Len(log[p])
        /\ NextOf(p) \in Message /\ RowOf(NextOf(p)) \in Row /\ buffer \in Seq(Row)
    BY <2>1, NextOfType, RowOfType DEF TypeInv, CoreTypeOK, ProcessTypeOK
  <2>3. Keys(buffer') = Keys(buffer) \cup {Key(NextOf(p))}
    BY <1>3, <2>2, KeysOfAppend, KeyOfRow DEF DecodeRow
  <2>4. NextOf(p).t = cursor[p] + 1 /\ PartitionOf[NextOf(p).sat] = p
    BY <2>2 DEF LogOK, NextOf
  <2>5. Key(NextOf(p))[2] <= Len(log[PartitionOf[Key(NextOf(p))[1]]])
    BY <2>2, <2>4 DEF Key
  <2> QED
    BY <2>1, <2>3, <2>5 DEF LogOK, KeysLogged
<1>4. ASSUME NEW p \in Partition, DecodeError(p) \/ DecodeRaises(p)
      PROVE  LogOK' /\ KeysLogged'
  <2>1. UNCHANGED <<log, db, buffer, rows>>
    BY <1>4 DEF DecodeError, DecodeRaises
  <2> QED
    BY <2>1, LogQuiet
<1>5. CASE LeaveLoop \/ GetMany \/ BatchDone \/ NoFlush \/ EmptyFlush
             \/ UpsertSatellites \/ WriteHotState
  <2>1. UNCHANGED <<log, db, buffer, rows>>
    BY <1>5 DEF LeaveLoop, GetMany, BatchDone, NoFlush, EmptyFlush,
       UpsertSatellites, WriteHotState
  <2> QED
    BY <2>1, LogQuiet
<1>6. CASE BeginFlush
  BY <1>6, LogQuiet, KeysOfEmpty DEF BeginFlush
<1>7. CASE InsertPositions
  BY <1>7, LogQuiet DEF InsertPositions
<1>8. CASE Commit \/ FlushFails
  <2>1. /\ UNCHANGED <<log, db>> /\ rows' = <<>>
        /\ buffer' = <<>> \/ buffer' = buffer
    BY <1>8 DEF Commit, FlushFails, Down
  <2> QED
    BY <2>1, LogQuiet, KeysOfEmpty
<1>9. CASE CloseEmpty \/ Crash
  <2>1. UNCHANGED <<log, db>> /\ rows' = <<>> /\ buffer' = <<>>
    BY <1>9 DEF CloseEmpty, Crash, Down
  <2> QED
    BY <2>1, LogQuiet, KeysOfEmpty
<1>10. CASE UNCHANGED vars
  <2>1. UNCHANGED <<log, db, buffer, rows>>
    BY <1>10 DEF vars
  <2> QED
    BY <2>1, LogQuiet
<1> QED
  BY <1>1, <1>2, <1>3, <1>4, <1>5, <1>6, <1>7, <1>8, <1>9, <1>10 DEF Next, Work

\* Under a reliable registry a step of the persister is a step of the sink,
\* or leaves what the sink sees as it was.
LEMMA SinkStep ==
  ASSUME Inv, Inv', SkipOK', LogOK, KeysLogged, [Next]_vars
  PROVE  [Sink!Next]_(Sink!vars)
<1>a. TypeInv
  BY DEF Inv
<1> USE DEF broker, reading, postgres
<1>1. ASSUME NEW s \in Sat, NEW e \in Epoch, NEW k \in Kind, Produce(s, e, k)
      PROVE  [Sink!Next]_(Sink!vars)
  <2> DEFINE q == PartitionOf[s]
             n == Len(log[q]) + 1
  <2>a. UNCHANGED <<db, committed>> /\ Len(log[q]) < MaxLog
    BY <1>1 DEF Produce
  <2>b. q \in Partition /\ Len(log[q]) \in Nat /\ Len(log'[q]) = n
    BY <1>1, <1>a, LogGrows
  <2>c. log'[q][n].sat = s /\ log'[q][n].t = n
    BY <1>1, <1>a, LogGrows
  <2>d. \A p \in Partition : p # q => log'[p] = log[p]
    BY <1>1, <1>a, LogGrows
  <2>e. \A p \in Partition : \A o \in 1..Len(log[p]) : log'[p][o] = log[p][o]
    BY <1>1, <1>a, LogGrows
  <2>1. published' = [published EXCEPT ![q] = @ + 1]
    BY <2>b, <2>d DEF published
  <2>2. published[q] + 1 = n
    BY <2>b DEF published
  <2>f. ASSUME NEW r \in Offset, r # <<q, n>>
        PROVE  /\ r \in wanted' <=> r \in wanted
               /\ r \in wanted => log'[r[1]][r[2]] = log[r[1]][r[2]]
    <3>1. r[1] \in Partition /\ r[2] \in 1..MaxLog /\ r = <<r[1], r[2]>>
      BY DEF Offset
    <3>2. CASE r[1] = q
      <4>1. r[2] # n /\ r[2] \in Nat /\ r[2] >= 1
        BY <2>f, <3>1, <3>2, BoundAssumption
      <4>2. r[2] <= Len(log'[q]) <=> r[2] <= Len(log[q])
        BY <2>b, <4>1
      <4>3. r[2] <= Len(log[q]) => log'[q][r[2]] = log[q][r[2]]
        BY <2>b, <2>e, <4>1
      <4> QED
        BY <3>2, <4>2, <4>3 DEF wanted
    <3>3. CASE r[1] # q
      BY <2>d, <3>1, <3>3 DEF wanted
    <3> QED
      BY <3>2, <3>3
  <2>3. wanted' \in {wanted, wanted \cup {<<q, n>>}}
    <3>1. wanted \subseteq Offset /\ wanted' \subseteq Offset
      BY DEF wanted
    <3>2. <<q, n>> \notin wanted
      BY <2>b DEF wanted
    <3>3. \A r : r # <<q, n>> => (r \in wanted' <=> r \in wanted)
      BY <2>f, <3>1, Zenon
    <3>4. CASE <<q, n>> \in wanted'
      <4>1. \A r : r \in wanted' <=> r \in wanted \cup {<<q, n>>}
        BY <3>3, <3>4, Zenon
      <4>2. wanted' = wanted \cup {<<q, n>>}
        BY <4>1, Zenon
      <4> QED
        BY <4>2
    <3>5. CASE <<q, n>> \notin wanted'
      <4>1. \A r : r \in wanted' <=> r \in wanted
        BY <3>2, <3>3, <3>5, Zenon
      <4>2. wanted' = wanted
        BY <4>1, Zenon
      <4> QED
        BY <4>2
    <3> QED
      BY <3>4, <3>5
  <2>4. stored' = stored
    <3>1. <<q, n>> \notin stored'
      <4>1. <<s, n>> \notin db
        BY <2>b DEF KeysLogged
      <4> QED
        BY <2>a, <2>c, <4>1 DEF stored, Stored, Key
    <3>2. <<q, n>> \notin stored
      BY <2>b DEF stored, wanted
    <3>3. ASSUME NEW r \in Offset, r # <<q, n>>
          PROVE  r \in stored' <=> r \in stored
      BY <2>a, <2>f, <3>3 DEF stored, Stored
    <3>4. stored \subseteq Offset /\ stored' \subseteq Offset
      BY DEF stored, wanted
    <3>5. \A r : r \in stored' <=> r \in stored
      BY <3>1, <3>2, <3>3, <3>4, Zenon
    <3> QED
      BY <3>5, Zenon
  <2> QED
    BY <2>a, <2>b, <2>1, <2>2, <2>3, <2>4 DEF Sink!Next, Sink!Publish
<1>2. ASSUME UNCHANGED <<log, db, committed>>
      PROVE  [Sink!Next]_(Sink!vars)
  BY <1>2 DEF Sink!vars, published, wanted, stored, Stored
<1>3. CASE InsertPositions
  <2>1. db \subseteq db' /\ UNCHANGED <<log, committed>>
    BY <1>3 DEF InsertPositions
  <2>2. UNCHANGED <<published, wanted, committed>>
    BY <2>1 DEF published, wanted
  <2>3. stored \subseteq stored' /\ stored' \subseteq wanted
    BY <2>1, <2>2 DEF stored, Stored
  <2> QED
    BY <2>2, <2>3 DEF Sink!Next, Sink!Store
<1>4. CASE Commit
  <2>1. committed' = pos /\ UNCHANGED <<log, db>>
    BY <1>4 DEF Commit
  <2>2. UNCHANGED <<published, wanted, stored>>
    BY <2>1 DEF published, wanted, stored, Stored
  <2>3. committed' \in [Partition -> Nat]
    BY <1>a, <2>1 DEF TypeInv, CoreTypeOK, ProcessTypeOK
  <2>4. ASSUME NEW p \in Partition
        PROVE  committed[p] <= committed'[p] /\ committed'[p] <= published[p]
    <3>1. /\ committed[p] \in Nat /\ cursor[p] \in Nat /\ pos[p] \in Nat
          /\ Len(log[p]) \in Nat
      BY <1>a DEF TypeInv, CoreTypeOK, BrokerTypeOK, ProcessTypeOK
    <3>2. committed[p] <= cursor[p] /\ cursor[p] <= pos[p] /\ pos[p] <= Len(log[p])
      BY <1>a DEF TypeInv, CursorsOK
    <3> QED
      BY <2>1, <3>1, <3>2 DEF published
  <2>5. ASSUME NEW p \in Partition, NEW o \in 1..committed'[p], <<p, o>> \in wanted
        PROVE  <<p, o>> \in stored
    <3>1. log[p][o].kind = "sample"
      BY <2>5 DEF wanted
    <3>2. Stored(p, o)' \/ <<p, o>> \in skipped'
      BY DEF Inv, CommittedAccounted
    <3>3. <<p, o>> \notin skipped'
      BY <2>1, <3>1 DEF SkipOK
    <3> QED
      BY <2>1, <2>5, <3>2, <3>3 DEF stored, Stored
  <2> QED
    BY <2>2, <2>3, <2>4, <2>5 DEF Sink!Next, Sink!Ack
<1>5. CASE Elapse \/ Signal \/ RedisRestart \/ Restart \/ GetManyFails
  <2>1. UNCHANGED <<log, db, committed>>
    BY <1>5 DEF Elapse, Signal, RedisRestart, Restart, GetManyFails
  <2> QED
    BY <2>1, <1>2
<1>6. ASSUME NEW p \in Partition, DecodeRow(p) \/ DecodeError(p) \/ DecodeRaises(p)
      PROVE  [Sink!Next]_(Sink!vars)
  <2>1. UNCHANGED <<log, db, committed>>
    BY <1>6 DEF DecodeRow, DecodeError, DecodeRaises
  <2> QED
    BY <2>1, <1>2
<1>7. CASE LeaveLoop \/ GetMany \/ BatchDone \/ NoFlush \/ EmptyFlush
             \/ BeginFlush \/ UpsertSatellites \/ WriteHotState
  <2>1. UNCHANGED <<log, db, committed>>
    BY <1>7 DEF LeaveLoop, GetMany, BatchDone, NoFlush, EmptyFlush,
       BeginFlush, UpsertSatellites, WriteHotState
  <2> QED
    BY <2>1, <1>2
<1>8. CASE FlushFails \/ CloseEmpty \/ Crash
  <2>1. UNCHANGED <<log, db, committed>>
    BY <1>8 DEF FlushFails, CloseEmpty, Crash
  <2> QED
    BY <2>1, <1>2
<1>9. CASE UNCHANGED vars
  <2>1. UNCHANGED <<log, db, committed>>
    BY <1>9 DEF vars
  <2> QED
    BY <2>1, <1>2
<1> QED
  BY <1>1, <1>3, <1>4, <1>5, <1>6, <1>7, <1>8, <1>9 DEF Next, Work

\* The persister, under a reliable registry, is an at-least-once sink: seen
\* through what is published, stored and committed, each of its steps is one
\* of AtLeastOnce or changes nothing.
THEOREM RefinesAtLeastOnce ==
  ASSUME Reliable
  PROVE  Spec => ImplementsAtLeastOnce
<1>1. Init => Inv /\ SkipOK /\ LogOK /\ KeysLogged
  BY InvInit, SkipInit, LogInit
<1>2. Inv /\ SkipOK /\ LogOK /\ KeysLogged /\ [Next]_vars
        => Inv' /\ SkipOK' /\ LogOK' /\ KeysLogged'
  BY InvNext, SkipNext, LogNext DEF Inv
<1>3. Init => Sink!Init
  <2> SUFFICES ASSUME Init
               PROVE  Sink!Init
    OBVIOUS
  <2>1. \A p \in Partition : Len(log[p]) = 0
    BY DEF Init
  <2>2. published = [p \in Partition |-> 0] /\ wanted = {} /\ stored = {}
    BY <2>1 DEF published, wanted, stored, Offset
  <2> QED
    BY <2>2 DEF Init, NowherePos, Sink!Init
<1>4. /\ Inv /\ SkipOK /\ LogOK /\ KeysLogged
      /\ Inv' /\ SkipOK' /\ [Next]_vars
      => [Sink!Next]_(Sink!vars)
  BY SinkStep
<1> QED
  BY <1>1, <1>2, <1>3, <1>4, PTL DEF Spec, ImplementsAtLeastOnce, Sink!Spec

-----------------------------------------------------------------------------
(* Redis shows nothing that Postgres lacks.                                *)

\* A function on an interval is a sequence of that length.
LEMMA SeqOfFunction ==
  ASSUME NEW S, NEW n \in Nat, NEW f \in [1..n -> S]
  PROVE  f \in Seq(S) /\ Len(f) = n /\ DOMAIN f = 1..n
<1>1. f \in Seq(S)
  BY SeqDef
<1>2. Len(f) \in Nat /\ 1..Len(f) = 1..n
  BY <1>1, LenProperties
<1>3. ~(n < Len(f)) /\ ~(Len(f) < n)
  <2>1. Len(f) \in 1..Len(f) => Len(f) \in 1..n
    BY <1>2
  <2>2. n \in 1..n => n \in 1..Len(f)
    BY <1>2
  <2> QED
    BY <1>2, <2>1, <2>2
<1> QED
  BY <1>1, <1>2, <1>3

\* The times of the rows of s, the last row first: each is that of a row, and
\* each row is among them.
LEMMA RowTimesIs ==
  ASSUME CoreTypeOK, NEW s \in Sat
  PROVE  /\ Cardinality(RowIndex(s)) \in Nat
         /\ RowTimes(s) \in Seq(1..MaxLog)
         /\ Len(RowTimes(s)) = Cardinality(RowIndex(s))
         /\ \A j \in 1..Cardinality(RowIndex(s)) :
              /\ Latest(RowIndex(s), j) \in RowIndex(s)
              /\ RowTimes(s)[j] = rows[Latest(RowIndex(s), j)].t
         /\ \A i \in RowIndex(s) : \E j \in 1..Cardinality(RowIndex(s)) :
              RowTimes(s)[j] = rows[i].t
<1> DEFINE I == RowIndex(s)
           n == Cardinality(I)
<1>1. /\ I \in SUBSET Nat /\ IsFiniteSet(I) /\ n \in Nat
      /\ \A i \in I : rows[i] \in Row /\ rows[i].t \in 1..MaxLog
  BY RowIndexFinite, FS_CardinalityType DEF Row
<1>2. \A j \in 1..n : Latest(I, j) \in I
  BY <1>1, LatestIs
<1>3. \A i \in I : \E j \in 1..n : Latest(I, j) = i
  BY <1>1, LatestReaches
<1> HIDE DEF I
<1>4. RowTimes(s) = [j \in 1..n |-> rows[Latest(I, j)].t]
  BY DEF RowTimes, I
<1> HIDE DEF n
<1>5. RowTimes(s) \in [1..n -> 1..MaxLog]
  BY <1>1, <1>2, <1>4
<1>6. RowTimes(s) \in Seq(1..MaxLog) /\ Len(RowTimes(s)) = n
  BY <1>1, <1>5, SeqOfFunction
<1>7. \A i \in I : \E j \in 1..n : RowTimes(s)[j] = rows[i].t
  BY <1>3, <1>4
<1> QED
  BY <1>1, <1>2, <1>4, <1>6, <1>7 DEF I, n

\* The smaller of two numbers.
LEMMA MinOfTwo ==
  ASSUME NEW a \in Nat, NEW b \in Nat
  PROVE  Min({a, b}) = IF a <= b THEN a ELSE b
<1>1. {a, b} \in SUBSET Nat /\ {a, b} # {}
  OBVIOUS
<1>2. Min({a, b}) \in {a, b} /\ \A y \in {a, b} : Min({a, b}) <= y
  BY <1>1, NatMin
<1> QED
  BY <1>2

\* The list before it is trimmed.
Untrimmed(s) == RowTimes(s) \o track[s]

\* The list after the flush is a prefix of the rows' times and the list before.
LEMMA PushedIs ==
  ASSUME CoreTypeOK, RedisTypeOK, NEW s \in Sat
  PROVE  LET n == Cardinality(RowIndex(s))
             N == Untrimmed(s)
             m == IF TrackMax <= Len(N) THEN TrackMax ELSE Len(N)
         IN  /\ N \in Seq(1..MaxLog) /\ Len(N) \in Nat /\ n \in Nat
             /\ Len(track[s]) \in Nat /\ Len(N) = n + Len(track[s])
             /\ \A j \in 1..n : N[j] = RowTimes(s)[j]
             /\ \A j \in 1..Len(track[s]) : N[n + j] = track[s][j]
             /\ m \in Nat /\ m <= Len(N)
             /\ Pushed(s) = SubSeq(N, 1, m)
<1> DEFINE n == Cardinality(RowIndex(s))
           N == Untrimmed(s)
<1>1. track[s] \in Seq(1..MaxLog) /\ RowTimes(s) \in Seq(1..MaxLog) /\ n \in Nat /\ Len(RowTimes(s)) = n
  BY RowTimesIs DEF RedisTypeOK
<1> HIDE DEF n
<1>2. Len(track[s]) \in Nat
  BY <1>1, LenProperties
<1>3. /\ N \in Seq(1..MaxLog) /\ Len(N) = n + Len(track[s])
      /\ \A i \in 1..n + Len(track[s]) :
           N[i] = IF i <= n THEN RowTimes(s)[i] ELSE track[s][i - n]
  BY <1>1, ConcatProperties, ZenonT(30) DEF Untrimmed
<1>4. \A j \in 1..n : N[j] = RowTimes(s)[j]
  <2> TAKE j \in 1..n
  <2>1. j \in 1..n + Len(track[s]) /\ j <= n
    BY <1>1, <1>2
  <2> QED
    BY <1>3, <2>1
<1>5. \A j \in 1..Len(track[s]) : N[n + j] = track[s][j]
  <2> TAKE j \in 1..Len(track[s])
  <2>1. n + j \in 1..n + Len(track[s]) /\ ~(n + j <= n) /\ (n + j) - n = j
    BY <1>1, <1>2
  <2> QED
    BY <1>3, <2>1
<1>6. Len(N) \in Nat
  BY <1>1, <1>2, <1>3
<1>7. Pushed(s) = SubSeq(N, 1, IF TrackMax <= Len(N) THEN TrackMax ELSE Len(N))
  <2>1. Pushed(s) = SubSeq(N, 1, Min({TrackMax, Len(N)}))
    BY DEF Pushed, Untrimmed
  <2> HIDE DEF N
  <2>2. Min({TrackMax, Len(N)}) = IF TrackMax <= Len(N) THEN TrackMax ELSE Len(N)
    BY <1>6, MinOfTwo
  <2> QED
    BY <2>1, <2>2
<1> HIDE DEF N
<1> DEFINE m == IF TrackMax <= Len(N) THEN TrackMax ELSE Len(N)
<1>8. m \in Nat /\ m <= Len(N)
  BY <1>6
<1> QED
  BY <1>1, <1>2, <1>3, <1>4, <1>5, <1>6, <1>7, <1>8 DEF n, N

\* A prefix of a sequence.
LEMMA PrefixIs ==
  ASSUME NEW S, NEW q \in Seq(S), NEW m \in Nat, m <= Len(q)
  PROVE  /\ SubSeq(q, 1, m) \in Seq(S)
         /\ Len(SubSeq(q, 1, m)) = m
         /\ DOMAIN SubSeq(q, 1, m) = 1..m
         /\ \A i \in 1..m : SubSeq(q, 1, m)[i] = q[i]
<1>0. Len(q) \in Nat
  BY LenProperties
<1>1. \A i \in 1..m : q[i] \in S
  BY <1>0, ElementOfSeq
<1>2. /\ SubSeq(q, 1, m) \in Seq(S)
      /\ Len(SubSeq(q, 1, m)) = IF 1 <= m THEN m - 1 + 1 ELSE 0
      /\ \A i \in 1..m - 1 + 1 : SubSeq(q, 1, m)[i] = q[1 + i - 1]
  BY <1>1, SubSeqProperties
<1>3. Len(SubSeq(q, 1, m)) = m
  BY <1>2
<1>4. \A i \in 1..m : SubSeq(q, 1, m)[i] = q[i]
  BY <1>2
<1> QED
  BY <1>2, <1>3, <1>4, LenProperties

\* Redis changes with a flush, or when it restarts; Postgres only grows.
LEMMA StoreSteps ==
  ASSUME [Next]_vars
  PROVE  /\ \/ UNCHANGED redis
            \/ WriteHotState
            \/ RedisRestart
         /\ db \subseteq db'
<1>1. CASE \E s \in Sat, e \in Epoch, k \in Kind : Produce(s, e, k)
  BY <1>1 DEF Produce, postgres
<1>2. CASE Elapse \/ Signal \/ Restart \/ GetManyFails
  BY <1>2 DEF Elapse, Signal, Restart, GetManyFails, redis, postgres
<1>3. CASE RedisRestart
  BY <1>3 DEF RedisRestart, postgres
<1>4. CASE LeaveLoop \/ GetMany \/ BatchDone \/ NoFlush \/ EmptyFlush \/ BeginFlush
  BY <1>4 DEF LeaveLoop, GetMany, BatchDone, NoFlush, EmptyFlush, BeginFlush, postgres
<1>5. CASE \E p \in Partition : DecodeRow(p) \/ DecodeError(p) \/ DecodeRaises(p)
  BY <1>5 DEF DecodeRow, DecodeError, DecodeRaises, postgres
<1>6. CASE InsertPositions \/ UpsertSatellites
  BY <1>6 DEF InsertPositions, UpsertSatellites
<1>7. CASE WriteHotState
  BY <1>7 DEF WriteHotState, postgres
<1>8. CASE Commit \/ FlushFails \/ CloseEmpty \/ Crash
  BY <1>8 DEF Commit, FlushFails, CloseEmpty, Crash, postgres
<1>9. CASE UNCHANGED vars
  BY <1>9 DEF vars, postgres
<1> QED
  BY <1>1, <1>2, <1>3, <1>4, <1>5, <1>6, <1>7, <1>8, <1>9 DEF Next, Work

\* The keys of the rows of s.
LEMMA RowKeys ==
  ASSUME CoreTypeOK, NEW s \in Sat, NEW i \in RowIndex(s)
  PROVE  rows[i].t \in 1..MaxLog /\ <<s, rows[i].t>> \in Keys(rows)
<1>1. i \in DOMAIN rows /\ rows[i] \in Row /\ rows[i].sat = s
  BY RowIndexFinite
<1> QED
  BY <1>1 DEF Keys, Key, Row

\* The score given is that of the last row, or stays.
LEMMA ScoredIs ==
  ASSUME CoreTypeOK, NEW s \in Sat
  PROVE  \/ RowIndex(s) = {} /\ Scored(s) = active[s]
         \/ \E i \in RowIndex(s) : Scored(s) = rows[i].t /\ \A k \in RowIndex(s) : k <= i
<1>1. RowIndex(s) \in SUBSET Nat /\ IsFiniteSet(RowIndex(s))
  BY RowIndexFinite
<1>2. CASE RowIndex(s) = {}
  BY <1>2 DEF Scored
<1>3. CASE RowIndex(s) # {}
  <2>1. Max(RowIndex(s)) \in RowIndex(s) /\ \A k \in RowIndex(s) : k <= Max(RowIndex(s))
    BY <1>1, <1>3, FiniteMax
  <2>2. Scored(s) = rows[Max(RowIndex(s))].t
    BY <1>3 DEF Scored
  <2> QED
    BY <2>1, <2>2
<1> QED
  BY <1>2, <1>3

\* An element of the new list is the time of a row or was in the list before.
LEMMA PushedFrom ==
  ASSUME CoreTypeOK, RedisTypeOK, NEW s \in Sat
  PROVE  /\ Pushed(s) \in Seq(1..MaxLog) /\ Len(Pushed(s)) <= TrackMax
         /\ \A j \in DOMAIN Pushed(s) :
              \/ \E i \in RowIndex(s) : Pushed(s)[j] = rows[i].t
              \/ \E i \in DOMAIN track[s] : Pushed(s)[j] = track[s][i]
<1> DEFINE n == Cardinality(RowIndex(s))
           N == Untrimmed(s)
           l == Len(track[s])
           m == IF TrackMax <= Len(N) THEN TrackMax ELSE Len(N)
<1>1. /\ N \in Seq(1..MaxLog) /\ Len(N) \in Nat /\ n \in Nat /\ l \in Nat /\ Len(N) = n + l
      /\ \A j \in 1..n : N[j] = RowTimes(s)[j]
      /\ \A j \in 1..l : N[n + j] = track[s][j]
      /\ m \in Nat /\ m <= Len(N)
      /\ Pushed(s) = SubSeq(N, 1, m)
  BY PushedIs
<1>2. \A j \in 1..n : \E i \in RowIndex(s) : RowTimes(s)[j] = rows[i].t
  BY RowTimesIs
<1>3. DOMAIN track[s] = 1..l
  BY DEF RedisTypeOK
<1>4. m <= TrackMax
  BY <1>1
<1> HIDE DEF n, N, l, m
<1>5. /\ Pushed(s) \in Seq(1..MaxLog) /\ Len(Pushed(s)) = m /\ DOMAIN Pushed(s) = 1..m
      /\ \A j \in 1..m : Pushed(s)[j] = N[j]
  BY <1>1, PrefixIs
<1>6. ASSUME NEW j \in 1..m
      PROVE  \/ \E i \in RowIndex(s) : N[j] = rows[i].t
             \/ \E i \in DOMAIN track[s] : N[j] = track[s][i]
  <2>1. CASE j \in 1..n
    BY <1>1, <1>2, <2>1
  <2>2. CASE j \notin 1..n
    <3>1. j - n \in 1..l /\ n + (j - n) = j
      BY <1>1, <2>2
    <3> QED
      BY <1>1, <1>3, <3>1
  <2> QED
    BY <2>1, <2>2
<1> QED
  BY <1>4, <1>5, <1>6

\* A step leaves Redis typed.
LEMMA RedisTypeNext ==
  ASSUME CoreTypeOK, RedisTypeOK, [Next]_vars
  PROVE  RedisTypeOK'
<1>1. CASE UNCHANGED redis
  BY <1>1 DEF redis, RedisTypeOK
<1>2. CASE RedisRestart
  <2>1. <<>> \in Seq(1..MaxLog) /\ Len(<<>>) <= TrackMax
    BY EmptySeq
  <2> QED
    BY <1>2, <2>1 DEF RedisRestart, RedisTypeOK
<1>3. CASE WriteHotState
  <2>1. \A s \in Sat : Scored(s) \in 0..MaxLog
    <3> TAKE s \in Sat
    <3>1. ASSUME NEW i \in RowIndex(s) PROVE rows[i].t \in 0..MaxLog
      <4>1. rows[i].t \in 1..MaxLog
        BY RowKeys
      <4> QED
        BY <4>1
    <3> QED
      BY <3>1, ScoredIs DEF RedisTypeOK
  <2> QED
    BY <1>3, <2>1, PushedFrom DEF WriteHotState, RedisTypeOK
<1> QED
  BY <1>1, <1>2, <1>3, StoreSteps

\* A step shows nothing in Redis that is not stored.
LEMMA HotIsDurableNext ==
  ASSUME Inv, RedisTypeOK, HotIsDurable, [Next]_vars
  PROVE  HotIsDurable'
<1>1. CoreTypeOK /\ BufferOK
  BY DEF Inv, TypeInv
<1>2. db \subseteq db'
  BY StoreSteps
<1>3. CASE UNCHANGED redis
  BY <1>2, <1>3 DEF redis, HotIsDurable
<1>4. CASE RedisRestart
  BY <1>4 DEF RedisRestart, HotIsDurable
<1>5. CASE WriteHotState
  <2>0. Keys(rows) \subseteq db
    BY <1>1, <1>5 DEF BufferOK, WriteHotState
  <2>1. \A s \in Sat : \A i \in RowIndex(s) : <<s, rows[i].t>> \in db
    <3> TAKE s \in Sat
    <3> TAKE i \in RowIndex(s)
    <3> QED
      BY <1>1, <2>0, RowKeys
  <2>2. \A s \in Sat : active'[s] # 0 => <<s, active'[s]>> \in db
    BY <1>1, <1>5, <2>1, ScoredIs DEF WriteHotState, HotIsDurable
  <2>3. ASSUME NEW s \in Sat, NEW j \in DOMAIN Pushed(s)
        PROVE  <<s, Pushed(s)[j]>> \in db
    BY <1>1, <2>1, PushedFrom DEF HotIsDurable
  <2>4. track' = [s \in Sat |-> Pushed(s)]
    BY <1>5 DEF WriteHotState
  <2> QED
    BY <1>2, <2>2, <2>3, <2>4 DEF HotIsDurable
<1> QED
  BY <1>3, <1>4, <1>5, StoreSteps

RedisInv == Inv /\ RedisTypeOK /\ HotIsDurable

\* At first Redis is empty.
LEMMA RedisInit == Init => RedisInv
<1> SUFFICES ASSUME Init PROVE RedisTypeOK /\ HotIsDurable
  BY InvInit DEF RedisInv
<1>1. <<>> \in Seq(1..MaxLog) /\ Len(<<>>) <= TrackMax
  BY EmptySeq
<1> QED
  BY <1>1 DEF Init, RedisTypeOK, HotIsDurable

\* No step breaks the invariant.
LEMMA RedisNext == RedisInv /\ [Next]_vars => RedisInv'
<1> SUFFICES ASSUME RedisInv, [Next]_vars PROVE RedisInv'
  OBVIOUS
<1>1. Inv /\ CoreTypeOK /\ RedisTypeOK /\ HotIsDurable
  BY DEF RedisInv, Inv, TypeInv
<1> QED
  BY <1>1, InvNext, RedisTypeNext, HotIsDurableNext DEF RedisInv

\* So it holds in every state.
LEMMA RedisInvAlways == Spec => []RedisInv
BY RedisInit, RedisNext, PTL DEF Spec

\* Every variable has its type, and no track list is longer than TRACK_LIST_MAX.
THEOREM TypesCorrect == Spec => []TypeOK
<1>1. RedisInv => TypeOK
  BY DEF RedisInv, Inv, TypeInv, TypeOK
<1> QED
  BY <1>1, RedisInvAlways, PTL

\* Redis never shows a position that Postgres does not have: flush() inserts
\* before it pushes, whatever fails in between.
THEOREM HotStateDurable == Spec => []HotIsDurable
<1>1. RedisInv => HotIsDurable
  BY DEF RedisInv
<1> QED
  BY <1>1, RedisInvAlways, PTL

-----------------------------------------------------------------------------
(* Lists of sample times.                                                  *)

Descending(q) == \A i, j \in DOMAIN q : i < j => q[i] > q[j]

\* Every number of T between the last element of q and its first is in q.
GapFree(q, T) ==
  \A i \in DOMAIN q : \A t \in T :
    q[Len(q)] <= t /\ t < q[i] => \E j \in DOMAIN q : q[j] = t

\* The length, the domain and the elements of a list of numbers.
LEMMA NatSeq ==
  ASSUME NEW q \in Seq(Nat)
  PROVE  Len(q) \in Nat /\ DOMAIN q = 1..Len(q) /\ \A i \in DOMAIN q : q[i] \in Nat
BY LenProperties, ElementOfSeq

\* What is cut off at the end leaves a list in order, and without gaps.
LEMMA PrefixDescends ==
  ASSUME NEW q \in Seq(Nat), NEW m \in Nat, m <= Len(q), Descending(q)
  PROVE  Descending(SubSeq(q, 1, m))
<1> DEFINE r == SubSeq(q, 1, m)
<1>1. Len(q) \in Nat /\ DOMAIN q = 1..Len(q)
  BY NatSeq
<1>2. DOMAIN r = 1..m /\ \A i \in 1..m : r[i] = q[i]
  BY PrefixIs
<1> HIDE DEF r
<1>3. \A i \in 1..m : i \in DOMAIN q
  BY <1>1
<1>4. ASSUME NEW i \in 1..m, NEW j \in 1..m, i < j PROVE r[i] > r[j]
  BY <1>2, <1>3, <1>4 DEF Descending
<1>5. Descending(r)
  BY <1>2, <1>4 DEF Descending
<1> QED
  BY <1>5 DEF r

\* ... and no gap in it.
LEMMA PrefixGapFree ==
  ASSUME NEW q \in Seq(Nat), NEW m \in Nat, m <= Len(q), NEW T \in SUBSET Nat,
         Descending(q), GapFree(q, T)
  PROVE  GapFree(SubSeq(q, 1, m), T)
<1> DEFINE r == SubSeq(q, 1, m)
<1>1. Len(q) \in Nat /\ DOMAIN q = 1..Len(q) /\ \A i \in DOMAIN q : q[i] \in Nat
  BY NatSeq
<1>2. DOMAIN r = 1..m /\ Len(r) = m /\ \A i \in 1..m : r[i] = q[i]
  BY PrefixIs
<1> HIDE DEF r
<1>3. ASSUME NEW i \in 1..m, NEW t \in T, r[m] <= t, t < r[i]
      PROVE  \E j \in 1..m : r[j] = t
  <2>1. i \in DOMAIN q /\ m \in 1..m /\ m \in DOMAIN q /\ Len(q) \in DOMAIN q
    BY <1>1
  <2>2. r[i] = q[i] /\ r[m] = q[m]
    BY <1>2, <2>1
  <2>3. q[i] \in Nat /\ q[m] \in Nat /\ q[Len(q)] \in Nat /\ t \in Nat
    BY <1>1, <2>1
  <2>4. q[Len(q)] <= q[m]
    <3> DEFINE l == Len(q)
    <3>0. l \in Nat /\ m <= l
      BY <1>1
    <3> HIDE DEF l
    <3>a. m = l \/ m < l
      BY <3>0
    <3>1. m = Len(q) \/ m < Len(q)
      BY <3>a DEF l
    <3>2. m < Len(q) => q[m] > q[Len(q)]
      BY <2>1 DEF Descending
    <3> QED
      BY <2>3, <3>1, <3>2
  <2>5. q[Len(q)] <= t /\ t < q[i]
    BY <1>3, <2>2, <2>3, <2>4
  <2>6. PICK j \in DOMAIN q : q[j] = t
    BY <2>1, <2>5 DEF GapFree
  <2>7. ~(m < j)
    <3> SUFFICES ASSUME m < j PROVE FALSE
      OBVIOUS
    <3>1. q[m] > q[j]
      BY <2>1 DEF Descending
    <3> QED
      BY <1>3, <2>2, <2>3, <2>6, <3>1
  <2>8. j \in 1..m
    BY <1>1, <2>7
  <2> QED
    BY <1>2, <2>6, <2>8
<1>4. GapFree(r, T)
  BY <1>2, <1>3 DEF GapFree
<1> QED
  BY <1>4 DEF r

\* The head of a list in order is its largest element.
LEMMA HeadIsLargest ==
  ASSUME NEW q \in Seq(Nat), Descending(q), NEW i \in DOMAIN q
  PROVE  1 \in DOMAIN q /\ q[i] <= q[1] /\ q # <<>>
<1>1. Len(q) \in Nat /\ DOMAIN q = 1..Len(q) /\ \A k \in DOMAIN q : q[k] \in Nat
  BY NatSeq
<1>2. 1 \in DOMAIN q /\ (i = 1 \/ 1 < i)
  BY <1>1
<1>3. q[i] <= q[1]
  BY <1>1, <1>2 DEF Descending
<1> QED
  BY <1>2, <1>3

\* A list f of times newer than c, before a list q of times up to c.
LEMMA ConcatIs ==
  ASSUME NEW f \in Seq(Nat), NEW q \in Seq(Nat)
  PROVE  /\ f \o q \in Seq(Nat)
         /\ Len(f \o q) = Len(f) + Len(q)
         /\ DOMAIN (f \o q) = 1..(Len(f) + Len(q))
         /\ \A i \in DOMAIN f : i \in DOMAIN (f \o q) /\ (f \o q)[i] = f[i]
         /\ \A i \in DOMAIN q : /\ Len(f) + i \in DOMAIN (f \o q)
                                /\ (f \o q)[Len(f) + i] = q[i]
         /\ \A k \in DOMAIN (f \o q) :
              \/ k \in DOMAIN f
              \/ k - Len(f) \in DOMAIN q /\ Len(f) + (k - Len(f)) = k
<1>1. /\ Len(f) \in Nat /\ DOMAIN f = 1..Len(f)
      /\ Len(q) \in Nat /\ DOMAIN q = 1..Len(q)
  BY NatSeq
<1> DEFINE N == f \o q
<1>2. /\ N \in Seq(Nat) /\ Len(N) = Len(f) + Len(q)
      /\ \A i \in 1..(Len(f) + Len(q)) : N[i] = IF i <= Len(f) THEN f[i] ELSE q[i - Len(f)]
  BY ConcatProperties
<1>3. DOMAIN N = 1..(Len(f) + Len(q))
  BY <1>2, NatSeq
<1> HIDE DEF N
<1>4. \A i \in DOMAIN f : i \in DOMAIN N /\ N[i] = f[i]
  BY <1>1, <1>2, <1>3
<1>5. ASSUME NEW i \in DOMAIN q PROVE Len(f) + i \in DOMAIN N /\ N[Len(f) + i] = q[i]
  <2>1. /\ Len(f) + i \in 1..(Len(f) + Len(q)) /\ ~(Len(f) + i <= Len(f))
        /\ (Len(f) + i) - Len(f) = i
    BY <1>1
  <2> QED
    BY <1>2, <1>3, <2>1
<1>6. ASSUME NEW k \in DOMAIN N
      PROVE  k \in DOMAIN f \/ (k - Len(f) \in DOMAIN q /\ Len(f) + (k - Len(f)) = k)
  BY <1>1, <1>3
<1> QED
  BY <1>2, <1>3, <1>4, <1>5, <1>6 DEF N

\* If f is newer than all of q, f before q is in order.
LEMMA ConcatDescends ==
  ASSUME NEW f \in Seq(Nat), NEW q \in Seq(Nat), NEW c \in Nat,
         Descending(f), Descending(q),
         \A i \in DOMAIN f : c < f[i],
         \A i \in DOMAIN q : q[i] <= c
  PROVE  Descending(f \o q)
<1> DEFINE N == f \o q
<1>1. /\ N \in Seq(Nat)
      /\ \A i \in DOMAIN f : i \in DOMAIN N /\ N[i] = f[i]
      /\ \A i \in DOMAIN q : Len(f) + i \in DOMAIN N /\ N[Len(f) + i] = q[i]
      /\ \A k \in DOMAIN N : k \in DOMAIN f \/ (k - Len(f) \in DOMAIN q /\ Len(f) + (k - Len(f)) = k)
  BY ConcatIs
<1>2. /\ Len(f) \in Nat /\ DOMAIN f = 1..Len(f) /\ \A i \in DOMAIN f : f[i] \in Nat
      /\ Len(q) \in Nat /\ DOMAIN q = 1..Len(q) /\ \A i \in DOMAIN q : q[i] \in Nat
      /\ Len(N) \in Nat /\ DOMAIN N = 1..Len(N)
  BY <1>1, NatSeq
<1> HIDE DEF N
<1>3. ASSUME NEW i \in DOMAIN N, NEW j \in DOMAIN N, i < j
      PROVE  N[i] > N[j]
  <2>0. i \in Nat /\ j \in Nat
    BY <1>2
  <2>1. CASE j \in DOMAIN f
    <3>1. i \in DOMAIN f
      BY <1>2, <1>3, <2>1
    <3> QED
      BY <1>1, <1>3, <2>1, <3>1 DEF Descending
  <2>2. CASE i \in DOMAIN f /\ j \notin DOMAIN f
    <3>1. j - Len(f) \in DOMAIN q /\ N[j] = q[j - Len(f)] /\ N[i] = f[i]
      BY <1>1, <2>2
    <3>2. q[j - Len(f)] \in Nat /\ q[j - Len(f)] <= c /\ f[i] \in Nat /\ c < f[i]
      BY <1>2, <2>2, <3>1
    <3> QED
      BY <3>1, <3>2
  <2>3. CASE i \notin DOMAIN f /\ j \notin DOMAIN f
    <3>1. /\ j - Len(f) \in DOMAIN q /\ N[j] = q[j - Len(f)]
          /\ i - Len(f) \in DOMAIN q /\ N[i] = q[i - Len(f)]
      BY <1>1, <2>3
    <3>2. i - Len(f) < j - Len(f)
      BY <1>2, <1>3, <2>0
    <3> QED
      BY <3>1, <3>2 DEF Descending
  <2>4. i \notin DOMAIN f => j \notin DOMAIN f
    BY <1>2, <1>3, <2>0
  <2> QED
    BY <2>1, <2>2, <2>3, <2>4
<1>4. Descending(N)
  BY <1>3 DEF Descending
<1> QED
  BY <1>4 DEF N

\* If no number is missing from f nor from q, none is from f before q.
LEMMA ConcatGapFree ==
  ASSUME NEW f \in Seq(Nat), NEW q \in Seq(Nat), NEW c \in Nat, NEW T \in SUBSET Nat,
         Descending(q), GapFree(q, T),
         \A i \in DOMAIN f : c < f[i],
         \A t \in T : t <= c \/ \E i \in DOMAIN f : f[i] = t,
         q # <<>> => \A t \in T : t <= q[1] \/ \E i \in DOMAIN f : f[i] = t
  PROVE  GapFree(f \o q, T)
<1> DEFINE N == f \o q
<1>1. /\ N \in Seq(Nat) /\ Len(N) = Len(f) + Len(q)
      /\ \A i \in DOMAIN f : i \in DOMAIN N /\ N[i] = f[i]
      /\ \A i \in DOMAIN q : Len(f) + i \in DOMAIN N /\ N[Len(f) + i] = q[i]
  BY ConcatIs
<1>2. /\ Len(f) \in Nat /\ DOMAIN f = 1..Len(f) /\ \A i \in DOMAIN f : f[i] \in Nat
      /\ Len(q) \in Nat /\ DOMAIN q = 1..Len(q) /\ \A i \in DOMAIN q : q[i] \in Nat
      /\ Len(N) \in Nat /\ DOMAIN N = 1..Len(N)
  BY <1>1, NatSeq
<1> HIDE DEF N
<1>3. ASSUME NEW k \in DOMAIN N, NEW t \in T, N[Len(N)] <= t, t < N[k],
             ~ \E i \in DOMAIN f : f[i] = t
      PROVE  \E j \in DOMAIN N : N[j] = t
  <2>1. t \in Nat /\ t <= c
    BY <1>3
  <2>2. Len(q) # 0
    <3> SUFFICES ASSUME Len(q) = 0 PROVE FALSE
      OBVIOUS
    <3>1. Len(N) \in DOMAIN f
      BY <1>1, <1>2
    <3>2. N[Len(N)] \in Nat /\ c < N[Len(N)]
      BY <1>1, <1>2, <3>1
    <3> QED
      BY <1>3, <2>1, <3>2
  <2>3. q # <<>> /\ 1 \in DOMAIN q /\ Len(q) \in DOMAIN q
    BY <1>2, <2>2
  <2>4. q[1] \in Nat /\ t <= q[1]
    BY <1>2, <1>3, <2>3
  <2>5. N[Len(N)] = q[Len(q)]
    BY <1>1, <2>3
  <2>6. \E j \in DOMAIN q : q[j] = t
    <3>1. CASE t = q[1]
      BY <2>3, <3>1
    <3>2. CASE t < q[1]
      BY <1>3, <2>3, <2>5, <3>2 DEF GapFree
    <3> QED
      BY <2>1, <2>4, <3>1, <3>2
  <2> QED
    BY <1>1, <2>6
<1>4. GapFree(N, T)
  BY <1>1, <1>3 DEF GapFree
<1> QED
  BY <1>4 DEF N

-----------------------------------------------------------------------------
(* The order of what is kept in Redis, when nothing is delivered again.    *)

\* Rows in memory are newer than what is committed, and in the order of their
\* times, satellite by satellite.
Ahead(q) ==
  /\ \A i \in DOMAIN q : /\ committed[PartitionOf[q[i].sat]] < q[i].t
                         /\ q[i].t <= cursor[PartitionOf[q[i].sat]]
  /\ \A i, j \in DOMAIN q : i < j /\ q[i].sat = q[j].sat => q[i].t < q[j].t

MemoryOK == Ahead(buffer) /\ Ahead(rows)

\* The times of s that are stored.
Times(s) == {k[2] : k \in {r \in db : r[1] = s}}

\* What is stored is committed, or in a flush that has inserted it.
StoredOK ==
  \A s \in Sat : \A t \in Times(s) :
    \/ t <= committed[PartitionOf[s]]
    \/ pc \in {"upsert", "hot", "commit"} /\ <<s, t>> \in Keys(rows)

\* What Redis was given is committed, or about to be.
Reached(p) == IF pc = "commit" THEN pos[p] ELSE committed[p]

\* A track list holds the newest stored times, up to the flush in progress,
\* and its head is the score.
HotOK(s) ==
  /\ Descending(track[s])
  /\ GapFree(track[s], Times(s))
  /\ active[s] <= Reached(PartitionOf[s])
  /\ track[s] = <<>> => active[s] = 0
  /\ track[s] # <<>> =>
       /\ active[s] = track[s][1]
       /\ \A t \in Times(s) :
            t <= active[s] \/ (pc \in {"upsert", "hot"} /\ <<s, t>> \in Keys(rows))

FreshInv == MemoryOK /\ StoredOK /\ \A s \in Sat : HotOK(s)

\* The cursors of a partition, typed and in order.
LEMMA CursorsAre ==
  ASSUME TypeInv, NEW p \in Partition
  PROVE  /\ committed[p] \in Nat /\ cursor[p] \in Nat /\ pos[p] \in Nat
         /\ committed[p] <= cursor[p] /\ cursor[p] <= pos[p]
         /\ pc # "decode" => cursor[p] = pos[p]
BY DEF TypeInv, CursorsOK, CoreTypeOK, BrokerTypeOK, ProcessTypeOK

\* The times of a satellite are those of its keys in Postgres.
LEMMA TimesAre ==
  ASSUME CoreTypeOK, NEW s \in Sat
  PROVE  /\ Times(s) \in SUBSET Nat
         /\ \A t : t \in Times(s) <=> <<s, t>> \in db
<1>1. db \subseteq Sat \X (1..MaxLog)
  BY DEF CoreTypeOK, PostgresTypeOK
<1> QED
  BY <1>1 DEF Times

\* A key of the rows of the flush is that of a row of its satellite.
LEMMA KeyRow ==
  ASSUME CoreTypeOK, NEW s \in Sat, NEW t, <<s, t>> \in Keys(rows)
  PROVE  \E i \in RowIndex(s) : rows[i].t = t
<1>1. PICK i \in DOMAIN rows : <<s, t>> = Key(rows[i])
  BY DEF Keys
<1>2. rows[i].sat = s /\ rows[i].t = t
  BY <1>1 DEF Key
<1> QED
  BY <1>2 DEF RowIndex

\* The time of a row of the flush lies between what is committed and the cursor.
LEMMA RowsAhead ==
  ASSUME CoreTypeOK, MemoryOK, NEW s \in Sat, NEW i \in RowIndex(s)
  PROVE  /\ rows[i].t \in Nat
         /\ committed[PartitionOf[s]] < rows[i].t
         /\ rows[i].t <= cursor[PartitionOf[s]]
<1>1. i \in DOMAIN rows /\ rows[i] \in Row /\ rows[i].sat = s
  BY RowIndexFinite
<1>2. committed[PartitionOf[rows[i].sat]] < rows[i].t /\ rows[i].t <= cursor[PartitionOf[rows[i].sat]]
  BY <1>1 DEF MemoryOK, Ahead
<1> QED
  BY <1>1, <1>2 DEF Row

-----------------------------------------------------------------------------
\* Rows stay ahead of the commit.

\* A step that leaves the rows and the offsets alone.
LEMMA MemorySame ==
  ASSUME MemoryOK, UNCHANGED <<committed, cursor, buffer, rows>>
  PROVE  MemoryOK'
BY DEF MemoryOK, Ahead

\* A step that empties the memory.
LEMMA MemoryEmpty ==
  ASSUME buffer' = <<>>, rows' = <<>>
  PROVE  MemoryOK'
BY DEF MemoryOK, Ahead

\* The cursor moves on.
LEMMA MemoryLater ==
  ASSUME TypeInv, MemoryOK, UNCHANGED <<committed, buffer, rows>>,
         \A p \in Partition : cursor'[p] \in Nat /\ cursor[p] <= cursor'[p]
  PROVE  MemoryOK'
<1>1. buffer \in Seq(Row) /\ rows \in Seq(Row)
  BY DEF TypeInv, CoreTypeOK, ProcessTypeOK
<1>2. ASSUME NEW q \in Seq(Row), NEW i \in DOMAIN q,
             q[i].t <= cursor[PartitionOf[q[i].sat]]
      PROVE  q[i].t <= cursor'[PartitionOf[q[i].sat]]
  <2>1. q[i] \in Row
    OBVIOUS
  <2>2. q[i].t \in Nat /\ PartitionOf[q[i].sat] \in Partition
    BY <2>1 DEF Row
  <2> QED
    BY <1>2, <2>2, CursorsAre
<1> QED
  BY <1>1, <1>2 DEF MemoryOK, Ahead

\* A row is appended for the record at the cursor.
LEMMA MemoryAppend ==
  ASSUME Inv, LogOK, MemoryOK, NEW p \in Partition, DecodeRow(p)
  PROVE  MemoryOK'
<1>0. TypeInv /\ CoreTypeOK /\ AtRecord(p) /\ UNCHANGED <<committed, rows>>
  BY DEF Inv, TypeInv, DecodeRow, broker
<1> DEFINE m == NextOf(p)
           r == RowOf(m)
           b == Append(buffer, r)
<1>1. m \in Message /\ r \in Row /\ cursor[p] + 1 \in 1..Len(log[p])
  BY <1>0, NextOfType, RowOfType
<1>2. m.t = cursor[p] + 1 /\ PartitionOf[m.sat] = p
  BY <1>1 DEF LogOK, NextOf
<1>3. r.t = cursor[p] + 1 /\ PartitionOf[r.sat] = p /\ r.sat \in Sat
  BY <1>1, <1>2 DEF RowOf, Row
<1> HIDE DEF m, r
<1>4. buffer \in Seq(Row) /\ Len(buffer) \in Nat /\ DOMAIN buffer = 1..Len(buffer)
  BY <1>0 DEF CoreTypeOK, ProcessTypeOK
<1>5. /\ buffer' = b
      /\ DOMAIN b = 1..(Len(buffer) + 1)
      /\ \A i \in 1..Len(buffer) : b[i] = buffer[i]
      /\ b[Len(buffer) + 1] = r
  <2>1. buffer' = b
    BY DEF DecodeRow, m, r
  <2>2. /\ b \in Seq(Row) /\ Len(b) = Len(buffer) + 1
        /\ \A i \in 1..Len(buffer) : b[i] = buffer[i]
        /\ b[Len(buffer) + 1] = r
    BY <1>1, <1>4, AppendProperties
  <2>3. DOMAIN b = 1..(Len(buffer) + 1)
    BY <2>2, LenProperties
  <2> QED
    BY <2>1, <2>2, <2>3
<1> HIDE DEF b
<1>6. /\ cursor' = [cursor EXCEPT ![p] = cursor[p] + 1] /\ cursor \in [Partition -> 0..MaxLog]
      /\ committed[p] \in Nat /\ committed[p] <= cursor[p]
  BY <1>0, CursorsAre DEF DecodeRow, Handled, CoreTypeOK, ProcessTypeOK
<1>7. cursor'[p] = cursor[p] + 1 /\ \A x \in Partition : x # p => cursor'[x] = cursor[x]
  BY <1>6
<1>8. rows = <<>>
  BY <1>0 DEF Inv, BufferOK, Flushing, AtRecord
<1>9. \A i \in 1..Len(buffer) :
        /\ buffer[i].sat \in Sat /\ buffer[i].t \in Nat
        /\ committed[PartitionOf[buffer[i].sat]] < buffer[i].t
        /\ buffer[i].t <= cursor[PartitionOf[buffer[i].sat]]
  <2> TAKE i \in 1..Len(buffer)
  <2>1. buffer[i] \in Row
    BY <1>4
  <2> QED
    BY <1>4, <2>1 DEF MemoryOK, Ahead, Row
<1>10. ASSUME NEW i \in 1..(Len(buffer) + 1)
       PROVE  committed[PartitionOf[b[i].sat]] < b[i].t /\ b[i].t <= cursor'[PartitionOf[b[i].sat]]
  <2>1. CASE i = Len(buffer) + 1
    <3>1. PartitionOf[b[i].sat] = p /\ b[i].t = cursor[p] + 1
      BY <1>3, <1>5, <2>1
    <3>2. cursor[p] \in Nat
      BY <1>6
    <3> QED
      BY <1>6, <1>7, <3>1, <3>2
  <2>2. CASE i # Len(buffer) + 1
    <3> DEFINE x == PartitionOf[buffer[i].sat]
    <3>1. i \in 1..Len(buffer)
      BY <1>4, <2>2
    <3>2. b[i] = buffer[i] /\ x \in Partition /\ buffer[i].t \in Nat
      BY <1>5, <1>9, <3>1
    <3>3. committed[x] < buffer[i].t /\ buffer[i].t <= cursor[x]
      BY <1>9, <3>1
    <3>4. cursor[x] \in Nat /\ (cursor'[x] = cursor[x] \/ cursor'[x] = cursor[x] + 1)
      BY <1>6, <1>7, <3>2
    <3> HIDE DEF x
    <3>5. buffer[i].t <= cursor'[x]
      BY <3>2, <3>3, <3>4
    <3> QED
      BY <3>2, <3>3, <3>5 DEF x
  <2> QED
    BY <2>1, <2>2
<1>11. ASSUME NEW i \in 1..(Len(buffer) + 1), NEW j \in 1..(Len(buffer) + 1),
              i < j, b[i].sat = b[j].sat
       PROVE  b[i].t < b[j].t
  <2>1. i \in 1..Len(buffer) /\ b[i] = buffer[i]
    <3>1. i \in 1..Len(buffer)
      BY <1>4, <1>11
    <3> QED
      BY <1>5, <3>1
  <2>2. CASE j = Len(buffer) + 1
    <3>1. PartitionOf[buffer[i].sat] = p /\ b[j].t = cursor[p] + 1
      BY <1>3, <1>5, <1>11, <2>1, <2>2
    <3>2. buffer[i].t \in Nat /\ buffer[i].t <= cursor[p] /\ cursor[p] \in Nat
      BY <1>6, <1>9, <2>1, <3>1
    <3> QED
      BY <2>1, <3>1, <3>2
  <2>3. CASE j # Len(buffer) + 1
    <3>1. j \in 1..Len(buffer)
      BY <1>4, <2>3
    <3>2. b[j] = buffer[j]
      BY <1>5, <3>1
    <3> QED
      BY <1>4, <1>11, <2>1, <3>1, <3>2 DEF MemoryOK, Ahead
  <2> QED
    BY <2>2, <2>3
<1>12. \A i \in DOMAIN buffer' : /\ committed'[PartitionOf[buffer'[i].sat]] < buffer'[i].t
                                 /\ buffer'[i].t <= cursor'[PartitionOf[buffer'[i].sat]]
  BY <1>0, <1>5, <1>10
<1>13. \A i, j \in DOMAIN buffer' :
         i < j /\ buffer'[i].sat = buffer'[j].sat => buffer'[i].t < buffer'[j].t
  BY <1>5, <1>11
<1>14. rows' = <<>>
  BY <1>0, <1>8
<1> QED
  BY <1>12, <1>13, <1>14 DEF MemoryOK, Ahead

\* No step puts a row in memory out of its place.
LEMMA MemoryNext ==
  ASSUME Inv, LogOK, MemoryOK, [Next]_vars
  PROVE  MemoryOK'
<1>0. TypeInv /\ BufferOK
  BY DEF Inv
<1>1. CASE \E s \in Sat, e \in Epoch, k \in Kind : Produce(s, e, k)
  BY <1>1, MemorySame DEF Produce, reading
<1>2. CASE Elapse \/ Signal \/ RedisRestart \/ Restart \/ GetManyFails
  BY <1>2, MemorySame DEF Elapse, Signal, RedisRestart, Restart, GetManyFails, broker, reading
<1>3. CASE LeaveLoop \/ GetMany \/ BatchDone \/ NoFlush \/ EmptyFlush
  BY <1>3, MemorySame DEF LeaveLoop, GetMany, BatchDone, NoFlush, EmptyFlush, broker, reading
<1>4. ASSUME NEW p \in Partition, DecodeRow(p) PROVE MemoryOK'
  BY <1>4, MemoryAppend
<1>5. ASSUME NEW p \in Partition, DecodeError(p) PROVE MemoryOK'
  <2>1. /\ UNCHANGED <<committed, buffer, rows>>
        /\ cursor' = [cursor EXCEPT ![p] = cursor[p] + 1] /\ cursor \in [Partition -> 0..MaxLog]
    BY <1>0, <1>5 DEF DecodeError, Handled, broker, TypeInv, CoreTypeOK, ProcessTypeOK
  <2>2. \A x \in Partition : cursor[x] \in Nat /\ (cursor'[x] = cursor[x] \/ cursor'[x] = cursor[x] + 1)
    BY <2>1
  <2>3. \A x \in Partition : cursor'[x] \in Nat /\ cursor[x] <= cursor'[x]
    BY <2>2
  <2> QED
    BY <1>0, <2>1, <2>3, MemoryLater
<1>6. ASSUME NEW p \in Partition, DecodeRaises(p) PROVE MemoryOK'
  <2>1. UNCHANGED <<committed, buffer, rows>> /\ cursor' = pos
    BY <1>6 DEF DecodeRaises, broker
  <2> QED
    BY <1>0, <2>1, CursorsAre, MemoryLater
<1>7. CASE BeginFlush
  <2>1. UNCHANGED <<committed, cursor>> /\ rows' = buffer /\ buffer' = <<>>
    BY <1>7 DEF BeginFlush, broker
  <2> QED
    BY <2>1 DEF MemoryOK, Ahead
<1>8. CASE InsertPositions \/ UpsertSatellites \/ WriteHotState
  BY <1>8, MemorySame DEF InsertPositions, UpsertSatellites, WriteHotState, broker, reading
<1>9. CASE Commit
  <2>1. pc = "commit" /\ rows' = <<>> /\ (buffer' = buffer \/ buffer' = <<>>)
    BY <1>9 DEF Commit, Down
  <2>2. buffer = <<>>
    BY <1>0, <2>1 DEF BufferOK, Flushing
  <2> QED
    BY <2>1, <2>2, MemoryEmpty
<1>10. CASE CloseEmpty
  BY <1>10, MemoryEmpty DEF CloseEmpty, Down
<1>11. CASE FlushFails
  <2>1. buffer = <<>>
    BY <1>0, <1>11 DEF FlushFails, BufferOK, Flushing
  <2>2. rows' = <<>> /\ (buffer' = buffer \/ buffer' = <<>>)
    BY <1>11 DEF FlushFails, Down
  <2> QED
    BY <2>1, <2>2, MemoryEmpty
<1>13. CASE Crash
  BY <1>13, MemoryEmpty DEF Crash, Down
<1>12. CASE UNCHANGED vars
  BY <1>12, MemorySame DEF vars, broker, reading
<1> QED
  BY <1>1, <1>2, <1>3, <1>4, <1>5, <1>6, <1>7, <1>8, <1>9, <1>10, <1>11, <1>12, <1>13
     DEF Next, Work

-----------------------------------------------------------------------------
(* What committed records told of their satellites is in the table.        *)

\* Record o of partition p is one of the rows of q.
RowIn(q, p, o) == \E i \in DOMAIN q : q[i] = RowOf(log[p][o])

\* The table satellites has what record o of partition p told.
Known(p, o) ==
  /\ last_tle_epoch[log[p][o].sat] >= log[p][o].epoch
  /\ log[p][o].epoch \notin Nameless => name[log[p][o].sat] >= o

\* What is read and not committed waits in memory, or was left out; only the
\* way out after a failed flush forgets it.
WaitingOK ==
  \/ pc = "close" /\ buffer = <<>>
  \/ \A p \in Partition : \A o \in 1..cursor[p] :
       \/ o <= committed[p]
       \/ <<p, o>> \in skipped
       \/ RowIn(buffer, p, o) \/ RowIn(rows, p, o)

\* After the upsert all that was read is known, or was left out.
KnownOK ==
  pc \in {"hot", "commit"} =>
    \A p \in Partition : \A o \in 1..cursor[p] : <<p, o>> \in skipped \/ Known(p, o)

CatalogueOK == WaitingOK /\ KnownOK /\ CommittedIsCatalogued

\* The stored fact, in the words of Known.
LEMMA CataloguedIs ==
  CommittedIsCatalogued <=>
    \A p \in Partition : \A o \in 1..committed[p] : <<p, o>> \in skipped \/ Known(p, o)
BY DEF CommittedIsCatalogued, Known

\* A step that leaves the rows, the offsets and the table alone.
LEMMA CatalogueSame ==
  ASSUME CatalogueOK,
         UNCHANGED <<log, committed, cursor, buffer, rows, skipped, last_tle_epoch, name>>,
         pc' \in {"hot", "commit"} => pc \in {"hot", "commit"},
         pc = "close" => pc' = "close"
  PROVE  CatalogueOK'
<1>1. WaitingOK'
  BY DEF CatalogueOK, WaitingOK, RowIn
<1>2. KnownOK'
  BY DEF CatalogueOK, KnownOK, Known
<1>3. CommittedIsCatalogued'
  BY DEF CatalogueOK, CommittedIsCatalogued
<1> QED
  BY <1>1, <1>2, <1>3 DEF CatalogueOK

\* Ending the process forgets only what is not committed.
LEMMA CatalogueDown ==
  ASSUME TypeInv, CommittedIsCatalogued, Down, committed' = committed,
         UNCHANGED <<log, last_tle_epoch, name>>
  PROVE  CatalogueOK'
<1>1. WaitingOK'
  <2>1. \A p \in Partition : cursor'[p] = committed'[p] /\ committed'[p] \in Nat
    BY CursorsAre DEF Down
  <2> QED
    BY <2>1 DEF WaitingOK
<1>2. KnownOK'
  BY DEF KnownOK, Down
<1>3. CommittedIsCatalogued'
  <2> SUFFICES ASSUME NEW p \in Partition, NEW o \in 1..committed[p]
               PROVE  <<p, o>> \in skipped' \/ Known(p, o)
    BY DEF CommittedIsCatalogued, Known
  <2>1. <<p, o>> \in skipped \/ Known(p, o)
    BY CataloguedIs
  <2> QED
    BY <2>1 DEF Down
<1> QED
  BY <1>1, <1>2, <1>3 DEF CatalogueOK

\* The upsert leaves known what was committed, and makes known what waits in
\* the flush.
LEMMA UpsertKnows ==
  ASSUME Inv, LogOK, MemoryOK, UpsertSatellites, NEW p \in Partition, NEW o \in 1..cursor[p],
         \/ o <= committed[p] /\ Known(p, o)
         \/ RowIn(rows, p, o)
  PROVE  Known(p, o)'
<1> DEFINE m == log[p][o]
           s == m.sat
<1>0. TypeInv /\ CoreTypeOK /\ log' = log /\ UNCHANGED rows
  BY DEF Inv, TypeInv, UpsertSatellites, broker, reading
<1>1. /\ m \in Message /\ s \in Sat /\ m.epoch \in Nat /\ m.t = o /\ PartitionOf[s] = p
      /\ o \in Nat
  <2>1. log[p] \in Seq(Message) /\ o \in 1..Len(log[p])
    BY <1>0 DEF TypeInv, CursorsOK, CoreTypeOK, BrokerTypeOK, ProcessTypeOK
  <2>2. m \in Message
    BY <2>1
  <2>3. m.epoch \in Nat
    BY <2>2, TopicAssumption DEF Message
  <2> QED
    BY <2>1, <2>2, <2>3 DEF LogOK, Message
<1>2. /\ last_tle_epoch'[s] = Max(EpochsOf(s)) /\ Max(EpochsOf(s)) \in Nat
      /\ last_tle_epoch[s] \in Nat
      /\ \A e \in EpochsOf(s) : e <= Max(EpochsOf(s))
  <2>1. last_tle_epoch'[s] = Max(EpochsOf(s))
    BY <1>1 DEF UpsertSatellites, EpochsOf
  <2>2. Epoch \cup {0} \subseteq Nat
    BY TopicAssumption
  <2>3. Max(EpochsOf(s)) \in Epoch \cup {0} /\ \A e \in EpochsOf(s) : e <= Max(EpochsOf(s))
    BY <1>0, <1>1, UpsertType
  <2>4. last_tle_epoch[s] \in Epoch \cup {0}
    BY <1>0, <1>1 DEF CoreTypeOK, PostgresTypeOK
  <2> QED
    BY <2>1, <2>2, <2>3, <2>4, Zenon
<1>3. \/ Named(s) = {} /\ name'[s] = name[s]
      \/ \E i \in Named(s) : name'[s] = rows[i].t /\ \A k \in Named(s) : k <= i
  BY <1>0, <1>1, NameIs
<1>4. name[s] \in Nat
  BY <1>0, <1>1 DEF CoreTypeOK, PostgresTypeOK
<1> SUFFICES /\ last_tle_epoch'[s] >= m.epoch
             /\ m.epoch \notin Nameless => name'[s] >= o
  BY <1>0 DEF Known
<1>5. CASE o <= committed[p] /\ Known(p, o)
  <2>1. last_tle_epoch[s] >= m.epoch /\ (m.epoch \notin Nameless => name[s] >= o)
    BY <1>5 DEF Known
  <2>2. last_tle_epoch[s] <= Max(EpochsOf(s))
    BY <1>2 DEF EpochsOf
  <2>3. last_tle_epoch'[s] >= m.epoch
    BY <1>1, <1>2, <2>1, <2>2
  <2>4. ASSUME NEW i \in Named(s), name'[s] = rows[i].t
        PROVE  name'[s] >= o
    <3>1. rows[i].t \in Nat /\ committed[p] < rows[i].t
      BY <1>0, <1>1, RowsAhead DEF Named
    <3>2. committed[p] \in Nat
      BY <1>0, CursorsAre
    <3> QED
      BY <1>1, <1>5, <2>4, <3>1, <3>2
  <2> QED
    BY <1>3, <2>1, <2>3, <2>4
<1>6. CASE RowIn(rows, p, o)
  <2>1. PICK k \in DOMAIN rows : rows[k] = RowOf(m)
    BY <1>6 DEF RowIn
  <2>2. rows[k].sat = s /\ rows[k].t = o /\ rows[k].epoch = m.epoch /\ k \in RowIndex(s)
    BY <1>1, <2>1 DEF RowOf, RowIndex
  <2>3. m.epoch \in EpochsOf(s)
    BY <2>2 DEF EpochsOf
  <2>4. last_tle_epoch'[s] >= m.epoch
    BY <1>1, <1>2, <2>3
  <2>5. ASSUME m.epoch \notin Nameless
        PROVE  name'[s] >= o
    <3>1. k \in Named(s)
      BY <2>2, <2>5 DEF Named
    <3>2. PICK i \in Named(s) : name'[s] = rows[i].t /\ k <= i
      BY <1>3, <3>1
    <3>3. /\ i \in DOMAIN rows /\ rows[i].sat = s /\ i \in Nat /\ k \in Nat
          /\ rows[i].t \in Nat
      BY <1>0, <1>1, <2>2, <3>2, RowIndexFinite, RowsAhead DEF Named
    <3>4. CASE k = i
      BY <1>1, <2>2, <3>2, <3>4
    <3>5. CASE k < i
      <4>1. rows[k].t < rows[i].t
        BY <2>1, <2>2, <3>3, <3>5 DEF MemoryOK, Ahead
      <4> QED
        BY <1>1, <2>2, <3>2, <3>3, <4>1
    <3> QED
      BY <3>2, <3>3, <3>4, <3>5
  <2> QED
    BY <2>4, <2>5
<1> QED
  BY <1>5, <1>6

\* The catalogue follows the commit, whatever is delivered again.
LEMMA CatalogueNext ==
  ASSUME Inv, LogOK, MemoryOK, CatalogueOK, [Next]_vars
  PROVE  CatalogueOK'
<1>0. TypeInv /\ BufferOK /\ CommittedIsCatalogued
  BY DEF Inv, CatalogueOK
<1>a. cursor \in [Partition -> Nat] /\ buffer \in Seq(Row) /\ rows \in Seq(Row)
  BY <1>0 DEF TypeInv, CoreTypeOK, ProcessTypeOK
<1>1. ASSUME NEW s \in Sat, NEW e \in Epoch, NEW k \in Kind, Produce(s, e, k)
      PROVE  CatalogueOK'
  <2>1. UNCHANGED <<committed, pc, cursor, buffer, rows, skipped, last_tle_epoch, name>>
    BY <1>1 DEF Produce, control, reading, postgres, history
  <2>2. \A p \in Partition : \A o \in 1..Len(log[p]) : log'[p][o] = log[p][o]
    BY <1>0, <1>1, LogGrows
  <2>3. \A p \in Partition : \A o \in 1..cursor[p] : log'[p][o] = log[p][o]
    <3> TAKE p \in Partition
    <3> TAKE o \in 1..cursor[p]
    <3>1. log[p] \in Seq(Message) /\ o \in 1..Len(log[p])
      BY <1>0 DEF TypeInv, CoreTypeOK, BrokerTypeOK, ProcessTypeOK, CursorsOK
    <3> QED
      BY <2>2, <3>1
  <2>4. \A p \in Partition : \A o \in 1..committed[p] : o \in 1..cursor[p]
    BY <1>0, CursorsAre
  <2>5. WaitingOK'
    BY <2>1, <2>3 DEF CatalogueOK, WaitingOK, RowIn
  <2>a. \A p \in Partition : \A o \in 1..cursor[p] : Known(p, o) => Known(p, o)'
    BY <2>1, <2>3 DEF Known
  <2>6. KnownOK'
    BY <2>1, <2>a DEF CatalogueOK, KnownOK
  <2>7. CommittedIsCatalogued'
    <3> SUFFICES ASSUME NEW p \in Partition, NEW o \in 1..committed[p]
                 PROVE  <<p, o>> \in skipped' \/ Known(p, o)'
      BY <2>1 DEF CommittedIsCatalogued, Known
    <3> QED
      BY <1>0, <2>1, <2>4, <2>a, CataloguedIs
  <2> QED
    BY <2>5, <2>6, <2>7 DEF CatalogueOK
<1>2. CASE Elapse \/ Signal \/ RedisRestart \/ Restart \/ GetManyFails
  BY <1>2, CatalogueSame
     DEF Elapse, Signal, RedisRestart, Restart, GetManyFails, broker, control, reading, postgres, history
<1>3. CASE LeaveLoop \/ GetMany \/ BatchDone \/ NoFlush \/ EmptyFlush
  BY <1>3, CatalogueSame
     DEF LeaveLoop, GetMany, BatchDone, NoFlush, EmptyFlush, broker, reading, postgres, history
<1>4. CASE InsertPositions \/ WriteHotState
  BY <1>4, CatalogueSame DEF InsertPositions, WriteHotState, broker, reading, postgres, history
<1>5. ASSUME NEW p \in Partition, DecodeRow(p)
      PROVE  CatalogueOK'
  <2>1. /\ AtRecord(p) /\ pc = "decode" /\ pc' = "decode"
        /\ UNCHANGED <<log, committed, rows, skipped, last_tle_epoch, name>>
        /\ buffer' = Append(buffer, RowOf(NextOf(p)))
    BY <1>5 DEF DecodeRow, AtRecord, broker, postgres, history
  <2>2. RowOf(NextOf(p)) \in Row
    BY <1>0, <2>1, NextOfType, RowOfType
  <2>3. /\ buffer' \in Seq(Row) /\ Len(buffer') = Len(buffer) + 1 /\ Len(buffer) \in Nat
        /\ \A i \in 1..Len(buffer) : buffer'[i] = buffer[i]
        /\ buffer'[Len(buffer) + 1] = RowOf(NextOf(p))
    BY <1>a, <2>1, <2>2, AppendProperties, LenProperties
  <2>4. DOMAIN buffer = 1..Len(buffer) /\ DOMAIN buffer' = 1..(Len(buffer) + 1)
    BY <1>a, <2>3, LenProperties
  <2>5. WaitingOK'
    <3> SUFFICES ASSUME NEW q \in Partition, NEW o \in 1..cursor'[q]
                 PROVE  \/ o <= committed[q]
                        \/ <<q, o>> \in skipped
                        \/ RowIn(buffer', q, o) \/ RowIn(rows, q, o)
      BY <2>1 DEF WaitingOK, RowIn
    <3>1. CASE o \in 1..cursor[q]
      <4>1. RowIn(buffer, q, o) => RowIn(buffer', q, o)
        BY <2>3, <2>4 DEF RowIn
      <4> QED
        BY <2>1, <3>1, <4>1 DEF CatalogueOK, WaitingOK
    <3>2. CASE o \notin 1..cursor[q]
      <4>1. q = p /\ o = cursor[p] + 1
        BY <1>5, <1>a, <3>2 DEF DecodeRow, Handled
      <4>2. buffer'[Len(buffer) + 1] = RowOf(log[q][o]) /\ Len(buffer) + 1 \in DOMAIN buffer'
        BY <2>3, <2>4, <4>1 DEF NextOf
      <4> QED
        BY <4>2 DEF RowIn
    <3> QED
      BY <3>1, <3>2
  <2>6. KnownOK' /\ CommittedIsCatalogued'
    BY <1>0, <2>1 DEF KnownOK, CommittedIsCatalogued
  <2> QED
    BY <2>5, <2>6 DEF CatalogueOK
<1>6. ASSUME NEW p \in Partition, DecodeError(p)
      PROVE  CatalogueOK'
  <2>1. /\ pc = "decode" /\ pc' = "decode" /\ skipped' = skipped \cup {<<p, cursor[p] + 1>>}
        /\ UNCHANGED <<log, committed, buffer, rows, last_tle_epoch, name>>
    BY <1>6 DEF DecodeError, AtRecord, broker, postgres
  <2>2. WaitingOK'
    <3> SUFFICES ASSUME NEW q \in Partition, NEW o \in 1..cursor'[q]
                 PROVE  \/ o <= committed[q]
                        \/ <<q, o>> \in skipped'
                        \/ RowIn(buffer, q, o) \/ RowIn(rows, q, o)
      BY <2>1 DEF WaitingOK, RowIn
    <3>1. CASE o \in 1..cursor[q]
      BY <2>1, <3>1 DEF CatalogueOK, WaitingOK
    <3>2. CASE o \notin 1..cursor[q]
      <4>1. q = p /\ o = cursor[p] + 1
        BY <1>6, <1>a, <3>2 DEF DecodeError, Handled
      <4> QED
        BY <2>1, <4>1
    <3> QED
      BY <3>1, <3>2
  <2>3. KnownOK' /\ CommittedIsCatalogued'
    BY <1>0, <2>1 DEF KnownOK, CommittedIsCatalogued
  <2> QED
    BY <2>2, <2>3 DEF CatalogueOK
<1>7. ASSUME NEW p \in Partition, DecodeRaises(p)
      PROVE  CatalogueOK'
  <2>1. /\ pc = "decode" /\ pc' = "close" /\ cursor' = pos /\ skipped' = skipped \cup Batch
        /\ UNCHANGED <<log, committed, buffer, rows, last_tle_epoch, name>>
    BY <1>7 DEF DecodeRaises, AtRecord, broker, postgres
  <2>2. WaitingOK'
    <3> SUFFICES ASSUME NEW q \in Partition, NEW o \in 1..pos[q]
                 PROVE  \/ o <= committed[q]
                        \/ <<q, o>> \in skipped'
                        \/ RowIn(buffer, q, o) \/ RowIn(rows, q, o)
      BY <2>1 DEF WaitingOK, RowIn
    <3>1. CASE o \in 1..cursor[q]
      BY <2>1, <3>1 DEF CatalogueOK, WaitingOK
    <3>2. CASE o \notin 1..cursor[q]
      <4>1. pos[q] \in 0..MaxLog
        BY <1>0 DEF TypeInv, CoreTypeOK, ProcessTypeOK
      <4>2. <<q, o>> \in Batch
        BY <1>a, <3>2, <4>1 DEF Batch, Between, Offset
      <4> QED
        BY <2>1, <4>2
    <3> QED
      BY <3>1, <3>2
  <2>3. KnownOK' /\ CommittedIsCatalogued'
    BY <1>0, <2>1 DEF KnownOK, CommittedIsCatalogued
  <2> QED
    BY <2>2, <2>3 DEF CatalogueOK
<1>8. CASE BeginFlush
  <2>1. /\ pc \in {"check", "close"} /\ buffer # <<>> /\ pc' = "insert"
        /\ rows' = buffer /\ buffer' = <<>>
        /\ UNCHANGED <<log, committed, cursor, skipped, last_tle_epoch, name>>
    BY <1>8 DEF BeginFlush, broker, postgres, history
  <2>2. rows = <<>>
    BY <1>0, <2>1 DEF BufferOK, Flushing
  <2>3. WaitingOK'
    BY <2>1, <2>2 DEF CatalogueOK, WaitingOK, RowIn
  <2>4. KnownOK' /\ CommittedIsCatalogued'
    BY <1>0, <2>1 DEF KnownOK, CommittedIsCatalogued
  <2> QED
    BY <2>3, <2>4 DEF CatalogueOK
<1>9. CASE UpsertSatellites
  <2>1. /\ pc = "upsert" /\ pc' = "hot"
        /\ UNCHANGED <<log, committed, cursor, buffer, rows, skipped>>
    BY <1>9 DEF UpsertSatellites, broker, reading, history
  <2>2. buffer = <<>>
    BY <1>0, <2>1 DEF BufferOK, Flushing
  <2>3. ASSUME NEW p \in Partition, NEW o \in 1..cursor[p]
        PROVE  <<p, o>> \in skipped \/ Known(p, o)'
    <3>1. \/ o <= committed[p]
          \/ <<p, o>> \in skipped
          \/ RowIn(rows, p, o)
      BY <2>1, <2>2 DEF CatalogueOK, WaitingOK, RowIn
    <3>2. o <= committed[p] => <<p, o>> \in skipped \/ Known(p, o)
      BY <1>0, CataloguedIs, CursorsAre
    <3> QED
      BY <1>9, <3>1, <3>2, UpsertKnows
  <2>4. WaitingOK'
    BY <2>1 DEF CatalogueOK, WaitingOK, RowIn
  <2>5. KnownOK'
    BY <2>1, <2>3 DEF KnownOK
  <2>6. CommittedIsCatalogued'
    <3>1. \A p \in Partition : \A o \in 1..committed[p] : o \in 1..cursor[p]
      BY <1>0, CursorsAre
    <3> QED
      BY <2>1, <2>3, <3>1 DEF CommittedIsCatalogued, Known
  <2> QED
    BY <2>4, <2>5, <2>6 DEF CatalogueOK
<1>10. CASE Commit
  <2>1. /\ pc = "commit" /\ committed' = pos /\ UNCHANGED <<log, last_tle_epoch, name>>
        /\ pc' \in {"down", "poll"}
    BY <1>10 DEF Commit, Down, postgres
  <2>2. cursor = pos /\ cursor' = pos
    BY <1>0, <1>10, <2>1 DEF Commit, Down, TypeInv, CursorsOK
  <2>3. \A p \in Partition : \A o \in 1..pos[p] : <<p, o>> \in skipped \/ Known(p, o)
    BY <2>1, <2>2 DEF CatalogueOK, KnownOK
  <2>4. \A p \in Partition : \A o \in 1..pos[p] : <<p, o>> \in skipped => <<p, o>> \in skipped'
    <3>1. CASE closing
      BY <1>10, <2>1, <3>1 DEF Commit, Down
    <3>2. CASE ~closing
      BY <1>10, <3>2 DEF Commit
    <3> QED
      BY <3>1, <3>2
  <2>5. WaitingOK'
    <3>1. \A p \in Partition : cursor'[p] = committed'[p] /\ committed'[p] \in Nat
      BY <1>0, <2>1, <2>2, CursorsAre
    <3> QED
      BY <3>1 DEF WaitingOK
  <2>6. KnownOK'
    BY <2>1 DEF KnownOK
  <2>7. CommittedIsCatalogued'
    BY <2>1, <2>3, <2>4 DEF CommittedIsCatalogued, Known
  <2> QED
    BY <2>5, <2>6, <2>7 DEF CatalogueOK
<1>11. CASE FlushFails
  <2>1. committed' = committed /\ UNCHANGED <<log, last_tle_epoch, name>> /\ buffer = <<>>
    BY <1>0, <1>11 DEF FlushFails, postgres, BufferOK, Flushing
  <2>2. CASE closing
    <3>1. Down
      BY <1>11, <2>2 DEF FlushFails
    <3> QED
      BY <1>0, <2>1, <3>1, CatalogueDown
  <2>3. CASE ~closing
    <3>1. pc' = "close" /\ buffer' = <<>> /\ UNCHANGED skipped
      BY <1>11, <2>1, <2>3 DEF FlushFails
    <3>2. WaitingOK' /\ KnownOK'
      BY <3>1 DEF WaitingOK, KnownOK
    <3>3. CommittedIsCatalogued'
      BY <1>0, <2>1, <3>1 DEF CommittedIsCatalogued
    <3> QED
      BY <3>2, <3>3 DEF CatalogueOK
  <2> QED
    BY <2>2, <2>3
<1>12. CASE CloseEmpty \/ Crash
  <2>1. Down /\ committed' = committed /\ UNCHANGED <<log, last_tle_epoch, name>>
    BY <1>12 DEF CloseEmpty, Crash, postgres
  <2> QED
    BY <1>0, <2>1, CatalogueDown
<1>13. CASE UNCHANGED vars
  BY <1>13, CatalogueSame DEF vars, broker, control, reading, postgres, history
<1> QED
  BY <1>1, <1>2, <1>3, <1>4, <1>5, <1>6, <1>7, <1>8, <1>9, <1>10, <1>11, <1>12, <1>13
     DEF Next, Work

\* What is known of the log, of the memory and of the catalogue together.
CatalogueInv == Inv /\ LogOK /\ KeysLogged /\ MemoryOK /\ CatalogueOK

\* They hold at first.
LEMMA CatalogueInit == Init => CatalogueInv
<1> SUFFICES ASSUME Init
             PROVE  CatalogueInv
  OBVIOUS
<1>1. Inv /\ LogOK /\ KeysLogged
  BY InvInit, LogInit
<1>2. MemoryOK
  BY DEF Init, MemoryOK, Ahead
<1>3. \A p \in Partition : cursor[p] = 0 /\ committed[p] = 0
  BY DEF Init, NowherePos
<1>4. CatalogueOK
  BY <1>3 DEF Init, CatalogueOK, WaitingOK, KnownOK, CommittedIsCatalogued
<1> QED
  BY <1>1, <1>2, <1>4 DEF CatalogueInv

\* Whatever fails and whatever is delivered again, the table satellites has
\* what every committed record told of its satellite: an epoch at least as
\* new, and a name given by it or by a later sample.
THEOREM CommitsAreCatalogued == Spec => []CommittedIsCatalogued
<1>1. CatalogueInv /\ [Next]_vars => CatalogueInv'
  <2> SUFFICES ASSUME CatalogueInv, [Next]_vars
               PROVE  CatalogueInv'
    OBVIOUS
  <2>1. TypeInv
    BY DEF CatalogueInv, Inv
  <2> QED
    BY <2>1, InvNext, LogNext, MemoryNext, CatalogueNext DEF CatalogueInv
<1>2. CatalogueInv => CommittedIsCatalogued
  BY DEF CatalogueInv, CatalogueOK
<1> QED
  BY CatalogueInit, <1>1, <1>2, PTL DEF Spec

-----------------------------------------------------------------------------
\* Redis, next to Postgres.

\* A step that stores nothing, gives Redis nothing and commits nothing.
Calm ==
  /\ UNCHANGED <<db, committed, redis>>
  /\ \/ UNCHANGED <<pc, pos, rows>>
     \/ /\ pc # "commit" /\ pc' # "commit"
        /\ pc \in {"upsert", "hot"} => pc' \in {"upsert", "hot"} /\ rows' = rows

\* When nothing is delivered again, any other step is one of four.
LEMMA FlushSteps ==
  ASSUME NoRedelivery, [Next]_vars
  PROVE  Calm \/ InsertPositions \/ WriteHotState \/ RedisRestart \/ Commit
<1>1. CASE \E s \in Sat, e \in Epoch, k \in Kind : Produce(s, e, k)
  BY <1>1 DEF Calm, Produce, control, reading, postgres
<1>2. CASE Elapse \/ Signal
  BY <1>2 DEF Calm, Elapse, Signal, broker, reading, postgres
<1>3. CASE Restart \/ GetManyFails
  BY <1>3 DEF Calm, Restart, GetManyFails, broker, reading, postgres
<1>4. CASE LeaveLoop \/ GetMany \/ BatchDone \/ NoFlush \/ EmptyFlush \/ BeginFlush
  BY <1>4 DEF Calm, LeaveLoop, GetMany, BatchDone, NoFlush, EmptyFlush, BeginFlush, broker, reading, postgres
<1>5. ASSUME NEW p \in Partition, DecodeRow(p) \/ DecodeError(p) \/ DecodeRaises(p)
      PROVE  Calm
  BY <1>5 DEF Calm, AtRecord, DecodeRow, DecodeError, DecodeRaises, broker, postgres
<1>6. CASE UpsertSatellites
  BY <1>6 DEF Calm, UpsertSatellites, broker, reading
<1>7. CASE CloseEmpty
  BY <1>7 DEF Calm, CloseEmpty, Down, postgres
<1>8. ~FlushFails /\ ~Crash
  BY DEF NoRedelivery, FlushFails, Crash, Disrupt
<1>9. CASE UNCHANGED vars
  BY <1>9 DEF Calm, vars, broker, control, reading, postgres
<1> QED
  BY <1>1, <1>2, <1>3, <1>4, <1>5, <1>6, <1>7, <1>8, <1>9 DEF Next, Work

\* While a flush runs, its rows have been read and not committed.
LEMMA StoredNext ==
  ASSUME NoRedelivery, Inv, MemoryOK, StoredOK, [Next]_vars
  PROVE  StoredOK'
<1>0. TypeInv /\ CoreTypeOK
  BY DEF Inv, TypeInv
<1>1. CASE Calm
  BY <1>1 DEF Calm, StoredOK, Times
<1>2. CASE RedisRestart
  BY <1>2 DEF RedisRestart, broker, control, reading, postgres, StoredOK, Times
<1>3. CASE WriteHotState
  BY <1>3 DEF WriteHotState, broker, reading, postgres, StoredOK, Times
<1>4. CASE InsertPositions
  <2>1. /\ db' = db \cup Keys(rows) /\ pc = "insert" /\ pc' = "upsert"
        /\ rows' = rows /\ committed' = committed
    BY <1>4 DEF InsertPositions, broker, reading
  <2>2. Keys(rows') = Keys(rows)
    BY <2>1
  <2>3. \A s \in Sat : \A t \in Times(s)' : t \in Times(s) \/ <<s, t>> \in Keys(rows)
    <3> TAKE s \in Sat
    <3>1. Times(s)' = {k[2] : k \in {r \in db \cup Keys(rows) : r[1] = s}}
      BY <2>1 DEF Times
    <3>2. db \cup Keys(rows) \subseteq Sat \X (1..MaxLog)
      BY <1>0, KeysTyped
    <3> QED
      BY <3>1, <3>2 DEF Times
  <2>4. \A s \in Sat : \A t \in Times(s)' :
          t <= committed[PartitionOf[s]] \/ <<s, t>> \in Keys(rows)
    BY <2>1, <2>3 DEF StoredOK
  <2> QED
    BY <2>1, <2>2, <2>4 DEF StoredOK
<1>5. CASE Commit
  <2>1. pc = "commit" /\ committed' = pos /\ UNCHANGED db
    BY <1>5 DEF Commit, postgres
  <2>2. ASSUME NEW s \in Sat, NEW t \in Times(s)
        PROVE  t <= pos[PartitionOf[s]]
    <3> DEFINE p == PartitionOf[s]
    <3>1. /\ committed[p] \in Nat /\ cursor[p] \in Nat /\ pos[p] \in Nat
          /\ committed[p] <= pos[p] /\ cursor[p] = pos[p]
      BY <1>0, <2>1, CursorsAre
    <3>2. t \in Nat
      BY <1>0, TimesAre
    <3>3. CASE t <= committed[p]
      BY <3>1, <3>2, <3>3
    <3>4. CASE <<s, t>> \in Keys(rows)
      <4>1. PICK i \in RowIndex(s) : rows[i].t = t
        BY <1>0, <3>4, KeyRow
      <4>2. t <= cursor[p]
        BY <1>0, <4>1, RowsAhead
      <4> QED
        BY <3>1, <4>2
    <3> QED
      BY <3>3, <3>4 DEF StoredOK
  <2> QED
    BY <2>1, <2>2 DEF StoredOK, Times
<1> QED
  BY <1>1, <1>2, <1>3, <1>4, <1>5, FlushSteps

-----------------------------------------------------------------------------
\* What the flush does to a track list.

\* The new list, before it is trimmed: the times of the rows are in order and
\* newer than all that was listed.
LEMMA UntrimmedOrdered ==
  ASSUME Inv, RedisTypeOK, HotIsDurable, MemoryOK, StoredOK, NEW s \in Sat, HotOK(s),
         pc = "hot"
  PROVE  /\ RowTimes(s) \in Seq(Nat) /\ track[s] \in Seq(Nat)
         /\ Descending(RowTimes(s))
         /\ Descending(Untrimmed(s))
         /\ GapFree(Untrimmed(s), Times(s))
<1> DEFINE p == PartitionOf[s]
           I == RowIndex(s)
           n == Cardinality(I)
           f == RowTimes(s)
           q == track[s]
           T == Times(s)
           c == committed[p]
<1>0. TypeInv /\ CoreTypeOK
  BY DEF Inv, TypeInv
<1>1. /\ I \in SUBSET Nat /\ IsFiniteSet(I) /\ n \in Nat
      /\ f \in Seq(1..MaxLog) /\ Len(f) = n
      /\ \A j \in 1..n : Latest(I, j) \in I /\ f[j] = rows[Latest(I, j)].t
      /\ \A i \in I : \E j \in 1..n : f[j] = rows[i].t
      /\ \A i \in I : i \in DOMAIN rows /\ rows[i].sat = s
  BY <1>0, RowTimesIs, RowIndexFinite
<1>2. f \in Seq(Nat) /\ q \in Seq(Nat)
  <2>1. q \in Seq(1..MaxLog)
    BY DEF RedisTypeOK
  <2>2. \A r \in Seq(1..MaxLog) : r \in Seq(Nat)
    <3> TAKE r \in Seq(1..MaxLog)
    <3>1. Len(r) \in Nat /\ \A i \in 1..Len(r) : r[i] \in Nat
      BY LenProperties, ElementOfSeq
    <3> QED
      BY <3>1, LenProperties, SeqDef
  <2> QED
    BY <1>1, <2>1, <2>2
<1>3. DOMAIN f = 1..n
  BY <1>1, LenProperties
<1>4. \A i \in I : rows[i].t \in Nat /\ c < rows[i].t
  BY <1>0, RowsAhead
<1>5. \A j \in DOMAIN f : c < f[j]
  BY <1>1, <1>3, <1>4
<1>6. Descending(f)
  <2>1. ASSUME NEW j \in 1..n, NEW k \in 1..n, j < k PROVE f[j] > f[k]
    <3>1. Latest(I, j) > Latest(I, k)
      BY <1>1, <2>1, LatestDescends
    <3>2. Latest(I, j) \in I /\ Latest(I, k) \in I
      BY <1>1
    <3> DEFINE x == Latest(I, j)
               y == Latest(I, k)
    <3> HIDE DEF x, y
    <3>3. x > y /\ x \in I /\ y \in I
      BY <3>1, <3>2 DEF x, y
    <3>4. y < x
      BY <1>1, <3>3
    <3>5. x \in DOMAIN rows /\ y \in DOMAIN rows /\ rows[x].sat = s /\ rows[y].sat = s
      BY <1>1, <3>3
    <3>6. rows[y].t < rows[x].t
      BY <3>4, <3>5 DEF MemoryOK, Ahead
    <3>7. rows[x].t > rows[y].t
      BY <1>4, <3>3, <3>6
    <3> QED
      BY <1>1, <3>7 DEF x, y
  <2> QED
    BY <1>3, <2>1 DEF Descending
<1>7. c \in Nat /\ T \in SUBSET Nat
  BY <1>0, CursorsAre, TimesAre
<1>8. Descending(q) /\ GapFree(q, T)
  BY DEF HotOK
<1>9. \A t \in T : <<s, t>> \in Keys(rows) => \E j \in DOMAIN f : f[j] = t
  <2> SUFFICES ASSUME NEW t \in T, <<s, t>> \in Keys(rows) PROVE \E j \in DOMAIN f : f[j] = t
    OBVIOUS
  <2>1. PICK i \in I : rows[i].t = t
    BY <1>0, KeyRow
  <2> QED
    BY <1>1, <1>3, <2>1
<1>10. q # <<>> => q[1] = active[s] /\ active[s] <= c
  BY DEF HotOK, Reached
<1>11. \A t \in T : t <= c \/ \E j \in DOMAIN f : f[j] = t
  BY <1>9 DEF StoredOK
<1>12. q # <<>> => \A t \in T : t <= q[1] \/ \E j \in DOMAIN f : f[j] = t
  BY <1>9, <1>10 DEF HotOK
<1> HIDE DEF p, I, n, f, q, T, c
<1>13. \A i \in DOMAIN q : q[i] <= c
  <2> TAKE i \in DOMAIN q
  <2>1. 1 \in DOMAIN q /\ q[i] <= q[1] /\ q # <<>>
    BY <1>2, <1>8, HeadIsLargest
  <2>2. q[i] \in Nat /\ q[1] \in Nat
    BY <1>2, <2>1, NatSeq
  <2>3. q[1] <= c
    BY <1>10, <2>1
  <2> QED
    BY <1>7, <2>1, <2>2, <2>3
<1>14. Descending(f \o q)
  BY <1>2, <1>5, <1>6, <1>7, <1>8, <1>13, ConcatDescends
<1>15. GapFree(f \o q, T)
  BY <1>2, <1>5, <1>7, <1>8, <1>11, <1>12, ConcatGapFree
<1> QED
  BY <1>2, <1>6, <1>14, <1>15 DEF Untrimmed, f, q, T

\* The new score is the newest time given, or the score before.
LEMMA ScoredFits ==
  ASSUME Inv, RedisTypeOK, MemoryOK, NEW s \in Sat, HotOK(s), pc = "hot"
  PROVE  /\ Scored(s) \in Nat /\ active[s] <= Scored(s)
         /\ Scored(s) <= pos[PartitionOf[s]]
         /\ \/ RowIndex(s) = {} /\ Scored(s) = active[s]
            \/ /\ 1 \in DOMAIN RowTimes(s) /\ Scored(s) = RowTimes(s)[1]
               /\ committed[PartitionOf[s]] < Scored(s)
<1> DEFINE p == PartitionOf[s]
           I == RowIndex(s)
           n == Cardinality(I)
<1>0. TypeInv /\ CoreTypeOK
  BY DEF Inv, TypeInv
<1>1. /\ committed[p] \in Nat /\ cursor[p] \in Nat /\ pos[p] \in Nat
      /\ committed[p] <= cursor[p] /\ cursor[p] = pos[p]
      /\ active[s] \in Nat /\ active[s] <= committed[p]
  BY <1>0, CursorsAre DEF RedisTypeOK, HotOK, Reached
<1>2. CASE I = {}
  <2>1. Scored(s) = active[s]
    BY <1>2 DEF Scored
  <2> QED
    BY <1>1, <1>2, <2>1
<1>3. CASE I # {}
  <2>1. I \in SUBSET Nat /\ IsFiniteSet(I)
    BY <1>0, RowIndexFinite
  <2>2. 1 \in 1..n /\ Latest(I, 1) = Max(I)
    <3> HIDE DEF I
    <3> QED
      BY <1>3, <2>1, LatestFirst
  <2>3. Latest(I, 1) \in I /\ RowTimes(s)[1] = rows[Latest(I, 1)].t /\ DOMAIN RowTimes(s) = 1..n
    BY <1>0, <2>2, RowTimesIs
  <2>4. Scored(s) = rows[Max(I)].t
    BY <1>3 DEF Scored
  <2>5. Scored(s) = RowTimes(s)[1] /\ Max(I) \in I
    BY <2>2, <2>3, <2>4
  <2>6. Scored(s) \in Nat /\ committed[p] < Scored(s) /\ Scored(s) <= cursor[p]
    BY <1>0, <2>4, <2>5, RowsAhead
  <2> QED
    BY <1>1, <2>2, <2>3, <2>5, <2>6
<1> QED
  BY <1>2, <1>3

\* The list after the flush: in order, without gaps, headed by the score.
LEMMA PushedFits ==
  ASSUME Inv, RedisTypeOK, HotIsDurable, MemoryOK, StoredOK, NEW s \in Sat, HotOK(s),
         pc = "hot"
  PROVE  /\ Descending(Pushed(s))
         /\ GapFree(Pushed(s), Times(s))
         /\ Pushed(s) = <<>> => Scored(s) = 0
         /\ Pushed(s) # <<>> => Scored(s) = Pushed(s)[1] /\ \A t \in Times(s) : t <= Scored(s)
<1> DEFINE p == PartitionOf[s]
           f == RowTimes(s)
           q == track[s]
           T == Times(s)
           N == Untrimmed(s)
           m == IF TrackMax <= Len(N) THEN TrackMax ELSE Len(N)
<1>0. TypeInv /\ CoreTypeOK
  BY DEF Inv, TypeInv
<1>1. /\ f \in Seq(Nat) /\ q \in Seq(Nat)
      /\ Descending(f) /\ Descending(N) /\ GapFree(N, T)
  BY UntrimmedOrdered
<1>2. N = f \o q
  BY DEF Untrimmed
<1>3. T \in SUBSET Nat /\ committed[p] \in Nat
  BY <1>0, TimesAre, CursorsAre
<1>4. Pushed(s) = SubSeq(N, 1, m) /\ m \in Nat /\ m <= Len(N) /\ Len(N) \in Nat
  BY <1>0, PushedIs
<1>5. /\ Scored(s) \in Nat
      /\ \/ RowIndex(s) = {} /\ Scored(s) = active[s]
         \/ 1 \in DOMAIN f /\ Scored(s) = f[1] /\ committed[p] < Scored(s)
  BY ScoredFits
<1>6. RowIndex(s) = {} => f = <<>> /\ \A t \in T : ~(<<s, t>> \in Keys(rows))
  <2> SUFFICES ASSUME RowIndex(s) = {} PROVE f = <<>> /\ \A t \in T : ~(<<s, t>> \in Keys(rows))
    OBVIOUS
  <2>1. Len(f) = 0
    BY <1>0, RowTimesIs, FS_EmptySet
  <2>2. f = <<>>
    BY <1>1, <2>1, EmptySeq
  <2> QED
    BY <1>0, <2>2, KeyRow
<1>7. /\ q = <<>> => active[s] = 0
      /\ q # <<>> => active[s] = q[1] /\ \A t \in T : t <= active[s] \/ <<s, t>> \in Keys(rows)
  BY DEF HotOK
<1>8. \A t \in T : t <= committed[p] \/ <<s, t>> \in Keys(rows)
  BY DEF StoredOK
<1>9. \A t \in T : <<s, t>> \in Keys(rows) => \E j \in DOMAIN f : f[j] = t
  <2> SUFFICES ASSUME NEW t \in T, <<s, t>> \in Keys(rows) PROVE \E j \in DOMAIN f : f[j] = t
    OBVIOUS
  <2>1. PICK i \in RowIndex(s) : rows[i].t = t
    BY <1>0, KeyRow
  <2>2. \E j \in 1..Cardinality(RowIndex(s)) : f[j] = rows[i].t
    BY <1>0, RowTimesIs
  <2>3. DOMAIN f = 1..Cardinality(RowIndex(s))
    BY <1>0, <1>1, RowTimesIs, NatSeq
  <2> QED
    BY <2>1, <2>2, <2>3
<1> HIDE DEF p, f, q, T, N, m
<1>10. m = 0 => Len(N) = 0
  BY <1>4 DEF m
<1>11. Len(f) \in Nat /\ Len(q) \in Nat /\ Len(N) = Len(f) + Len(q)
  BY <1>1, <1>2, NatSeq, ConcatIs
<1>12. N \in Seq(Nat)
  BY <1>1, <1>2, ConcatIs
<1>13. ASSUME Len(N) = 0 PROVE Scored(s) = 0
  <2>1. Len(f) = 0 /\ Len(q) = 0
    <3> DEFINE a == Len(f)
               b == Len(q)
    <3>1. a \in Nat /\ b \in Nat /\ a + b = 0
      BY <1>11, <1>13
    <3> HIDE DEF a, b
    <3>2. a = 0 /\ b = 0
      BY <3>1
    <3> QED
      BY <3>2 DEF a, b
  <2>2. f = <<>> /\ q = <<>>
    BY <1>1, <2>1, EmptySeq
  <2>3. 1 \notin DOMAIN f
    BY <1>1, <2>1, NatSeq
  <2> QED
    BY <1>5, <1>7, <2>2, <2>3
<1>14. ASSUME Len(N) # 0
       PROVE  N[1] = Scored(s) /\ \A t \in T : t <= Scored(s)
  <2>1. CASE RowIndex(s) = {}
    <3>1. f = <<>> /\ Len(f) = 0 /\ q # <<>> /\ Len(q) # 0
      BY <1>1, <1>6, <1>11, <1>14, <2>1, EmptySeq
    <3>2. 1 \in DOMAIN q
      BY <1>1, <3>1, NatSeq
    <3>3. N[1] = q[1]
      BY <1>1, <1>2, <3>1, <3>2, ConcatIs
    <3>4. Scored(s) = active[s]
      <4>1. 1 \notin DOMAIN f
        BY <1>1, <3>1, NatSeq
      <4> QED
        BY <1>5, <4>1
    <3> QED
      BY <1>6, <1>7, <2>1, <3>1, <3>3, <3>4
  <2>2. CASE 1 \in DOMAIN f /\ Scored(s) = f[1] /\ committed[p] < Scored(s)
    <3>1. N[1] = f[1]
      BY <1>1, <1>2, <2>2, ConcatIs
    <3>2. ASSUME NEW t \in T PROVE t <= Scored(s)
      <4>1. CASE t <= committed[p]
        BY <1>3, <1>5, <2>2, <4>1
      <4>2. CASE <<s, t>> \in Keys(rows)
        <5>1. PICK j \in DOMAIN f : f[j] = t
          BY <1>9, <4>2
        <5>2. f[j] <= f[1]
          BY <1>1, HeadIsLargest
        <5> QED
          BY <2>2, <5>1, <5>2
      <4> QED
        BY <1>8, <4>1, <4>2
    <3> QED
      BY <2>2, <3>1, <3>2
  <2> QED
    BY <1>5, <2>1, <2>2
<1> DEFINE r == SubSeq(N, 1, m)
<1>15. Descending(r) /\ GapFree(r, T)
  BY <1>1, <1>3, <1>4, <1>12, PrefixDescends, PrefixGapFree
<1>16. r \in Seq(Nat) /\ Len(r) = m /\ \A i \in 1..m : r[i] = N[i]
  BY <1>4, <1>12, PrefixIs
<1> HIDE DEF r
<1>17. r = <<>> => m = 0
  BY <1>16
<1>18. r # <<>> => m # 0
  BY <1>16, EmptySeq
<1>19. m # 0 => 1 \in 1..m /\ Len(N) # 0
  BY <1>4
<1> QED
  BY <1>4, <1>10, <1>13, <1>14, <1>15, <1>16, <1>17, <1>18, <1>19 DEF T, r

\* Inserting the rows leaves no gap in a list: they are newer than all of it.
LEMMA InsertFits ==
  ASSUME Inv, RedisTypeOK, HotIsDurable, MemoryOK, StoredOK, NEW s \in Sat, HotOK(s),
         InsertPositions
  PROVE  HotOK(s)'
<1> DEFINE p == PartitionOf[s]
           q == track[s]
           T == Times(s)
           U == Times(s)'
<1>0. TypeInv /\ CoreTypeOK
  BY DEF Inv, TypeInv
<1>1. /\ db' = db \cup Keys(rows) /\ pc = "insert" /\ pc' = "upsert"
      /\ rows' = rows /\ committed' = committed /\ UNCHANGED <<active, track>>
  BY DEF InsertPositions, broker, reading, redis
<1>2. U = {k[2] : k \in {r \in db \cup Keys(rows) : r[1] = s}}
  BY <1>1 DEF Times
<1>3. \A t \in U : t \in T \/ <<s, t>> \in Keys(rows)
  <2>1. db \cup Keys(rows) \subseteq Sat \X (1..MaxLog)
    BY <1>0, KeysTyped
  <2> QED
    BY <1>2, <2>1 DEF Times
<1>4. committed[p] \in Nat /\ T \in SUBSET Nat
  BY <1>0, CursorsAre, TimesAre
<1>5. \A t \in U : <<s, t>> \in Keys(rows) => t \in Nat /\ committed[p] < t
  <2> SUFFICES ASSUME NEW t \in U, <<s, t>> \in Keys(rows) PROVE t \in Nat /\ committed[p] < t
    OBVIOUS
  <2>1. PICK i \in RowIndex(s) : rows[i].t = t
    BY <1>0, KeyRow
  <2> QED
    BY <1>0, <2>1, RowsAhead
<1>6. \A i \in DOMAIN q : q[i] \in Nat /\ q[i] <= committed[p]
  <2> TAKE i \in DOMAIN q
  <2>1. q[i] \in T
    BY <1>0, TimesAre DEF HotIsDurable
  <2> QED
    BY <1>1, <1>4, <2>1 DEF StoredOK
<1>7. Descending(q) /\ GapFree(q, T)
  BY DEF HotOK
<1>8. active[s] <= committed[p] /\ (q = <<>> => active[s] = 0)
  BY <1>1 DEF HotOK, Reached
<1>9. q # <<>> => active[s] = q[1] /\ \A t \in T : t <= active[s]
  BY <1>1 DEF HotOK
<1> HIDE DEF q, T, U, p
<1>10. GapFree(q, U)
  <2> SUFFICES ASSUME NEW i \in DOMAIN q, NEW t \in U, q[Len(q)] <= t, t < q[i]
               PROVE  \E j \in DOMAIN q : q[j] = t
    BY DEF GapFree
  <2>1. ~(<<s, t>> \in Keys(rows))
    <3> SUFFICES ASSUME <<s, t>> \in Keys(rows) PROVE FALSE
      OBVIOUS
    <3>1. t \in Nat /\ committed[p] < t /\ q[i] \in Nat /\ q[i] <= committed[p]
      BY <1>5, <1>6
    <3> QED
      BY <1>4, <3>1
  <2> QED
    BY <1>3, <1>7, <2>1 DEF GapFree
<1>11. q # <<>> => \A t \in U : t <= active[s] \/ <<s, t>> \in Keys(rows)
  BY <1>3, <1>9
<1> QED
  BY <1>1, <1>7, <1>8, <1>9, <1>10, <1>11 DEF HotOK, Reached, Descending, GapFree, q, U, p

\* No step disorders a list, or makes a gap in it.
LEMMA HotNext ==
  ASSUME NoRedelivery, Inv, RedisTypeOK, HotIsDurable, FreshInv, [Next]_vars, NEW s \in Sat
  PROVE  HotOK(s)'
<1>0. TypeInv /\ CoreTypeOK /\ MemoryOK /\ StoredOK /\ HotOK(s)
  BY DEF Inv, TypeInv, FreshInv
<1>1. CASE Calm
  BY <1>0, <1>1 DEF Calm, redis, HotOK, Descending, GapFree, Times, Reached
<1>2. CASE InsertPositions
  BY <1>0, <1>2, InsertFits
<1>3. CASE RedisRestart
  <2>1. active'[s] = 0 /\ track'[s] = <<>>
    BY <1>3 DEF RedisRestart
  <2>2. Reached(PartitionOf[s])' \in Nat
    BY <1>0, <1>3, CursorsAre DEF RedisRestart, broker, control, reading, Reached
  <2>3. 0 <= Reached(PartitionOf[s])'
    BY <2>2
  <2> QED
    BY <2>1, <2>3 DEF HotOK, Descending, GapFree
<1>4. CASE WriteHotState
  <2>1. /\ pc = "hot" /\ pc' = "commit" /\ UNCHANGED <<db, pos>>
        /\ active'[s] = Scored(s) /\ track'[s] = Pushed(s)
    BY <1>4 DEF WriteHotState, reading, postgres
  <2>2. Descending(track'[s]) /\ GapFree(track'[s], Times(s))
    BY <1>0, <2>1, PushedFits
  <2>3. active'[s] <= pos[PartitionOf[s]]
    BY <1>0, <2>1, ScoredFits
  <2>4. track'[s] = <<>> => active'[s] = 0
    BY <1>0, <2>1, PushedFits
  <2>5. track'[s] # <<>> => active'[s] = track'[s][1] /\ \A t \in Times(s) : t <= active'[s]
    BY <1>0, <2>1, PushedFits
  <2> QED
    BY <2>1, <2>2, <2>3, <2>4, <2>5 DEF HotOK, Descending, GapFree, Times, Reached
<1>5. CASE Commit
  <2>1. /\ pc = "commit" /\ pc' \in {"poll", "down"} /\ committed' = pos
        /\ UNCHANGED <<db, active, track>>
    BY <1>5 DEF Commit, Down, postgres, redis
  <2> QED
    BY <1>0, <2>1 DEF HotOK, Descending, GapFree, Times, Reached
<1> QED
  BY <1>1, <1>2, <1>3, <1>4, <1>5, FlushSteps

OrderInv == RedisInv /\ LogOK /\ KeysLogged /\ FreshInv

\* The invariant of the order holds at first.
LEMMA OrderInit == Init => OrderInv
<1> SUFFICES ASSUME Init PROVE FreshInv
  BY RedisInit, LogInit DEF OrderInv
<1>1. /\ db = {} /\ buffer = <<>> /\ rows = <<>> /\ pc = "poll"
      /\ active = [s \in Sat |-> 0] /\ track = [s \in Sat |-> <<>>]
      /\ committed = [p \in Partition |-> 0]
  BY DEF Init, NowherePos
<1>2. MemoryOK
  BY <1>1 DEF MemoryOK, Ahead
<1>3. StoredOK
  BY <1>1 DEF StoredOK, Times
<1>4. \A s \in Sat : HotOK(s)
  BY <1>1 DEF HotOK, Descending, GapFree, Reached
<1> QED
  BY <1>2, <1>3, <1>4 DEF FreshInv

\* No step breaks it when no flush fails.
LEMMA OrderNext == NoRedelivery /\ OrderInv /\ [Next]_vars => OrderInv'
<1> SUFFICES ASSUME NoRedelivery, OrderInv, [Next]_vars PROVE OrderInv'
  OBVIOUS
<1>1. /\ RedisInv /\ Inv /\ TypeInv /\ RedisTypeOK /\ HotIsDurable
      /\ LogOK /\ KeysLogged /\ FreshInv /\ MemoryOK /\ StoredOK
  BY DEF OrderInv, RedisInv, Inv, FreshInv
<1>2. RedisInv' /\ LogOK' /\ KeysLogged'
  BY <1>1, RedisNext, LogNext
<1>3. MemoryOK'
  BY <1>1, MemoryNext
<1>4. StoredOK'
  BY <1>1, StoredNext
<1>5. \A s \in Sat : HotOK(s)'
  BY <1>1, HotNext
<1>6. FreshInv'
  BY <1>3, <1>4, <1>5 DEF FreshInv
<1> QED
  BY <1>2, <1>6 DEF OrderInv

\* So it holds in every state.
LEMMA OrderAlways ==
  ASSUME NoRedelivery
  PROVE  Spec => []OrderInv
<1>1. OrderInv /\ [Next]_vars => OrderInv'
  BY OrderNext
<1> QED
  BY OrderInit, <1>1, PTL DEF Spec

\* When no flush fails, a track list is strictly newest first, batch after
\* batch, trimmed and emptied by Redis as it may be.
THEOREM TracksNewestFirst ==
  ASSUME NoRedelivery
  PROVE  Spec => []TrackNewestFirst
<1>1. OrderInv => TrackNewestFirst
  BY DEF OrderInv, FreshInv, HotOK, Descending, TrackNewestFirst
<1> QED
  BY <1>1, OrderAlways, PTL

\* When no flush fails, a score goes back only when Redis has lost it.
THEOREM ScoresNeverRegress ==
  ASSUME NoRedelivery
  PROVE  Spec => ScoreNeverRegresses
<1>1. ASSUME OrderInv, [Next]_vars
      PROVE  [\A s \in Sat : active'[s] >= active[s] \/ active'[s] = 0]_active
  <2>1. /\ Inv /\ RedisTypeOK /\ MemoryOK
        /\ active \in [Sat -> 0..MaxLog] /\ \A s \in Sat : HotOK(s)
    BY <1>1 DEF OrderInv, RedisInv, FreshInv, RedisTypeOK
  <2>2. CASE UNCHANGED redis
    BY <2>2 DEF redis
  <2>3. CASE RedisRestart
    BY <2>3 DEF RedisRestart
  <2>4. CASE WriteHotState
    <3>1. ASSUME NEW s \in Sat PROVE active'[s] >= active[s]
      <4>1. active'[s] = Scored(s) /\ pc = "hot"
        BY <2>4 DEF WriteHotState
      <4>2. Scored(s) \in Nat /\ active[s] <= Scored(s)
        BY <2>1, <4>1, ScoredFits
      <4>3. active[s] \in Nat
        BY <2>1
      <4> QED
        BY <4>1, <4>2, <4>3
    <3> QED
      BY <3>1
  <2> QED
    BY <1>1, <2>2, <2>3, <2>4, StoreSteps
<1> QED
  BY <1>1, OrderAlways, PTL DEF Spec, ScoreNeverRegresses

-----------------------------------------------------------------------------
(* The readers.                                                            *)

\* A sample stored by a step is newer than every one stored before.
LEMMA TimesGrow ==
  ASSUME NoRedelivery, OrderInv, [Next]_vars, NEW s \in Sat
  PROVE  /\ Times(s) \in SUBSET Nat
         /\ \A t \in Times(s) : t \in Times(s)'
         /\ \A t \in Times(s)' :
              \/ t \in Times(s)
              \/ t \in Nat /\ \A u \in Times(s) : u < t
<1> DEFINE p == PartitionOf[s]
           T == Times(s)
           U == Times(s)'
<1>0. TypeInv /\ CoreTypeOK /\ MemoryOK /\ StoredOK
  BY DEF OrderInv, RedisInv, Inv, TypeInv, FreshInv
<1>1. T \in SUBSET Nat /\ committed[p] \in Nat
  BY <1>0, TimesAre, CursorsAre
<1>2. \A t \in T : t \in U
  <2>1. db \subseteq db'
    BY StoreSteps
  <2> QED
    BY <2>1 DEF Times
<1>3. CASE db' = db
  <2>1. U = T
    BY <1>3 DEF Times
  <2> HIDE DEF T, U
  <2> QED
    BY <1>1, <2>1 DEF T, U
<1>4. CASE InsertPositions
  <2>1. db' = db \cup Keys(rows) /\ pc = "insert"
    BY <1>4 DEF InsertPositions
  <2>2. \A t \in U : t \in T \/ <<s, t>> \in Keys(rows)
    <3>1. U = {k[2] : k \in {r \in db \cup Keys(rows) : r[1] = s}}
      BY <2>1 DEF Times
    <3>2. db \cup Keys(rows) \subseteq Sat \X (1..MaxLog)
      BY <1>0, KeysTyped
    <3> QED
      BY <3>1, <3>2 DEF Times
  <2>3. \A u \in T : u <= committed[p]
    BY <2>1, <1>0 DEF StoredOK
  <2>4. ASSUME NEW t \in U, <<s, t>> \in Keys(rows)
        PROVE  t \in Nat /\ \A u \in T : u < t
    <3>1. PICK i \in RowIndex(s) : rows[i].t = t
      BY <1>0, <2>4, KeyRow
    <3>2. t \in Nat /\ committed[p] < t
      BY <1>0, <3>1, RowsAhead
    <3>3. \A u \in T : u \in Nat /\ u <= committed[p]
      BY <1>1, <2>3
    <3> QED
      BY <1>1, <3>2, <3>3
  <2>5. \A t \in U : t \in T \/ (t \in Nat /\ \A u \in T : u < t)
    BY <2>2, <2>4
  <2> HIDE DEF T, U
  <2> QED
    BY <1>1, <1>2, <2>5 DEF T, U
<1>5. db' = db \/ InsertPositions
  BY FlushSteps DEF Calm, WriteHotState, RedisRestart, Commit, postgres
<1> QED
  BY <1>3, <1>4, <1>5

\* What Redis was given only moves on, and a list that is not empty shows it.
LEMMA HeadMovesOn ==
  ASSUME NoRedelivery, OrderInv, [Next]_vars, NEW s \in Sat, NEW n \in Nat,
         n <= Reached(PartitionOf[s]), track[s] # <<>> => track[s][1] >= n
  PROVE  n <= Reached(PartitionOf[s])' /\ (track'[s] # <<>> => track'[s][1] >= n)
<1> DEFINE p == PartitionOf[s]
<1>0. /\ Inv /\ TypeInv /\ CoreTypeOK /\ RedisTypeOK /\ HotIsDurable /\ MemoryOK /\ StoredOK
      /\ HotOK(s)
  BY DEF OrderInv, RedisInv, Inv, TypeInv, FreshInv
<1>1. /\ committed[p] \in Nat /\ pos[p] \in Nat /\ committed[p] <= pos[p]
  BY <1>0, CursorsAre
<1>2. CASE Calm
  BY <1>2 DEF Calm, redis, Reached
<1>3. CASE InsertPositions
  BY <1>3 DEF InsertPositions, broker, reading, redis, Reached
<1>4. CASE RedisRestart
  BY <1>4 DEF RedisRestart, broker, control, reading, Reached
<1>5. CASE Commit
  <2>1. pc = "commit" /\ pc' # "commit" /\ committed' = pos /\ UNCHANGED track
    BY <1>5 DEF Commit, Down, redis
  <2> QED
    BY <2>1 DEF Reached
<1>6. CASE WriteHotState
  <2>1. /\ pc = "hot" /\ pc' = "commit" /\ UNCHANGED pos /\ track'[s] = Pushed(s)
    BY <1>6 DEF WriteHotState, reading
  <2>2. n <= committed[p] /\ Reached(p)' = pos[p]
    BY <2>1 DEF Reached
  <2>3. ASSUME Pushed(s) # <<>> PROVE Pushed(s)[1] >= n
    <3>1. Scored(s) = Pushed(s)[1] /\ Scored(s) \in Nat
      BY <1>0, <2>1, <2>3, PushedFits, ScoredFits
    <3>2. CASE committed[p] < Scored(s)
      BY <1>1, <2>2, <3>1, <3>2
    <3>3. CASE Scored(s) = active[s] /\ track[s] # <<>>
      BY <1>0, <3>1, <3>3 DEF HotOK
    <3>4. CASE Scored(s) = active[s] /\ track[s] = <<>>
      <4>1. Scored(s) = 0
        BY <1>0, <3>4 DEF HotOK
      <4>2. Pushed(s) \in Seq(1..MaxLog) /\ Len(Pushed(s)) \in Nat /\ Len(Pushed(s)) # 0
        BY <1>0, <2>3, PushedFrom, EmptySeq, LenProperties
      <4>3. 1 \in 1..Len(Pushed(s))
        BY <4>2
      <4>4. Pushed(s)[1] \in 1..MaxLog
        BY <4>2, <4>3, ElementOfSeq
      <4> QED
        BY <3>1, <4>1, <4>4
    <3> QED
      BY <1>0, <2>1, <3>2, <3>3, <3>4, ScoredFits
  <2> QED
    BY <1>1, <2>1, <2>2, <2>3
<1> QED
  BY <1>2, <1>3, <1>4, <1>5, <1>6, FlushSteps

-----------------------------------------------------------------------------

\* A track answer is made of stored samples of the window, and has no gap.
AnswerOK(s, cutoff, samples) ==
  /\ \A i \in DOMAIN samples : samples[i] \in Times(s) /\ samples[i] >= cutoff
  /\ Descending(samples)
  /\ GapFree(samples, Times(s))

\* The scan of the list stops at the first sample before the cutoff.
LEMMA HotRowsOK ==
  ASSUME OrderInv, NEW s \in Sat, NEW cutoff \in 1..MaxLog
  PROVE  HotRows(s, cutoff) \in Seq(Nat) /\ AnswerOK(s, cutoff, HotRows(s, cutoff))
<1> DEFINE q == track[s]
           T == Times(s)
           before == {i \in DOMAIN q : q[i] < cutoff}
<1>0. CoreTypeOK /\ RedisTypeOK /\ HotIsDurable /\ HotOK(s)
  BY DEF OrderInv, RedisInv, Inv, TypeInv, FreshInv
<1>1. T \in SUBSET Nat /\ \A i \in DOMAIN q : q[i] \in T
  BY <1>0, TimesAre DEF HotIsDurable
<1>2. /\ Len(q) \in Nat /\ DOMAIN q = 1..Len(q) /\ \A i \in DOMAIN q : q[i] \in Nat
      /\ q \in Seq(Nat)
  <2>1. q \in Seq(1..MaxLog)
    BY <1>0 DEF RedisTypeOK
  <2>2. Len(q) \in Nat /\ DOMAIN q = 1..Len(q) /\ \A i \in DOMAIN q : q[i] \in Nat
    BY <2>1, LenProperties, ElementOfSeq
  <2> QED
    BY <2>2, SeqDef, <2>1
<1>3. Descending(q) /\ GapFree(q, T)
  BY <1>0 DEF HotOK
<1>4. HotRows(s, cutoff) = IF before = {} THEN q ELSE SubSeq(q, 1, Min(before) - 1)
  BY DEF HotRows
<1> HIDE DEF q, T
<1>5. CASE before = {}
  <2>1. \A i \in DOMAIN q : q[i] >= cutoff
    BY <1>2, <1>5
  <2> QED
    BY <1>1, <1>2, <1>3, <1>4, <1>5, <2>1 DEF AnswerOK, T
<1>6. CASE before # {}
  <2> DEFINE m == Min(before) - 1
             r == SubSeq(q, 1, m)
  <2>1. before \in SUBSET Nat
    BY <1>2
  <2>2. Min(before) \in before /\ \A i \in before : Min(before) <= i
    <3> HIDE DEF before
    <3> QED
      BY <1>6, <2>1, NatMin
  <2>3. m \in Nat /\ m <= Len(q) /\ \A i \in 1..m : i \in DOMAIN q /\ i \notin before
    <3>1. Min(before) \in 1..Len(q)
      BY <1>2, <2>2
    <3> HIDE DEF before
    <3>2. m \in Nat /\ m <= Len(q) /\ \A i \in 1..m : i \in DOMAIN q
      BY <1>2, <3>1
    <3>3. \A i \in 1..m : ~(Min(before) <= i)
      BY <3>1
    <3> QED
      BY <2>2, <3>2, <3>3
  <2>4. \A i \in 1..m : q[i] >= cutoff /\ q[i] \in T
    BY <1>1, <1>2, <2>3
  <2> HIDE DEF m, before
  <2>5. r \in Seq(Nat) /\ DOMAIN r = 1..m /\ \A i \in 1..m : r[i] = q[i]
    BY <1>2, <2>3, PrefixIs
  <2>6. Descending(r) /\ GapFree(r, T)
    BY <1>1, <1>2, <1>3, <2>3, PrefixDescends, PrefixGapFree
  <2>7. HotRows(s, cutoff) = r
    BY <1>4, <1>6 DEF m
  <2> HIDE DEF r
  <2> QED
    BY <2>4, <2>5, <2>6, <2>7 DEF AnswerOK, T
<1> QED
  BY <1>5, <1>6

\* The rows of Postgres: the newest of the window, without a gap up to LIMIT.
LEMMA ColdRowsOK ==
  ASSUME OrderInv, QueryAssumption, NEW s \in Sat, NEW cutoff \in 1..MaxLog
  PROVE  ColdRows(s, cutoff) \in Seq(Nat) /\ AnswerOK(s, cutoff, ColdRows(s, cutoff))
<1> DEFINE T == Times(s)
           W == InWindow(s, cutoff)
           n == Cardinality(W)
           l == Limited(s, cutoff)
           r == ColdRows(s, cutoff)
<1>0. CoreTypeOK /\ db \subseteq Sat \X (1..MaxLog)
  BY DEF OrderInv, RedisInv, Inv, TypeInv, CoreTypeOK, PostgresTypeOK
<1>1. T \in SUBSET Nat
  BY <1>0, TimesAre
<1>2. W \in SUBSET (1..MaxLog) /\ \A t \in T : t >= cutoff => t \in W
  BY <1>0 DEF InWindow, Times
<1>3. \A t \in W : t \in T /\ t >= cutoff
  BY <1>0 DEF InWindow, Times
<1>4. IsFiniteSet(W) /\ n \in Nat /\ W \in SUBSET Nat
  <2>1. IsFiniteSet(1..MaxLog)
    BY FS_Interval
  <2> QED
    BY <1>2, <2>1, FS_Subset, FS_CardinalityType
<1>5. l \in Nat /\ l <= n
  <2>1. l = Min({RowLimit, n})
    BY DEF Limited
  <2> HIDE DEF l, n
  <2>2. l = IF RowLimit <= n THEN RowLimit ELSE n
    BY <1>4, <2>1, MinOfTwo DEF QueryAssumption
  <2> QED
    BY <1>4, <2>2 DEF QueryAssumption
<1>6. r = [j \in 1..l |-> Latest(W, j)]
  BY DEF ColdRows
<1> HIDE DEF T, W, r, l
<1>7. \A j \in 1..l : j \in 1..n
  BY <1>4, <1>5
<1>8. \A j \in 1..l : Latest(W, j) \in W
  BY <1>4, <1>7, LatestIs
<1>9. r \in Seq(Nat) /\ Len(r) = l /\ DOMAIN r = 1..l
  <2>1. r \in [1..l -> Nat]
    BY <1>4, <1>6, <1>8
  <2> QED
    BY <1>5, <2>1, SeqOfFunction
<1>10. \A j \in 1..l : r[j] = Latest(W, j) /\ r[j] \in T /\ r[j] >= cutoff /\ r[j] \in Nat
  BY <1>3, <1>4, <1>6, <1>8
<1>11. Descending(r)
  <2>1. ASSUME NEW i \in 1..l, NEW j \in 1..l, i < j PROVE r[i] > r[j]
    BY <1>4, <1>7, <1>10, <2>1, LatestDescends
  <2> QED
    BY <1>9, <2>1 DEF Descending
<1>12. GapFree(r, T)
  <2>1. ASSUME NEW i \in 1..l, NEW t \in T, r[l] <= t, t < r[i]
        PROVE  \E j \in 1..l : r[j] = t
    <3>1. l \in 1..l
      BY <1>5
    <3>2. t \in Nat /\ r[l] \in Nat /\ r[l] >= cutoff
      BY <1>1, <1>10, <3>1
    <3>3. t >= cutoff
      BY <2>1, <3>2
    <3>4. PICK j \in 1..n : Latest(W, j) = t
      BY <1>2, <1>4, <3>3, LatestReaches
    <3>5. ~(l < j)
      <4> SUFFICES ASSUME l < j PROVE FALSE
        OBVIOUS
      <4>1. r[l] > t
        BY <1>4, <1>7, <1>10, <3>1, <3>4, LatestDescends
      <4> QED
        BY <2>1, <3>2, <4>1
    <3>6. j \in 1..l
      BY <1>4, <1>5, <3>5
    <3> QED
      BY <1>10, <3>4, <3>6
  <2> QED
    BY <1>9, <2>1 DEF GapFree
<1> QED
  BY <1>9, <1>10, <1>11, <1>12 DEF AnswerOK, T, r

\* The scores a call has read are no newer than what Redis was given since.
SeenOK(ids, seen) ==
  \A i \in DOMAIN ids :
    /\ seen[i] <= Reached(PartitionOf[ids[i]])
    /\ track[ids[i]] # <<>> => track[ids[i]][1] >= seen[i]

PositionsOK(ids, seen, position) ==
  \A i \in DOMAIN ids : position[i] = 0 \/ position[i] >= seen[i]

Samples == Seq(Nat)
ColdCall == [stage : {"cold"}, op : {"track"}, sat : Sat, cutoff : 1..MaxLog]
TrackCall == [stage : {"answered"}, op : {"track"}, sat : Sat, cutoff : 1..MaxLog,
              samples : Samples]
Listed(c) ==
  /\ DOMAIN c.ids = DOMAIN c.seen
  /\ \A i \in DOMAIN c.ids : c.ids[i] \in Sat /\ c.seen[i] \in Nat

\* Each state of a call, with what it has read so far.
CallOK(c) ==
  \/ c.stage = "idle"
  \/ c \in ColdCall
  \/ c \in TrackCall /\ AnswerOK(c.sat, c.cutoff, c.samples)
  \/ c.stage = "lindex" /\ Listed(c) /\ SeenOK(c.ids, c.seen)
  \/ c.stage = "answered" /\ c.op = "active" /\ PositionsOK(c.ids, c.seen, c.position)

\* The persister moves on while a call waits.
LEMMA CallWaits ==
  ASSUME NoRedelivery, OrderInv, [Next]_vars, NEW c, CallOK(c)
  PROVE  CallOK(c)'
<1>1. CASE c.stage = "idle" \/ c \in ColdCall
  BY <1>1 DEF CallOK, ColdCall
<1>2. CASE c \in TrackCall /\ AnswerOK(c.sat, c.cutoff, c.samples)
  <2> DEFINE s == c.sat
             q == c.samples
             T == Times(s)
             U == Times(s)'
  <2>1. s \in Sat
    BY <1>2 DEF TrackCall
  <2>2. /\ T \in SUBSET Nat
        /\ \A t \in T : t \in U
        /\ \A t \in U : t \in T \/ (t \in Nat /\ \A u \in T : u < t)
    BY <2>1, TimesGrow
  <2>3. /\ \A i \in DOMAIN q : q[i] \in T /\ q[i] >= c.cutoff
        /\ Descending(q) /\ GapFree(q, T)
    BY <1>2 DEF AnswerOK
  <2>4. \A i \in DOMAIN q : \A t \in U : q[Len(q)] <= t /\ t < q[i] => \E j \in DOMAIN q : q[j] = t
    <3> HIDE DEF s, q, T, U
    <3> TAKE i \in DOMAIN q
    <3> TAKE t \in U
    <3> HAVE q[Len(q)] <= t /\ t < q[i]
    <3>1. t \in T
      <4> SUFFICES ASSUME t \notin T PROVE FALSE
        OBVIOUS
      <4>1. q[i] \in T
        BY <2>3
      <4>2. q[i] < t /\ q[i] \in Nat /\ t \in Nat
        BY <2>2, <4>1
      <4> QED
        BY <4>2
    <3> QED
      BY <2>3, <3>1 DEF GapFree
  <2>5. (AnswerOK(c.sat, c.cutoff, c.samples))'
    BY <2>2, <2>3, <2>4 DEF AnswerOK, GapFree, Descending
  <2> QED
    BY <1>2, <2>5 DEF CallOK, TrackCall
<1>3. CASE c.stage = "lindex" /\ Listed(c) /\ SeenOK(c.ids, c.seen)
  <2>1. ASSUME NEW i \in DOMAIN c.ids
        PROVE  /\ c.seen[i] <= Reached(PartitionOf[c.ids[i]])'
               /\ track'[c.ids[i]] # <<>> => track'[c.ids[i]][1] >= c.seen[i]
    <3> DEFINE s == c.ids[i]
               n == c.seen[i]
    <3>1. s \in Sat /\ n \in Nat
      BY <1>3 DEF Listed
    <3>2. n <= Reached(PartitionOf[s]) /\ (track[s] # <<>> => track[s][1] >= n)
      BY <1>3 DEF SeenOK
    <3> HIDE DEF s, n
    <3>3. n <= Reached(PartitionOf[s])' /\ (track'[s] # <<>> => track'[s][1] >= n)
      BY <3>1, <3>2, HeadMovesOn
    <3> QED
      BY <3>3 DEF s, n, Reached
  <2> QED
    BY <1>3, <2>1 DEF CallOK, Listed, SeenOK, Reached
<1>4. CASE c.stage = "answered" /\ c.op = "active" /\ PositionsOK(c.ids, c.seen, c.position)
  BY <1>4 DEF CallOK, PositionsOK
<1> QED
  BY <1>1, <1>2, <1>3, <1>4 DEF CallOK

\* A step of a call, beside which the persister stands still.
LEMMA CallStep ==
  ASSUME OrderInv, QueryAssumption, CallOK(call), UNCHANGED vars,
         \/ \E s \in Sat, cutoff \in 1..MaxLog : GetTrack(s, cutoff)
         \/ ColdFallback \/ ListActive \/ AttachTracks
  PROVE  CallOK(call')
<1>0. RedisTypeOK /\ \A s \in Sat : HotOK(s)
  BY DEF OrderInv, RedisInv, FreshInv
<1>1. ASSUME NEW s \in Sat, NEW cutoff \in 1..MaxLog, GetTrack(s, cutoff)
      PROVE  CallOK(call')
  <2>1. CASE HotRows(s, cutoff) # <<>>
    <3> DEFINE q == HotRows(s, cutoff)
    <3>1. call' = Track(s, cutoff, q)
      BY <1>1, <2>1 DEF GetTrack
    <3>2. q \in Seq(Nat) /\ AnswerOK(s, cutoff, q)
      BY HotRowsOK
    <3> HIDE DEF q
    <3>3. call' \in TrackCall /\ call'.sat = s /\ call'.cutoff = cutoff /\ call'.samples = q
      BY <3>1, <3>2 DEF Track, TrackCall, Samples
    <3> QED
      BY <3>2, <3>3 DEF CallOK
  <2>2. CASE HotRows(s, cutoff) = <<>>
    <3>1. call' = [stage |-> "cold", op |-> "track", sat |-> s, cutoff |-> cutoff]
      BY <1>1, <2>2 DEF GetTrack
    <3>2. call' \in ColdCall
      BY <3>1 DEF ColdCall
    <3> QED
      BY <3>2 DEF CallOK
  <2> QED
    BY <2>1, <2>2
<1>2. CASE ColdFallback
  <2> DEFINE s == call.sat
             cutoff == call.cutoff
             q == ColdRows(s, cutoff)
  <2>1. call.stage = "cold" /\ call' = Track(s, cutoff, q)
    BY <1>2 DEF ColdFallback
  <2>2. call \in ColdCall
    BY <2>1 DEF CallOK, TrackCall
  <2>3. s \in Sat /\ cutoff \in 1..MaxLog
    BY <2>2 DEF ColdCall
  <2> HIDE DEF s, cutoff
  <2>4. q \in Seq(Nat) /\ AnswerOK(s, cutoff, q)
    BY <2>3, ColdRowsOK
  <2> HIDE DEF q
  <2>5. call' \in TrackCall /\ call'.sat = s /\ call'.cutoff = cutoff /\ call'.samples = q
    BY <2>1, <2>3, <2>4 DEF Track, TrackCall, Samples
  <2> QED
    BY <2>4, <2>5 DEF CallOK
<1>3. CASE ListActive
  <2>1. PICK n \in 0..Min({ActiveLimit, Cardinality(Sat)}) :
          \E ids \in [1..n -> {s \in Sat : active[s] # 0}] :
            call' = [stage |-> "lindex", op |-> "active", ids |-> ids,
                     seen |-> [i \in 1..n |-> active[ids[i]]]]
    BY <1>3 DEF ListActive
  <2>2. PICK ids \in [1..n -> {s \in Sat : active[s] # 0}] :
          call' = [stage |-> "lindex", op |-> "active", ids |-> ids,
                   seen |-> [i \in 1..n |-> active[ids[i]]]]
    BY <2>1
  <2> DEFINE seen == [i \in 1..n |-> active[ids[i]]]
  <2>3. /\ call'.stage = "lindex" /\ call'.ids = ids /\ call'.seen = seen
        /\ DOMAIN ids = 1..n /\ DOMAIN seen = 1..n
    BY <2>2
  <2>4. \A i \in 1..n : ids[i] \in Sat /\ seen[i] = active[ids[i]]
    OBVIOUS
  <2> HIDE DEF seen
  <2>5. \A s \in Sat : /\ active[s] \in Nat /\ active[s] <= Reached(PartitionOf[s])
                       /\ track[s] # <<>> => track[s][1] >= active[s]
    <3> TAKE s \in Sat
    <3>1. active[s] \in Nat
      BY <1>0 DEF RedisTypeOK
    <3>2. HotOK(s)
      BY <1>0
    <3>3. track[s] # <<>> => track[s][1] = active[s]
      BY <3>2 DEF HotOK
    <3>4. track[s] # <<>> => track[s][1] >= active[s]
      BY <3>1, <3>3
    <3> QED
      BY <3>1, <3>2, <3>4 DEF HotOK
  <2>6. Listed(call') /\ SeenOK(ids, seen)
    BY <2>3, <2>4, <2>5 DEF Listed, SeenOK
  <2> QED
    BY <2>3, <2>6 DEF CallOK
<1>4. CASE AttachTracks
  <2> DEFINE ids == call.ids
             seen == call.seen
             position == [i \in DOMAIN ids |-> Attached(ids[i])]
  <2>1. call.stage = "lindex" /\
        call' = [stage |-> "answered", op |-> "active", ids |-> ids, seen |-> seen,
                 position |-> position]
    BY <1>4 DEF AttachTracks
  <2>2. SeenOK(ids, seen)
    BY <2>1 DEF CallOK, ColdCall, TrackCall
  <2>3. /\ call'.stage = "answered" /\ call'.op = "active"
        /\ call'.ids = ids /\ call'.seen = seen /\ call'.position = position
    BY <2>1
  <2>4. \A i \in DOMAIN ids : position[i] = 0 \/ position[i] >= seen[i]
    BY <2>2 DEF SeenOK, Attached
  <2> HIDE DEF ids, seen, position
  <2> QED
    BY <2>3, <2>4 DEF CallOK, PositionsOK
<1> QED
  BY <1>1, <1>2, <1>3, <1>4

QueryInv == OrderInv /\ CallOK(call)

\* A step of the readers and the persister is one of the one or the other.
LEMMA QuerySteps ==
  ASSUME [QueryNext]_<<vars, call>>
  PROVE  /\ [Next]_vars
         /\ \/ UNCHANGED call
            \/ UNCHANGED vars /\ \/ \E s \in Sat, cutoff \in 1..MaxLog : GetTrack(s, cutoff)
                                 \/ ColdFallback \/ ListActive \/ AttachTracks
<1>1. CASE Next /\ UNCHANGED call
  BY <1>1
<1>2. ASSUME NEW s \in Sat, NEW cutoff \in 1..MaxLog, GetTrack(s, cutoff)
      PROVE  UNCHANGED vars
  BY <1>2 DEF GetTrack
<1>3. CASE ColdFallback
  BY <1>3 DEF ColdFallback
<1>4. CASE ListActive
  BY <1>4 DEF ListActive
<1>5. CASE AttachTracks
  BY <1>5 DEF AttachTracks
<1>6. CASE UNCHANGED <<vars, call>>
  BY <1>6
<1> QED
  BY <1>1, <1>2, <1>3, <1>4, <1>5, <1>6 DEF QueryNext

\* No step breaks the invariant of the calls.
LEMMA QueryInvNext ==
  ASSUME NoRedelivery, QueryInv, [QueryNext]_<<vars, call>>
  PROVE  QueryInv'
<1>0. OrderInv /\ CallOK(call) /\ [Next]_vars
  BY QuerySteps DEF QueryInv
<1>1. OrderInv'
  BY <1>0, OrderNext
<1>2. CASE UNCHANGED call
  <2>1. \A c : CallOK(c) => CallOK(c)'
    BY <1>0, CallWaits
  <2> QED
    BY <1>0, <1>1, <1>2, <2>1 DEF QueryInv
<1>3. CASE UNCHANGED vars /\ \/ \E s \in Sat, cutoff \in 1..MaxLog : GetTrack(s, cutoff)
                             \/ ColdFallback \/ ListActive \/ AttachTracks
  <2>1. CallOK(call')
    BY <1>0, <1>3, QueryAssumption, CallStep
  <2>2. \A c : CallOK(c) => CallOK(c)'
    BY <1>0, CallWaits
  <2> QED
    BY <1>1, <2>1, <2>2 DEF QueryInv
<1> QED
  BY <1>2, <1>3, QuerySteps

\* So it holds in every state.
LEMMA QueryAlways ==
  ASSUME NoRedelivery
  PROVE  QuerySpec => []QueryInv
<1>1. QueryInit => QueryInv
  BY OrderInit DEF QueryInit, QueryInv, CallOK, NoCall
<1>2. QueryInv /\ [QueryNext]_<<vars, call>> => QueryInv'
  BY QueryInvNext
<1> QED
  BY <1>1, <1>2, PTL DEF QuerySpec

\* When no flush fails, a track answer is newest first, of its window and
\* without gaps, wherever it was read and whatever was written meanwhile.
THEOREM TracksHaveNoGaps ==
  ASSUME NoRedelivery
  PROVE  QuerySpec => []TrackHasNoGaps
<1>1. ASSUME QueryInv PROVE TrackHasNoGaps
  <2> SUFFICES ASSUME TrackAnswered PROVE TrackHasNoGaps
    BY DEF TrackHasNoGaps
  <2>1. call \in TrackCall /\ AnswerOK(call.sat, call.cutoff, call.samples)
    BY <1>1 DEF QueryInv, CallOK, TrackAnswered, ColdCall
  <2> DEFINE s == call.sat
             q == call.samples
  <2>2. /\ \A i \in DOMAIN q : q[i] >= call.cutoff
        /\ Descending(q) /\ GapFree(q, Times(s))
    BY <2>1 DEF AnswerOK
  <2>3. \A c : \A t \in InWindow(s, c) : t \in Times(s) /\ t >= c
    BY DEF InWindow, Times
  <2>4. ASSUME NEW i \in DOMAIN q, NEW t \in InWindow(s, q[Len(q)]), t < q[i]
        PROVE  \E j \in DOMAIN q : q[j] = t
    <3>1. t \in Times(s) /\ t >= q[Len(q)]
      BY <2>3
    <3>2. t \in Nat /\ q \in Seq(Nat) /\ Len(q) \in DOMAIN q
      <4>1. CoreTypeOK /\ s \in Sat /\ q \in Seq(Nat)
        BY <1>1, <2>1 DEF QueryInv, OrderInv, RedisInv, Inv, TypeInv, TrackCall, Samples
      <4>2. Len(q) \in Nat /\ DOMAIN q = 1..Len(q) /\ i \in DOMAIN q
        BY <4>1, NatSeq
      <4>3. t \in Nat
        BY <3>1, <4>1, TimesAre
      <4> QED
        BY <4>1, <4>2, <4>3
    <3>3. q[Len(q)] <= t
      BY <3>1, <3>2, NatSeq
    <3> QED
      BY <2>2, <2>4, <3>1, <3>3 DEF GapFree
  <2> QED
    BY <2>2, <2>4 DEF TrackHasNoGaps, Descending
<1> QED
  BY <1>1, QueryAlways, PTL

\* When no flush fails, list_active shows no position older than the last_seen
\* next to it, though it reads the two in two calls.
THEOREM PositionsNotOlder ==
  ASSUME NoRedelivery
  PROVE  QuerySpec => []PositionNotOlder
<1>1. QueryInv => PositionNotOlder
  <2> SUFFICES ASSUME QueryInv, ActiveAnswered PROVE PositionNotOlder
    BY DEF PositionNotOlder
  <2>1. PositionsOK(call.ids, call.seen, call.position)
    BY DEF QueryInv, CallOK, ActiveAnswered, ColdCall, TrackCall
  <2> QED
    BY <2>1 DEF PositionNotOlder, PositionsOK
<1> QED
  BY <1>1, QueryAlways, PTL
=============================================================================
