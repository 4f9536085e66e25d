---------------------------- MODULE WsHubProofs ----------------------------
(***************************************************************************)
(* Proofs about WsHub, for any number of clients, frames and texts and any *)
(* sizes of the queue and of the list of passes.  What a step does to a    *)
(* client is one of five moves: nothing, a data frame is offered, another  *)
(* frame is offered, a frame is sent, or the session is forgotten.         *)
(***************************************************************************)
EXTENDS WsHub, SequenceTheorems, FiniteSetTheorems, TLAPS

\* A message of number n was broadcast, or need not be any more.
Past(n) == IF pump = "caching" THEN n < frame.n ELSE n <= frame.n

\* A pass event is in the list, or later ones have pushed it out, or it was
\* lost with the list.
InList(n) ==
  \/ n <= lost
  \/ \E j \in DOMAIN passes : passes[j] = n
  \/ Len(passes) = PassMax /\ \A j \in DOMAIN passes : passes[j] > n

IsData(f) == f.kind = "data"

\* The data frames of s are in order and above low, and their numbers.
Ordered(s, low) ==
  \A i \in 1..Len(s) : IsData(s[i]) =>
    /\ s[i].n > low
    /\ \A j \in 1..(i - 1) : IsData(s[j]) => s[i].n > s[j].n
Numbers(s) == {s[i].n : i \in {j \in 1..Len(s) : IsData(s[j])}}
PassNumbers(s) == {s[i].n : i \in {j \in 1..Len(s) : IsData(s[j]) /\ s[j].observer = "one"}}

\* Frame k of s is the last answer to a subscription before frame i.
Answers(s, k, i) ==
  /\ s[k].kind = "subscribed"
  /\ \A m \in (k + 1)..(i - 1) : s[m].kind # "subscribed"

\* Every data frame is of the subscription that was answered last.
Answered(s) ==
  \A i \in 1..Len(s) : IsData(s[i]) =>
    \E k \in 1..(i - 1) : Answers(s, k, i) /\ MatchesSubscription(s[k].subscription, s[i])

\* The subscription that was answered last is x.
Knows(s, x) == \E k \in 1..Len(s) : Answers(s, k, Len(s) + 1) /\ s[k].subscription = x

\* The frames of client c, from the last answer that it got.
Chat(c) == <<Subscribed(received[c].subscription)>> \o Stream(c)

-----------------------------------------------------------------------------
(* Frames and sequences of frames.                                         *)

LEMMA FrameKinds ==
  /\ \A f \in Data : f \in Frame /\ IsData(f) /\ f.n \in 1..MaxFrames /\ f.kind # "subscribed"
  /\ \A f \in Frame : IsData(f) => f \in Data
  /\ \A x \in Subscription : Subscribed(x) \in Frame /\ ~IsData(Subscribed(x))
  /\ Ping \in Frame /\ ~IsData(Ping) /\ Ping.kind # "subscribed"
<1>1. \A f \in Data : f \in Frame /\ IsData(f) /\ f.n \in 1..MaxFrames /\ f.kind # "subscribed"
  BY DEF Data, Frame, IsData
<1>2. \A x \in Subscription : Subscribed(x) \in Frame /\ ~IsData(Subscribed(x))
  BY DEF Frame, IsData, Subscribed
<1>3. Ping \in Frame /\ ~IsData(Ping) /\ Ping.kind # "subscribed"
  BY DEF Frame, IsData, Ping
<1>4. \A f \in Frame : IsData(f) => f \in Data
  BY <1>2, <1>3 DEF Frame
<1> QED
  BY <1>1, <1>2, <1>3, <1>4

LEMMA ConcatAppend ==
  ASSUME NEW s \in Seq(Frame), NEW t \in Seq(Frame), NEW f \in Frame
  PROVE  s \o Append(t, f) = Append(s \o t, f)
<1> DEFINE e == <<f>>
<1>1. e \in Seq(Frame)
  OBVIOUS
<1>2. Append(t, f) = t \o e /\ s \o t \in Seq(Frame)
  BY AppendIsConcat, ConcatProperties
<1>3. Append(s \o t, f) = (s \o t) \o e
  BY <1>2, AppendIsConcat
<1> HIDE DEF e
<1>4. (s \o t) \o e = s \o (t \o e)
  BY <1>1, ConcatAssociative, SMTT(30)
<1> QED
  BY <1>2, <1>3, <1>4

LEMMA HeadThenTail ==
  ASSUME NEW q \in Seq(Frame), q # <<>>
  PROVE  <<Head(q)>> \o Tail(q) = q
<1>1. /\ Head(q) \in Frame /\ Tail(q) \in Seq(Frame) /\ Len(Tail(q)) = Len(q) - 1
      /\ \A i \in 1..(Len(q) - 1) : Tail(q)[i] = q[i + 1]
      /\ Len(q) \in Nat \ {0} /\ Head(q) = q[1]
  BY HeadTailProperties, EmptySeq
<1> DEFINE h == <<Head(q)>>
           t == Tail(q)
<1>2. h \in Seq(Frame) /\ Len(h) = 1 /\ h[1] = q[1] /\ t \in Seq(Frame)
  BY <1>1
<1> HIDE DEF h, t
<1>3. /\ h \o t \in Seq(Frame) /\ Len(h \o t) = 1 + Len(t)
      /\ \A i \in 1..(1 + Len(t)) : (h \o t)[i] = IF i <= 1 THEN h[i] ELSE t[i - 1]
  <2>1. /\ h \o t \in Seq(Frame) /\ Len(h \o t) = Len(h) + Len(t)
        /\ \A i \in 1..(Len(h) + Len(t)) : (h \o t)[i] = IF i <= Len(h) THEN h[i] ELSE t[i - Len(h)]
    BY <1>2, ConcatProperties
  <2> QED
    BY <1>2, <2>1
<1>4. Len(t) = Len(q) - 1 /\ Len(h \o t) = Len(q) /\ \A i \in 1..(Len(q) - 1) : t[i] = q[i + 1]
  BY <1>1, <1>3 DEF t
<1>5. ASSUME NEW i \in 1..Len(q) PROVE (h \o t)[i] = q[i]
  <2>1. CASE i = 1
    BY <1>1, <1>2, <1>3, <1>4, <2>1
  <2>2. CASE i # 1
    <3>1. i - 1 \in 1..(Len(q) - 1) /\ (i - 1) + 1 = i /\ ~(i <= 1) /\ i \in 1..(1 + Len(t))
      BY <1>1, <1>4, <2>2
    <3> QED
      BY <1>3, <1>4, <3>1
  <2> QED
    BY <2>1, <2>2
<1>6. h \o t = q
  BY <1>3, <1>4, <1>5, SeqEqual
<1> QED
  BY <1>6 DEF h, t

LEMMA OrderedAppend ==
  ASSUME NEW s \in Seq(Frame), NEW low \in Nat, NEW f \in Frame, Ordered(s, low),
         IsData(f) => f.n > low /\ \A i \in 1..Len(s) : IsData(s[i]) => f.n > s[i].n
  PROVE  Ordered(Append(s, f), low)
BY AppendProperties DEF Ordered

LEMMA OrderedTail ==
  ASSUME NEW s \in Seq(Frame), NEW low \in Nat, s # <<>>, Ordered(s, low)
  PROVE  Ordered(Tail(s), IF IsData(s[1]) THEN s[1].n ELSE low)
<1> DEFINE t == Tail(s)
<1>1. Len(t) = Len(s) - 1 /\ \A i \in 1..Len(t) : t[i] = s[i + 1]
  BY HeadTailProperties
<1>2. Len(s) \in Nat \ {0} /\ Len(t) \in Nat
  BY <1>1, EmptySeq
<1>3. SUFFICES ASSUME NEW i \in 1..Len(t), IsData(t[i])
               PROVE  /\ t[i].n > (IF IsData(s[1]) THEN s[1].n ELSE low)
                      /\ \A j \in 1..(i - 1) : IsData(t[j]) => t[i].n > t[j].n
  BY DEF Ordered
<1> HIDE DEF t
<1>4. i + 1 \in 1..Len(s) /\ t[i] = s[i + 1] /\ 1 \in 1..((i + 1) - 1)
  BY <1>1, <1>2
<1>5. \A j \in 1..(i - 1) : t[j] = s[j + 1] /\ j + 1 \in 1..((i + 1) - 1)
  BY <1>1, <1>2
<1>6. s[i + 1].n > low /\ \A j \in 1..((i + 1) - 1) : IsData(s[j]) => s[i + 1].n > s[j].n
  BY <1>3, <1>4 DEF Ordered
<1> QED
  BY <1>4, <1>5, <1>6

LEMMA NumbersAppend ==
  ASSUME NEW s \in Seq(Frame), NEW f \in Frame
  PROVE  Numbers(Append(s, f)) = Numbers(s) \cup (IF IsData(f) THEN {f.n} ELSE {})
<1> DEFINE t == Append(s, f)
<1>1. /\ Len(t) = Len(s) + 1 /\ Len(s) \in Nat
      /\ \A i \in 1..Len(s) : t[i] = s[i]
      /\ t[Len(s) + 1] = f
  BY AppendProperties, LenProperties
<1> HIDE DEF t
<1>2. ASSUME NEW i \in 1..Len(t), IsData(t[i])
      PROVE  t[i].n \in Numbers(s) \cup (IF IsData(f) THEN {f.n} ELSE {})
  <2>1. CASE i = Len(s) + 1
    BY <1>1, <1>2, <2>1
  <2>2. CASE i \in 1..Len(s)
    BY <1>1, <1>2, <2>2 DEF Numbers
  <2> QED
    BY <1>1, <2>1, <2>2
<1>3. ASSUME NEW i \in 1..Len(s), IsData(s[i])
      PROVE  s[i].n \in Numbers(t)
  BY <1>1, <1>3 DEF Numbers
<1>4. IsData(f) => f.n \in Numbers(t)
  BY <1>1 DEF Numbers
<1>5. Numbers(t) = Numbers(s) \cup (IF IsData(f) THEN {f.n} ELSE {})
  BY <1>2, <1>3, <1>4 DEF Numbers
<1> QED
  BY <1>5 DEF t

LEMMA NumbersTail ==
  ASSUME NEW s \in Seq(Frame), NEW low \in Nat, s # <<>>, Ordered(s, low)
  PROVE  /\ IsData(s[1]) => s[1].n \in Numbers(s) /\ Numbers(Tail(s)) = Numbers(s) \ {s[1].n}
         /\ ~IsData(s[1]) => Numbers(Tail(s)) = Numbers(s)
<1> DEFINE t == Tail(s)
<1>1. Len(t) = Len(s) - 1 /\ \A i \in 1..Len(t) : t[i] = s[i + 1]
  BY HeadTailProperties
<1>2. Len(s) \in Nat \ {0} /\ Len(t) \in Nat
  BY <1>1, EmptySeq
<1> HIDE DEF t
<1>3. \A i \in 1..Len(s) : IsData(s[i]) => s[i].n \in 1..MaxFrames
  BY ElementOfSeq, FrameKinds
<1>4. ASSUME NEW i \in 1..Len(t), IsData(t[i])
      PROVE  t[i].n \in Numbers(s) /\ (IsData(s[1]) => t[i].n # s[1].n)
  <2>1. i + 1 \in 1..Len(s) /\ t[i] = s[i + 1] /\ 1 \in 1..((i + 1) - 1) /\ 1 \in 1..Len(s)
    BY <1>1, <1>2
  <2>2. IsData(s[1]) => s[i + 1].n > s[1].n
    BY <1>4, <2>1 DEF Ordered
  <2> QED
    BY <1>3, <1>4, <2>1, <2>2 DEF Numbers
<1>5. ASSUME NEW i \in 1..Len(s), IsData(s[i]), i # 1
      PROVE  s[i].n \in Numbers(t)
  <2>1. i - 1 \in 1..Len(t) /\ t[i - 1] = s[i]
    BY <1>1, <1>2, <1>5
  <2> QED
    BY <1>5, <2>1 DEF Numbers
<1>6. IsData(s[1]) => s[1].n \in Numbers(s)
  BY <1>2 DEF Numbers
<1>7. IsData(s[1]) => Numbers(t) = Numbers(s) \ {s[1].n}
  BY <1>4, <1>5 DEF Numbers
<1>8. ~IsData(s[1]) => Numbers(t) = Numbers(s)
  BY <1>4, <1>5 DEF Numbers
<1> QED
  BY <1>6, <1>7, <1>8 DEF t

LEMMA PassNumbersAppend ==
  ASSUME NEW s \in Seq(Frame), NEW f \in Frame
  PROVE  PassNumbers(Append(s, f)) \subseteq
           PassNumbers(s) \cup (IF IsData(f) /\ f.observer = "one" THEN {f.n} ELSE {})
<1> DEFINE t == Append(s, f)
<1>1. /\ Len(t) = Len(s) + 1 /\ Len(s) \in Nat
      /\ \A i \in 1..Len(s) : t[i] = s[i]
      /\ t[Len(s) + 1] = f
  BY AppendProperties, LenProperties
<1> HIDE DEF t
<1>2. ASSUME NEW i \in 1..Len(t), IsData(t[i]), t[i].observer = "one"
      PROVE  t[i].n \in PassNumbers(s) \cup (IF IsData(f) /\ f.observer = "one" THEN {f.n} ELSE {})
  <2>1. CASE i = Len(s) + 1
    BY <1>1, <1>2, <2>1
  <2>2. CASE i \in 1..Len(s)
    BY <1>1, <1>2, <2>2 DEF PassNumbers
  <2> QED
    BY <1>1, <2>1, <2>2
<1>3. PassNumbers(t) \subseteq PassNumbers(s) \cup (IF IsData(f) /\ f.observer = "one" THEN {f.n} ELSE {})
  BY <1>2 DEF PassNumbers
<1> QED
  BY <1>3 DEF t

LEMMA PassNumbersTail ==
  ASSUME NEW s \in Seq(Frame), s # <<>>
  PROVE  /\ PassNumbers(Tail(s)) \subseteq PassNumbers(s)
         /\ IsData(s[1]) /\ s[1].observer = "one" => s[1].n \in PassNumbers(s)
<1> DEFINE t == Tail(s)
<1>1. Len(t) = Len(s) - 1 /\ \A i \in 1..Len(t) : t[i] = s[i + 1]
  BY HeadTailProperties
<1>2. Len(s) \in Nat \ {0} /\ Len(t) \in Nat
  BY <1>1, EmptySeq
<1> HIDE DEF t
<1>3. \A i \in 1..Len(t) : i + 1 \in 1..Len(s)
  BY <1>1, <1>2
<1>4. PassNumbers(t) \subseteq PassNumbers(s)
  BY <1>1, <1>3 DEF PassNumbers
<1>5. IsData(s[1]) /\ s[1].observer = "one" => s[1].n \in PassNumbers(s)
  BY <1>2 DEF PassNumbers
<1> QED
  BY <1>4, <1>5 DEF t

LEMMA NumbersFinite ==
  ASSUME NEW s \in Seq(Frame)
  PROVE  /\ IsFiniteSet(Numbers(s)) /\ Cardinality(Numbers(s)) \in Nat
         /\ Numbers(s) \subseteq 1..MaxFrames
<1>1. Numbers(s) \subseteq 1..MaxFrames
  BY ElementOfSeq, FrameKinds DEF Numbers
<1>2. IsFiniteSet(1..MaxFrames)
  BY FS_Interval, HubAssumption
<1> QED
  BY <1>1, <1>2, FS_Subset, FS_CardinalityType

LEMMA AnsweredAppend ==
  ASSUME NEW s \in Seq(Frame), NEW f \in Frame, Answered(s),
         IsData(f) => \E k \in 1..Len(s) :
           Answers(s, k, Len(s) + 1) /\ MatchesSubscription(s[k].subscription, f)
  PROVE  Answered(Append(s, f))
<1> DEFINE t == Append(s, f)
<1>1. /\ Len(t) = Len(s) + 1 /\ Len(s) \in Nat
      /\ \A i \in 1..Len(s) : t[i] = s[i]
      /\ t[Len(s) + 1] = f
  BY AppendProperties, LenProperties
<1> HIDE DEF t
<1>2. \A i \in 1..(Len(s) + 1) : \A k \in 1..(i - 1) : Answers(s, k, i) => Answers(t, k, i)
  BY <1>1 DEF Answers
<1>3. ASSUME NEW i \in 1..Len(t), IsData(t[i])
      PROVE  \E k \in 1..(i - 1) :
               Answers(t, k, i) /\ MatchesSubscription(t[k].subscription, t[i])
  <2>1. CASE i = Len(s) + 1
    <3>1. PICK k \in 1..Len(s) :
            Answers(s, k, Len(s) + 1) /\ MatchesSubscription(s[k].subscription, f)
      BY <1>1, <1>3, <2>1
    <3>2. k \in 1..(i - 1) /\ t[k] = s[k] /\ t[i] = f /\ i \in 1..(Len(s) + 1)
      BY <1>1, <2>1
    <3> QED
      BY <1>2, <2>1, <3>1, <3>2
  <2>2. CASE i \in 1..Len(s)
    <3>1. PICK k \in 1..(i - 1) :
            Answers(s, k, i) /\ MatchesSubscription(s[k].subscription, s[i])
      BY <1>1, <1>3, <2>2 DEF Answered
    <3>2. t[k] = s[k] /\ t[i] = s[i] /\ i \in 1..(Len(s) + 1)
      BY <1>1, <2>2
    <3> QED
      BY <1>2, <3>1, <3>2
  <2> QED
    BY <1>1, <2>1, <2>2
<1> QED
  BY <1>3 DEF Answered, t

LEMMA KnowsAppend ==
  ASSUME NEW s \in Seq(Frame), NEW f \in Frame, NEW x, Knows(s, x)
  PROVE  /\ f.kind # "subscribed" => Knows(Append(s, f), x)
         /\ f.kind = "subscribed" => Knows(Append(s, f), f.subscription)
<1> DEFINE t == Append(s, f)
<1>1. /\ Len(t) = Len(s) + 1 /\ Len(s) \in Nat
      /\ \A i \in 1..Len(s) : t[i] = s[i]
      /\ t[Len(s) + 1] = f
  BY AppendProperties, LenProperties
<1> HIDE DEF t
<1>2. ASSUME f.kind # "subscribed" PROVE Knows(t, x)
  <2>1. PICK k \in 1..Len(s) : Answers(s, k, Len(s) + 1) /\ s[k].subscription = x
    BY DEF Knows
  <2>2. k \in 1..Len(t) /\ t[k] = s[k]
    BY <1>1
  <2>3. Answers(t, k, Len(t) + 1)
    BY <1>1, <1>2, <2>1, <2>2 DEF Answers
  <2> QED
    BY <2>1, <2>2, <2>3 DEF Knows
<1>3. ASSUME f.kind = "subscribed" PROVE Knows(t, f.subscription)
  <2>1. Len(t) \in 1..Len(t) /\ t[Len(t)] = f /\ Answers(t, Len(t), Len(t) + 1)
    BY <1>1, <1>3 DEF Answers
  <2> QED
    BY <2>1 DEF Knows
<1> QED
  BY <1>2, <1>3 DEF t

\* A frame is sent: an answer replaces the one that the client had, another
\* frame is gone.
LEMMA ChatSent ==
  ASSUME NEW t \in Seq(Frame), t # <<>>, NEW a \in Frame, a.kind = "subscribed"
  PROVE  LET s == <<a>> \o t
             b == IF t[1].kind = "subscribed" THEN t[1] ELSE a
             u == <<b>> \o Tail(t)
         IN  /\ Answered(s) => Answered(u)
             /\ \A x : Knows(s, x) => Knows(u, x)
<1> DEFINE s == <<a>> \o t
           b == IF t[1].kind = "subscribed" THEN t[1] ELSE a
           u == <<b>> \o Tail(t)
<1>1. Len(t) \in Nat \ {0} /\ t[1] \in Frame /\ b \in Frame /\ b.kind = "subscribed"
  BY EmptySeq, ElementOfSeq
<1>2. /\ <<a>> \in Seq(Frame) /\ Len(<<a>>) = 1 /\ <<a>>[1] = a
      /\ <<b>> \in Seq(Frame) /\ Len(<<b>>) = 1 /\ <<b>>[1] = b
  BY <1>1
<1> HIDE DEF b
<1>3. /\ Tail(t) \in Seq(Frame) /\ Len(Tail(t)) = Len(t) - 1
      /\ \A i \in 1..(Len(t) - 1) : Tail(t)[i] = t[i + 1]
  BY HeadTailProperties
<1>4. /\ Len(s) = 1 + Len(t)
      /\ \A i \in 1..(1 + Len(t)) : s[i] = IF i <= 1 THEN <<a>>[i] ELSE t[i - 1]
  BY <1>1, <1>2, ConcatProperties
<1>5. /\ Len(u) = 1 + (Len(t) - 1)
      /\ \A i \in 1..(1 + (Len(t) - 1)) : u[i] = IF i <= 1 THEN <<b>>[i] ELSE Tail(t)[i - 1]
  BY <1>1, <1>2, <1>3, ConcatProperties
<1> HIDE DEF s, u
<1>6. Len(s) = Len(u) + 1 /\ Len(u) \in Nat \ {0}
  BY <1>1, <1>4, <1>5
<1>7. s[1] = a /\ s[2] = t[1] /\ u[1] = b
  BY <1>1, <1>2, <1>4, <1>5
<1>8. \A i \in 2..Len(u) : u[i] = s[i + 1]
  <2> TAKE i \in 2..Len(u)
  <2>1. i \in 1..(1 + (Len(t) - 1)) /\ ~(i <= 1) /\ i - 1 \in 1..(Len(t) - 1)
    BY <1>1, <1>5
  <2>2. u[i] = t[(i - 1) + 1]
    BY <1>3, <1>5, <2>1
  <2>3. i + 1 \in 1..(1 + Len(t)) /\ ~(i + 1 <= 1) /\ (i + 1) - 1 = i /\ (i - 1) + 1 = i
    BY <1>1, <2>1
  <2> QED
    BY <1>4, <2>2, <2>3
<1>9. ASSUME NEW i \in 2..(Len(u) + 1), NEW k \in 1..i, Answers(s, k, i + 1)
      PROVE  \E l \in 1..(i - 1) : Answers(u, l, i) /\ u[l] = s[k]
  <2>1. CASE k >= 3
    <3>1. k - 1 \in 1..(i - 1) /\ k - 1 \in 2..Len(u) /\ (k - 1) + 1 = k
      BY <1>6, <2>1
    <3>2. u[k - 1] = s[k]
      BY <1>8, <3>1
    <3>3. ASSUME NEW m \in ((k - 1) + 1)..(i - 1) PROVE u[m].kind # "subscribed"
      <4>1. m \in 2..Len(u) /\ m + 1 \in (k + 1)..((i + 1) - 1)
        BY <1>6, <2>1
      <4> QED
        BY <1>8, <1>9, <4>1 DEF Answers
    <3>4. Answers(u, k - 1, i)
      BY <1>9, <3>2, <3>3 DEF Answers
    <3> QED
      BY <3>1, <3>2, <3>4
  <2>2. CASE k \in {1, 2}
    <3>1. u[1] = s[k]
      <4>1. CASE k = 2
        BY <1>7, <1>9, <4>1 DEF Answers, b
      <4>2. CASE k = 1
        <5>1. 2 \in (k + 1)..((i + 1) - 1)
          BY <4>2
        <5>2. s[2].kind # "subscribed"
          BY <1>9, <5>1 DEF Answers
        <5> QED
          BY <1>7, <4>2, <5>2 DEF b
      <4> QED
        BY <2>2, <4>1, <4>2
    <3>2. ASSUME NEW m \in (1 + 1)..(i - 1) PROVE u[m].kind # "subscribed"
      <4>1. m \in 2..Len(u) /\ m + 1 \in (k + 1)..((i + 1) - 1)
        BY <1>6, <2>2
      <4> QED
        BY <1>8, <1>9, <4>1 DEF Answers
    <3>3. 1 \in 1..(i - 1) /\ Answers(u, 1, i)
      BY <1>9, <3>1, <3>2 DEF Answers
    <3> QED
      BY <3>1, <3>3
  <2> QED
    BY <2>1, <2>2
<1>10. ASSUME Answered(s) PROVE Answered(u)
  <2>1. SUFFICES ASSUME NEW i \in 1..Len(u), IsData(u[i])
                 PROVE  \E l \in 1..(i - 1) :
                          Answers(u, l, i) /\ MatchesSubscription(u[l].subscription, u[i])
    BY DEF Answered
  <2>2. i \in 2..Len(u)
    BY <1>1, <1>6, <1>7, <2>1 DEF IsData
  <2>3. u[i] = s[i + 1] /\ i + 1 \in 1..Len(s) /\ (i + 1) - 1 = i /\ i \in 2..(Len(u) + 1)
    BY <1>6, <1>8, <2>2
  <2>4. PICK k \in 1..i : Answers(s, k, i + 1) /\ MatchesSubscription(s[k].subscription, s[i + 1])
    BY <1>10, <2>1, <2>3 DEF Answered
  <2> QED
    BY <1>9, <2>3, <2>4
<1>11. ASSUME NEW x, Knows(s, x) PROVE Knows(u, x)
  <2>1. PICK k \in 1..Len(s) : Answers(s, k, Len(s) + 1) /\ s[k].subscription = x
    BY <1>11 DEF Knows
  <2>2. Len(u) + 1 \in 2..(Len(u) + 1) /\ k \in 1..(Len(u) + 1) /\ (Len(u) + 1) - 1 = Len(u)
    BY <1>6
  <2> QED
    BY <1>6, <1>9, <2>1, <2>2 DEF Knows
<1> QED
  BY <1>10, <1>11 DEF s, b, u

-----------------------------------------------------------------------------
(* Types.                                                                  *)

\* What is bounded by time: an open session is idle for less than MaxIdle
\* when its pinger begins to sleep.  And a client that has not connected.
SessionsOK ==
  /\ \A c \in Client : session[c] = "open" => idle[c] + nap[c] <= MaxIdle + PingEvery
  /\ \A c \in Client : session[c] = "none" =>
       /\ subscription[c] = Unsubscribed /\ queue[c] = <<>> /\ sending[c] = <<>>
       /\ received[c] = Nothing /\ due[c] = 0 /\ idle[c] = 0 /\ c \notin clients

\* Only a pass event waits for the cache.
PumpOK == pump = "caching" => frame \in Data /\ frame.observer = "one"

\* The list of passes is of events that were broadcast, newest first.
PassesOK ==
  /\ Past(lost)
  /\ \A i \in 1..Len(passes) : Past(passes[i]) /\ passes[i] > lost
  /\ \A i, j \in 1..Len(passes) : i < j => passes[i] > passes[j]

\* What reaches client c is in order, and was broadcast.
OrderOK(c) ==
  /\ Ordered(Stream(c), received[c].n)
  /\ Past(received[c].n)
  /\ \A n \in Numbers(Stream(c)) : Past(n)

\* Its pass events are in the list.
ListedOK(c) ==
  /\ received[c].pass # 0 => Past(received[c].pass) /\ InList(received[c].pass)
  /\ \A n \in PassNumbers(Stream(c)) : InList(n)

\* What matched is on its way, or counted as dropped.
CountOK(c) ==
  /\ Cardinality(Numbers(Stream(c))) <= due[c]
  /\ c \in clients => due[c] <= Cardinality(Numbers(Stream(c))) + dropped[c]

\* If nothing was dropped and the receiver runs, the client knows what it
\* gets, and will know the subscription that the hub filters by.
ChatOK(c) == Running(c) /\ dropped[c] = 0 => Answered(Chat(c)) /\ Knows(Chat(c), subscription[c])

ClientOK(c) == OrderOK(c) /\ ListedOK(c) /\ CountOK(c) /\ ChatOK(c)

HubInv ==
  /\ TypeOK /\ SessionsOK /\ PumpOK /\ PassesOK
  /\ \A c \in Client : ClientOK(c)

LEMMA Constants ==
  /\ QueueMax \in Nat \ {0} /\ PassMax \in Nat \ {0} /\ PingEvery \in Nat \ {0}
  /\ MaxIdle \in Nat /\ MaxFrames \in Nat /\ MaxTexts \in Nat
  /\ Request \subseteq Subscription
  /\ Unsubscribed \in Subscription
BY HubAssumption DEF Subscription, Unsubscribed

LEMMA StreamType ==
  ASSUME TypeOK, NEW c \in Client
  PROVE  /\ Stream(c) \in Seq(Frame) /\ sending[c] \in Seq(Frame) /\ queue[c] \in Seq(Frame)
         /\ received[c].n \in 0..MaxFrames /\ received[c].pass \in 0..MaxFrames
         /\ received[c].subscription \in Subscription
         /\ dropped[c] \in Nat /\ due[c] \in Nat
<1>1. sending[c] \in Seq(Frame) /\ queue[c] \in Seq(Frame)
  <2>1. queue[c] \in Seq(Frame) /\ sending[c] \in {<<>>} \cup {<<f>> : f \in Frame}
    BY DEF TypeOK
  <2>2. CASE sending[c] = <<>>
    BY <2>1, <2>2
  <2>3. CASE sending[c] # <<>>
    <3>1. PICK f \in Frame : sending[c] = <<f>>
      BY <2>1, <2>3
    <3> QED
      BY <2>1, <3>1
  <2> QED
    BY <2>2, <2>3
<1>2. Stream(c) \in Seq(Frame)
  BY <1>1, ConcatProperties DEF Stream
<1> QED
  BY <1>1, <1>2 DEF TypeOK

\* A full queue counts the frame instead of taking it.
LEMMA OfferedFacts ==
  ASSUME TypeOK, NEW c \in Client, NEW f \in Frame
  PROVE  /\ Offered(c, f).queue \in Seq(Frame) /\ Len(Offered(c, f).queue) <= QueueMax
         /\ Offered(c, f).dropped \in Nat
         /\ \/ Offered(c, f).queue = Append(queue[c], f) /\ Offered(c, f).dropped = dropped[c]
            \/ Offered(c, f).queue = queue[c] /\ Offered(c, f).dropped = dropped[c] + 1
<1>1. queue[c] \in Seq(Frame) /\ Len(queue[c]) <= QueueMax /\ dropped[c] \in Nat
      /\ Len(queue[c]) \in Nat /\ QueueMax \in Nat
  BY Constants DEF TypeOK
<1>2. Append(queue[c], f) \in Seq(Frame) /\ Len(Append(queue[c], f)) = Len(queue[c]) + 1
  BY <1>1, AppendProperties
<1> QED
  BY <1>1, <1>2 DEF Offered

LEMMA BroadcastTypes ==
  ASSUME TypeOK, NEW f \in Frame, Broadcast(f)
  PROVE  /\ queue' \in [Client -> Seq(Frame)]
         /\ \A c \in Client : Len(queue'[c]) <= QueueMax
         /\ dropped' \in [Client -> Nat]
         /\ due' \in [Client -> Nat]
<1>1. \A c \in Client : /\ queue[c] \in Seq(Frame) /\ Len(queue[c]) <= QueueMax
                        /\ dropped[c] \in Nat /\ due[c] \in Nat
  BY DEF TypeOK
<1> QED
  BY <1>1, OfferedFacts DEF Broadcast

LEMMA EnqueueTypes ==
  ASSUME TypeOK, NEW c \in Client, NEW f \in Frame, Enqueue(c, f)
  PROVE  /\ queue' \in [Client -> Seq(Frame)]
         /\ \A d \in Client : Len(queue'[d]) <= QueueMax
         /\ dropped' \in [Client -> Nat]
<1>1. /\ queue \in [Client -> Seq(Frame)] /\ \A d \in Client : Len(queue[d]) <= QueueMax
      /\ dropped \in [Client -> Nat]
  BY DEF TypeOK
<1> QED
  BY <1>1, OfferedFacts DEF Enqueue

LEMMA PumpReadsTypes ==
  ASSUME TypeOK, NEW t \in Topic, NEW s \in Sat,
             NEW o \in {"none", "one"}, PumpReads(t, s, o)
  PROVE  TypeOK' /\ frame' \in Data /\ frame'.n = frame.n + 1 /\ frame.n \in Nat
<1>1. frame' \in Data /\ frame'.n = frame.n + 1 /\ frame.n \in Nat
  <2>1. frame.n \in 0..MaxFrames /\ frame.n < MaxFrames
    BY Constants DEF TypeOK, PumpReads, Data, NoFrame
  <2> QED
    BY <2>1, Constants DEF PumpReads, Data
<1>2. /\ queue' \in [Client -> Seq(Frame)]
      /\ \A c \in Client : Len(queue'[c]) <= QueueMax
      /\ dropped' \in [Client -> Nat]
      /\ due' \in [Client -> Nat]
      /\ pump' \in {"reading", "caching", "dead"}
  <2>1. CASE o = "one"
    BY <2>1 DEF TypeOK, PumpReads
  <2>2. CASE o # "one"
    BY <1>1, <2>2, FrameKinds, BroadcastTypes DEF TypeOK, PumpReads
  <2> QED
    BY <2>1, <2>2
<1> QED
  BY <1>1, <1>2 DEF TypeOK, PumpReads, tasks

\* LPUSH and LTRIM.
LEMMA CachedFacts ==
  ASSUME TypeOK, NEW n \in 1..MaxFrames
  PROVE  LET p == Cached(passes, n)
         IN  /\ p \in Seq(1..MaxFrames)
             /\ Len(p) = (IF Len(passes) < PassMax THEN Len(passes) + 1 ELSE PassMax)
             /\ Len(p) \in 1..(Len(passes) + 1)
             /\ p[1] = n
             /\ \A i \in 2..Len(p) : p[i] = passes[i - 1]
<1> DEFINE l == <<n>> \o passes
           k == IF Len(passes) < PassMax THEN Len(passes) + 1 ELSE PassMax
<1>1. passes \in Seq(1..MaxFrames) /\ Len(passes) <= PassMax /\ Len(passes) \in Nat
      /\ PassMax \in Nat \ {0}
  BY Constants DEF TypeOK
<1>2. <<n>> \in Seq(1..MaxFrames) /\ Len(<<n>>) = 1 /\ <<n>>[1] = n
  OBVIOUS
<1>3. /\ l \in Seq(1..MaxFrames) /\ Len(l) = 1 + Len(passes)
      /\ \A i \in 1..(1 + Len(passes)) : l[i] = IF i <= 1 THEN <<n>>[i] ELSE passes[i - 1]
  BY <1>1, <1>2, ConcatProperties
<1> HIDE DEF l
<1>4. k \in 1..(Len(passes) + 1) /\ k \in Int
  BY <1>1
<1>5. Cached(passes, n) = SubSeq(l, 1, k)
  BY DEF Cached, l
<1> HIDE DEF k
<1>6. \A i \in 1..k : l[i] \in 1..MaxFrames
  <2>1. \A i \in 1..k : i \in 1..Len(l)
    BY <1>1, <1>3, <1>4
  <2> QED
    BY <1>3, <2>1, ElementOfSeq
<1>7. /\ SubSeq(l, 1, k) \in Seq(1..MaxFrames)
      /\ Len(SubSeq(l, 1, k)) = IF 1 <= k THEN k - 1 + 1 ELSE 0
      /\ \A i \in 1..(k - 1 + 1) : SubSeq(l, 1, k)[i] = l[1 + i - 1]
  BY <1>4, <1>6, SubSeqProperties
<1>8. Len(Cached(passes, n)) = k /\ \A i \in 1..k : Cached(passes, n)[i] = l[i]
  BY <1>4, <1>5, <1>7
<1>9. Cached(passes, n)[1] = n /\ \A i \in 2..k : Cached(passes, n)[i] = passes[i - 1]
  BY <1>1, <1>2, <1>3, <1>4, <1>8
<1> QED
  BY <1>4, <1>5, <1>7, <1>8, <1>9 DEF k

LEMMA CachePassTypes ==
  ASSUME TypeOK, PumpOK, CachePass
  PROVE  TypeOK' /\ frame \in Data
<1>1. frame \in Data /\ frame.n \in 1..MaxFrames /\ frame \in Frame
  BY FrameKinds DEF PumpOK, CachePass
<1>2. passes' \in Seq(1..MaxFrames) /\ Len(passes') <= PassMax
  <2>1. passes' = Cached(passes, frame.n)
    BY DEF CachePass
  <2>2. Len(passes) <= PassMax /\ Len(passes) \in Nat /\ PassMax \in Nat \ {0}
    BY Constants DEF TypeOK
  <2> QED
    BY <1>1, <2>1, <2>2, CachedFacts
<1>3. /\ queue' \in [Client -> Seq(Frame)]
      /\ \A c \in Client : Len(queue'[c]) <= QueueMax
      /\ dropped' \in [Client -> Nat]
      /\ due' \in [Client -> Nat]
  BY <1>1, BroadcastTypes DEF CachePass
<1> QED
  BY <1>1, <1>2, <1>3 DEF TypeOK, CachePass, tasks

\* The first frame of a stream: what the sender is sending.
LEMMA SendingFirst ==
  ASSUME TypeOK, NEW c \in Client, sending[c] # <<>>
  PROVE  /\ Head(sending[c]) \in Frame
         /\ Stream(c) # <<>> /\ Stream(c)[1] = Head(sending[c])
         /\ Tail(Stream(c)) = queue[c]
<1>1. PICK f \in Frame : sending[c] = <<f>>
  BY DEF TypeOK
<1>2. queue[c] \in Seq(Frame) /\ <<f>> \in Seq(Frame)
  BY <1>1, StreamType
<1>3. Stream(c) = <<f>> \o queue[c]
  BY <1>1 DEF Stream
<1>4. /\ Stream(c) \in Seq(Frame) /\ Len(Stream(c)) = 1 + Len(queue[c]) /\ Len(queue[c]) \in Nat
      /\ Stream(c)[1] = f
      /\ \A i \in 2..(1 + Len(queue[c])) : Stream(c)[i] = queue[c][i - 1]
  BY <1>2, <1>3, ConcatProperties
<1>5. Stream(c) # <<>> /\ Head(sending[c]) = f
  BY <1>1, <1>4
<1>6. Len(Tail(Stream(c))) = Len(queue[c]) /\ Tail(Stream(c)) \in Seq(Frame)
  BY <1>4, <1>5, HeadTailProperties
<1>7. \A i \in 1..Len(queue[c]) : Tail(Stream(c))[i] = queue[c][i]
  <2> TAKE i \in 1..Len(queue[c])
  <2>1. Tail(Stream(c))[i] = Stream(c)[i + 1]
    BY <1>4, <1>5, <1>6, HeadTailProperties
  <2>2. i + 1 \in 2..(1 + Len(queue[c])) /\ (i + 1) - 1 = i
    BY <1>4
  <2> QED
    BY <1>4, <2>1, <2>2
<1> QED
  BY <1>2, <1>4, <1>5, <1>6, <1>7, SeqEqual

\* A data frame that is sent was due.
LEMMA SentTypes ==
  ASSUME TypeOK, NEW c \in Client, OrderOK(c), CountOK(c), Sent(c)
  PROVE  TypeOK'
<1> DEFINE f == Head(sending[c])
<1>1. f \in Frame /\ Stream(c) # <<>> /\ Stream(c)[1] = f /\ Stream(c) \in Seq(Frame)
  BY SendingFirst, StreamType DEF Sent
<1>2. f.kind = "data" => due[c] - 1 \in Nat
  <2> SUFFICES ASSUME f.kind = "data" PROVE due[c] - 1 \in Nat
    OBVIOUS
  <2>1. f.n \in Numbers(Stream(c))
    BY <1>1, StreamType, NumbersTail DEF IsData, OrderOK
  <2>2. Cardinality(Numbers(Stream(c))) # 0 /\ Cardinality(Numbers(Stream(c))) \in Nat
    BY <1>1, <2>1, NumbersFinite, FS_EmptySet
  <2> QED
    BY <2>2, StreamType DEF CountOK
<1>3. due' \in [Client -> Nat]
  BY <1>2 DEF Sent, TypeOK
<1>4. received' \in [Client -> [n : 0..MaxFrames, pass : 0..MaxFrames, subscription : Subscription]]
  <2> DEFINE r == received[c]
  <2>1. r \in [n : 0..MaxFrames, pass : 0..MaxFrames, subscription : Subscription]
    BY DEF TypeOK
  <2>2. f.kind = "data" => f.n \in 0..MaxFrames
    BY <1>1, FrameKinds, Constants DEF IsData
  <2>3. f.kind = "subscribed" => f.subscription \in Subscription
    BY <1>1 DEF Frame, Data, Ping, Subscribed
  <2>4. f.kind \in {"data", "subscribed", "ping"}
    BY <1>1 DEF Frame, Data, Ping, Subscribed
  <2>5. CASE f.kind = "data"
    BY <2>1, <2>2, <2>5 DEF Sent, TypeOK
  <2>6. CASE f.kind = "subscribed"
    BY <2>1, <2>3, <2>6 DEF Sent, TypeOK
  <2>7. CASE f.kind = "ping"
    BY <2>1, <2>7 DEF Sent, TypeOK
  <2> QED
    BY <2>4, <2>5, <2>6, <2>7
<1>5. sending' \in [Client -> {<<>>} \cup {<<g>> : g \in Frame}]
  BY DEF Sent, TypeOK
<1> QED
  BY <1>3, <1>4, <1>5 DEF TypeOK, Sent, hub, client

LEMMA TextTypes ==
  ASSUME TypeOK, NEW c \in Client, Text(c)
  PROVE  texts' \in [Client -> 0..MaxTexts] /\ idle' \in [Client -> 0..(MaxIdle + PingEvery)]
<1>1. texts[c] + 1 \in 0..MaxTexts /\ 0 \in 0..(MaxIdle + PingEvery)
  BY Constants, SMTT(30) DEF TypeOK, Text
<1> QED
  BY <1>1 DEF TypeOK, Text

LEMMA TypesNext ==
  ASSUME HubInv, [Next]_vars
  PROVE  TypeOK'
<1>0. TypeOK /\ SessionsOK
  BY DEF HubInv
<1>1. ASSUME NEW t \in Topic, NEW s \in Sat,
             NEW o \in {"none", "one"}, PumpReads(t, s, o) PROVE TypeOK'
  BY <1>0, <1>1, PumpReadsTypes
<1>2. CASE CachePass
  BY <1>2, CachePassTypes DEF HubInv
<1>3. CASE CacheFails
  BY <1>0, <1>3 DEF CacheFails, TypeOK, client, tasks, history
<1>4. CASE Tick
  <2>1. /\ idle' \in [Client -> 0..(MaxIdle + PingEvery)]
        /\ nap' \in [Client -> 0..PingEvery]
    <3>1. \A c \in Client : idle[c] \in Nat /\ nap[c] \in 0..PingEvery
      BY <1>0, Constants DEF TypeOK
    <3>2. \A c \in Client : session[c] = "open" =>
            nap[c] - 1 \in 0..PingEvery /\ idle[c] + 1 \in 0..(MaxIdle + PingEvery)
      BY <1>0, <1>4, <3>1, Constants DEF Tick, SessionsOK
    <3>3. idle \in [Client -> 0..(MaxIdle + PingEvery)] /\ nap \in [Client -> 0..PingEvery]
      BY <1>0 DEF TypeOK
    <3>4. /\ idle' = [c \in Client |-> IF session[c] = "open" THEN idle[c] + 1 ELSE idle[c]]
          /\ nap' = [c \in Client |-> IF session[c] = "open" THEN nap[c] - 1 ELSE nap[c]]
      BY <1>4 DEF Tick
    <3> QED
      BY <3>2, <3>3, <3>4
  <2> QED
    BY <1>0, <1>4, <2>1 DEF Tick, TypeOK, hub, client, history
<1>5. ASSUME NEW c \in Client, Connect(c) PROVE TypeOK'
  <2>1. session' \in [Client -> {"none", "open", "closing", "ending", "over"}]
        /\ nap' \in [Client -> 0..PingEvery] /\ clients' \subseteq Client
    <3>1. PingEvery \in 0..PingEvery
      BY Constants
    <3> QED
      BY <1>0, <1>5, <3>1 DEF Connect, TypeOK
  <2> QED
    BY <1>0, <1>5, <2>1 DEF Connect, TypeOK, hub, client, history
<1>6. ASSUME NEW c \in Client, NEW s \in Request, Subscribe(c, s) PROVE TypeOK'
  <2>1. s \in Subscription /\ Subscribed(s) \in Frame
    BY Constants, FrameKinds
  <2>2. /\ queue' \in [Client -> Seq(Frame)]
        /\ \A d \in Client : Len(queue'[d]) <= QueueMax
        /\ dropped' \in [Client -> Nat]
    BY <1>0, <1>6, <2>1, EnqueueTypes DEF Subscribe
  <2> QED
    <3>1. texts' \in [Client -> 0..MaxTexts] /\ idle' \in [Client -> 0..(MaxIdle + PingEvery)]
      BY <1>0, <1>6, TextTypes DEF Subscribe
    <3> QED
      BY <1>0, <1>6, <2>1, <2>2, <3>1 DEF Subscribe, TypeOK, hub
<1>15. ASSUME NEW c \in Client, NEW s \in Request, SubscribeFails(c, s) PROVE TypeOK'
  <2>1. texts' \in [Client -> 0..MaxTexts] /\ idle' \in [Client -> 0..(MaxIdle + PingEvery)]
    BY <1>0, <1>15, TextTypes DEF SubscribeFails
  <2>2. subscription' \in [Client -> Subscription]
    <3>1. s \in Subscription /\ subscription[c] \in Subscription
      BY <1>0, Constants DEF TypeOK
    <3>2. [topics |-> s.topics, norad_filter |-> subscription[c].norad_filter] \in Subscription
      BY <3>1 DEF Subscription
    <3> QED
      BY <1>0, <1>15, <3>2 DEF SubscribeFails, TypeOK
  <2>3. session' \in [Client -> {"none", "open", "closing", "ending", "over"}]
    BY <1>0, <1>15 DEF SubscribeFails, TypeOK
  <2> QED
    BY <1>0, <1>15, <2>1, <2>2, <2>3 DEF SubscribeFails, TypeOK, hub
<1>16. CASE ListGone
  <2>1. passes' \in Seq(1..MaxFrames) /\ Len(passes') = 0 /\ 0 <= PassMax
    BY <1>16, Constants DEF ListGone
  <2>2. lost' \in 0..MaxFrames
    <3>1. passes \in Seq(1..MaxFrames) /\ passes # <<>> /\ lost' = passes[1]
      BY <1>0, <1>16 DEF ListGone, TypeOK
    <3>2. 1 \in 1..Len(passes)
      BY <3>1, EmptySeq, LenProperties
    <3> QED
      BY <3>1, <3>2, ElementOfSeq, Constants
  <2> QED
    BY <1>0, <1>16, <2>1, <2>2 DEF ListGone, TypeOK, client, tasks, history
<1>7. ASSUME NEW c \in Client, Pong(c) PROVE TypeOK'
  <2>1. texts' \in [Client -> 0..MaxTexts] /\ idle' \in [Client -> 0..(MaxIdle + PingEvery)]
    BY <1>0, <1>7, TextTypes DEF Pong
  <2> QED
    BY <1>0, <1>7, <2>1 DEF Pong, TypeOK, hub, client
<1>8. ASSUME NEW c \in Client, TaskEnds(c) PROVE TypeOK'
  BY <1>0, <1>8 DEF TaskEnds, TypeOK, hub, client, history
<1>9. ASSUME NEW c \in Client, SendNext(c) PROVE TypeOK'
  <2>1. queue[c] \in Seq(Frame) /\ queue[c] # <<>> /\ Len(queue[c]) <= QueueMax
    BY <1>0, <1>9 DEF SendNext, TypeOK
  <2>0. Len(queue[c]) \in Nat /\ QueueMax \in Nat
    BY <2>1, LenProperties, Constants
  <2>2. /\ Head(queue[c]) \in Frame /\ Tail(queue[c]) \in Seq(Frame)
        /\ Len(Tail(queue[c])) <= QueueMax
    BY <2>0, <2>1, HeadTailProperties
  <2> QED
    BY <1>0, <1>9, <2>2 DEF SendNext, TypeOK, hub, history
<1>10. ASSUME NEW c \in Client, Sent(c) PROVE TypeOK'
  BY <1>10, SentTypes DEF HubInv, ClientOK
<1>11. ASSUME NEW c \in Client, PingerCloses(c) \/ PingerPings(c) PROVE TypeOK'
  <2>1. /\ queue' \in [Client -> Seq(Frame)]
        /\ \A d \in Client : Len(queue'[d]) <= QueueMax
        /\ dropped' \in [Client -> Nat]
    BY <1>0, <1>11, FrameKinds, EnqueueTypes DEF PingerCloses, PingerPings
  <2> QED
    <3>1. session' \in [Client -> {"none", "open", "closing", "ending", "over"}]
          /\ nap' \in [Client -> 0..PingEvery]
      <4>1. PingEvery \in 0..PingEvery
        BY Constants
      <4>2. CASE PingerCloses(c)
        BY <1>0, <4>1, <4>2 DEF PingerCloses, TypeOK
      <4>3. CASE PingerPings(c)
        BY <1>0, <4>1, <4>3 DEF PingerPings, TypeOK
      <4> QED
        BY <1>11, <4>2, <4>3
    <3> QED
      BY <1>0, <1>11, <2>1, <3>1 DEF PingerCloses, PingerPings, TypeOK, hub, history
<1>12. ASSUME NEW c \in Client, PingerEnds(c) PROVE TypeOK'
  BY <1>0, <1>12 DEF PingerEnds, TypeOK, hub, client, history
<1>13. ASSUME NEW c \in Client, Finally(c) PROVE TypeOK'
  <2>1. /\ subscription' \in [Client -> Subscription] /\ queue' \in [Client -> Seq(Frame)]
        /\ \A d \in Client : Len(queue'[d]) <= QueueMax
        /\ sending' \in [Client -> {<<>>} \cup {<<f>> : f \in Frame}]
    BY <1>0, <1>13, Constants DEF Finally, Forget, TypeOK
  <2>2. /\ idle' \in [Client -> 0..(MaxIdle + PingEvery)] /\ nap' \in [Client -> 0..PingEvery]
        /\ session' \in [Client -> {"none", "open", "closing", "ending", "over"}]
        /\ clients' \subseteq Client
    BY <1>0, <1>13, Constants, SMTT(30) DEF Finally, Forget, TypeOK
  <2> QED
    BY <1>0, <1>13, <2>1, <2>2 DEF Finally, TypeOK, hub, history
<1>14. CASE UNCHANGED vars
  BY <1>0, <1>14 DEF vars, hub, client, tasks, history, TypeOK
<1> QED
  BY <1>1, <1>2, <1>3, <1>4, <1>5, <1>6, <1>7, <1>8, <1>9, <1>10, <1>11, <1>12, <1>13, <1>14, <1>15,
     <1>16
  DEF Next, PumpSteps, SessionSteps

-----------------------------------------------------------------------------
(* Sessions, the registration of clients, and the list of passes.          *)

LEMMA SessionsNext ==
  ASSUME HubInv, [Next]_vars
  PROVE  SessionsOK'
<1>0. TypeOK /\ TypeOK' /\ SessionsOK
  BY TypesNext DEF HubInv
<1> USE <1>0, Constants DEF SessionsOK
<1>1. ASSUME NEW f, Broadcast(f),
             UNCHANGED <<clients, subscription, session, sending, idle, nap, received>>
      PROVE  SessionsOK'
  <2>1. \A c \in Client : session[c] = "none" => queue'[c] = queue[c] /\ due'[c] = due[c]
    BY <1>1 DEF Broadcast
  <2> QED
    BY <1>1, <2>1
<1>2. ASSUME NEW t \in Topic, NEW s \in Sat,
             NEW o \in {"none", "one"}, PumpReads(t, s, o) PROVE SessionsOK'
  BY <1>1, <1>2 DEF PumpReads, tasks
<1>3. CASE CachePass
  BY <1>1, <1>3 DEF CachePass, tasks
<1>4. CASE CacheFails
  BY <1>4 DEF CacheFails, client, tasks, history
<1>5. CASE Tick
  <2>1. \A c \in Client : idle[c] \in Nat /\ nap[c] \in Nat
    BY DEF TypeOK
  <2>2. \A c \in Client : IF session[c] = "open" THEN idle'[c] = idle[c] + 1 /\ nap'[c] = nap[c] - 1
                                                ELSE idle'[c] = idle[c] /\ nap'[c] = nap[c]
    BY <1>5 DEF Tick
  <2>3. UNCHANGED <<clients, subscription, queue, session, sending, received, due>>
    BY <1>5 DEF Tick, client, history
  <2> QED
    BY <2>1, <2>2, <2>3
<1>6. ASSUME NEW c \in Client, Connect(c) PROVE SessionsOK'
  <2>1. /\ session[c] = "none" /\ session' = [session EXCEPT ![c] = "open"]
        /\ clients' = clients \cup {c} /\ nap' = [nap EXCEPT ![c] = PingEvery]
        /\ UNCHANGED <<subscription, queue, sending, idle, received, due>>
    BY <1>6 DEF Connect, client, history
  <2>2. session \in [Client -> {"none", "open", "closing", "ending", "over"}] /\ nap \in [Client -> 0..PingEvery]
    BY DEF TypeOK
  <2> QED
    BY <2>1, <2>2
<1>7. ASSUME NEW c \in Client, NEW s \in Request, Subscribe(c, s)
      PROVE  SessionsOK'
  <2>1. /\ session[c] \in {"open", "closing"}
        /\ UNCHANGED <<clients, session, sending, nap, received, due>>
        /\ idle'[c] = 0 /\ nap[c] \in 0..PingEvery
        /\ \A d \in Client : d # c => /\ subscription'[d] = subscription[d]
                                      /\ queue'[d] = queue[d] /\ idle'[d] = idle[d]
    BY <1>7 DEF Subscribe, Text, Running, Enqueue, TypeOK
  <2> QED
    BY <2>1
<1>15. ASSUME NEW c \in Client, NEW s \in Request, SubscribeFails(c, s) PROVE SessionsOK'
  <2>1. /\ UNCHANGED <<clients, queue, sending, nap, received, due>>
        /\ session'[c] = "ending"
        /\ \A d \in Client : d # c => /\ subscription'[d] = subscription[d]
                                      /\ session'[d] = session[d] /\ idle'[d] = idle[d]
    BY <1>15 DEF SubscribeFails, Text, TypeOK
  <2> QED
    BY <2>1
<1>16. CASE ListGone
  BY <1>16 DEF ListGone, client, tasks, history
<1>8. ASSUME NEW c \in Client, Pong(c) PROVE SessionsOK'
  <2>1. /\ session[c] \in {"open", "closing"}
        /\ UNCHANGED <<clients, subscription, queue, session, sending, nap, received, due>>
        /\ idle'[c] = 0 /\ nap[c] \in 0..PingEvery
        /\ \A d \in Client : d # c => idle'[d] = idle[d]
    BY <1>8 DEF Pong, Text, Running, TypeOK, client
  <2> QED
    BY <2>1
<1>9. ASSUME NEW c \in Client, TaskEnds(c) \/ PingerEnds(c) PROVE SessionsOK'
  BY <1>9 DEF TaskEnds, PingerEnds, Running, TypeOK, client, history
<1>10. ASSUME NEW c \in Client, SendNext(c) PROVE SessionsOK'
  BY <1>10 DEF SendNext, TypeOK, history
<1>11. ASSUME NEW c \in Client, Sent(c) PROVE SessionsOK'
  <2>1. \A d \in Client : session[d] = "none" => d # c
    BY <1>11 DEF Sent
  <2>2. \A d \in Client : d # c =>
          sending'[d] = sending[d] /\ received'[d] = received[d] /\ due'[d] = due[d]
    BY <1>11 DEF Sent, TypeOK
  <2>3. UNCHANGED <<clients, subscription, queue, session, idle, nap>>
    BY <1>11 DEF Sent, client
  <2> QED
    BY <2>1, <2>2, <2>3
<1>12. ASSUME NEW c \in Client, PingerCloses(c) \/ PingerPings(c)
       PROVE  SessionsOK'
  <2>1. /\ session[c] = "open" /\ session'[c] \in {"open", "closing"}
        /\ UNCHANGED <<clients, subscription, sending, idle, received, due>>
        /\ \A d \in Client : d # c => /\ session'[d] = session[d]
                                      /\ queue'[d] = queue[d] /\ nap'[d] = nap[d]
    BY <1>12 DEF PingerCloses, PingerPings, Enqueue, TypeOK, history
  <2>2. session'[c] = "open" => idle[c] + nap'[c] <= MaxIdle + PingEvery
    <3>1. CASE PingerCloses(c)
      BY <3>1 DEF PingerCloses, TypeOK
    <3>2. CASE PingerPings(c)
      <4>1. nap'[c] = PingEvery /\ idle[c] <= MaxIdle /\ idle[c] \in 0..(MaxIdle + PingEvery)
        BY <3>2 DEF PingerPings, TypeOK
      <4> QED
        BY <4>1
    <3> QED
      BY <1>12, <3>1, <3>2
  <2> QED
    BY <2>1, <2>2
<1>13. ASSUME NEW c \in Client, Finally(c) PROVE SessionsOK'
  BY <1>13 DEF Finally, Forget, TypeOK, history
<1>14. CASE UNCHANGED vars
  BY <1>14 DEF vars, client, tasks, history
<1> QED
  BY <1>2, <1>3, <1>4, <1>5, <1>6, <1>7, <1>8, <1>9, <1>10, <1>11, <1>12, <1>13, <1>14, <1>15,
     <1>16
  DEF Next, PumpSteps, SessionSteps

\* Frames that were broadcast stay so, and their pass events stay in the list.
LEMMA HubNext ==
  ASSUME HubInv, [Next]_vars
  PROVE  /\ PumpOK' /\ PassesOK'
         /\ \A n \in Nat : Past(n) => Past(n)'
         /\ \A n \in Nat : Past(n) /\ InList(n) => InList(n)'
<1> USE DEF HubInv
<1>1. /\ passes \in Seq(1..MaxFrames) /\ Len(passes) \in Nat /\ Len(passes) <= PassMax
      /\ DOMAIN passes = 1..Len(passes) /\ \A i \in 1..Len(passes) : passes[i] \in Nat
      /\ frame.n \in Nat /\ PassMax \in Nat \ {0} /\ lost \in Nat
  <2>1. frame.n \in Nat /\ lost \in Nat
    BY Constants DEF TypeOK, Data, NoFrame
  <2>2. passes \in Seq(1..MaxFrames) /\ Len(passes) <= PassMax
    BY DEF TypeOK
  <2> QED
    BY <2>1, <2>2, Constants, ElementOfSeq, LenProperties
<1>2. CASE UNCHANGED hub
  BY <1>2 DEF hub, PumpOK, PassesOK, Past, InList
<1>3. ASSUME NEW t \in Topic, NEW s \in Sat,
             NEW o \in {"none", "one"}, PumpReads(t, s, o)
      PROVE  /\ PumpOK' /\ PassesOK'
             /\ \A n \in Nat : Past(n) => Past(n)'
             /\ \A n \in Nat : Past(n) /\ InList(n) => InList(n)'
  <2>1. frame' \in Data /\ frame'.n = frame.n + 1 /\ passes' = passes /\ lost' = lost
        /\ pump = "reading"
    BY <1>3, PumpReadsTypes DEF PumpReads
  <2>2. \A n \in Nat : Past(n) => Past(n)'
    BY <1>1, <2>1 DEF Past
  <2>3. PumpOK'
    <3>1. CASE o = "one"
      BY <1>3, <2>1, <3>1 DEF PumpReads, PumpOK
    <3>2. CASE o # "one"
      BY <1>3, <2>1, <3>2 DEF PumpReads, PumpOK
    <3> QED
      BY <3>1, <3>2
  <2> QED
    BY <1>1, <2>1, <2>2, <2>3 DEF PassesOK, InList
<1>4. CASE CachePass
  <2>1. frame \in Data /\ frame.n \in 1..MaxFrames /\ passes' = Cached(passes, frame.n)
        /\ frame' = frame /\ lost' = lost /\ pump = "caching" /\ pump' = "reading"
    BY <1>4, FrameKinds DEF CachePass, PumpOK
  <2>2. \A n \in Nat : Past(n) => Past(n)' /\ n < frame.n
    BY <1>1, <2>1 DEF Past
  <2>3. /\ passes' \in Seq(1..MaxFrames)
        /\ Len(passes') = (IF Len(passes) < PassMax THEN Len(passes) + 1 ELSE PassMax)
        /\ Len(passes') \in 1..(Len(passes) + 1)
        /\ passes'[1] = frame.n
        /\ \A i \in 2..Len(passes') : passes'[i] = passes[i - 1]
    BY <2>1, CachedFacts
  <2>4. \A i \in 2..Len(passes') : i - 1 \in 1..Len(passes) /\ passes'[i] = passes[i - 1]
    BY <1>1, <2>3
  <2>5. PassesOK'
    <3>0. Past(lost)' /\ lost' < frame.n
      BY <1>1, <2>1, <2>2 DEF PassesOK
    <3>1. ASSUME NEW i \in 1..Len(passes') PROVE Past(passes[i])' /\ passes'[i] > lost'
      <4>1. CASE i = 1
        BY <1>1, <2>1, <2>3, <3>0, <4>1 DEF Past
      <4>2. CASE i \in 2..Len(passes')
        <5>1. passes'[i] = passes[i - 1] /\ i - 1 \in 1..Len(passes)
          BY <2>4, <4>2
        <5>2. Past(passes[i - 1]) /\ passes[i - 1] \in Nat /\ passes[i - 1] > lost
          BY <1>1, <5>1 DEF PassesOK
        <5> QED
          BY <2>1, <5>1, <5>2 DEF Past
      <4> QED
        BY <1>1, <2>3, <4>1, <4>2
    <3>2. ASSUME NEW i \in 1..Len(passes'), NEW j \in 1..Len(passes'), i < j
          PROVE  passes'[i] > passes'[j]
      <4>1. j \in 2..Len(passes')
        BY <1>1, <2>3, <3>2
      <4>2. CASE i = 1
        BY <1>1, <2>2, <2>3, <2>4, <4>1, <4>2 DEF PassesOK
      <4>3. CASE i \in 2..Len(passes')
        <5>1. i - 1 < j - 1
          BY <1>1, <3>2, <4>1, <4>3
        <5> QED
          BY <2>4, <4>1, <4>3, <5>1 DEF PassesOK
      <4> QED
        BY <1>1, <2>3, <4>2, <4>3
    <3> QED
      BY <3>0, <3>1, <3>2 DEF PassesOK
  <2>6. ASSUME NEW n \in Nat, Past(n), InList(n) PROVE InList(n)'
    <3>0. DOMAIN passes' = 1..Len(passes') /\ Len(passes') \in Nat
      BY <2>3, LenProperties
    <3>1. ASSUME NEW j \in 1..Len(passes), passes[j] = n, j + 1 \in 2..Len(passes') PROVE InList(n)'
      <4>1. passes'[j + 1] = n /\ j + 1 \in 1..Len(passes')
        BY <1>1, <2>4, <3>1
      <4> QED
        BY <3>0, <4>1 DEF InList
    <3>2. ASSUME Len(passes) = PassMax, \A i \in 1..(PassMax - 1) : passes[i] > n PROVE InList(n)'
      <4>1. Len(passes') = PassMax
        BY <1>1, <2>3, <3>2
      <4>2. \A i \in 2..Len(passes') : i - 1 \in 1..(PassMax - 1)
        BY <1>1, <4>1
      <4>3. \A i \in 2..Len(passes') : passes'[i] > n
        BY <2>4, <3>2, <4>2
      <4>4. passes'[1] > n
        BY <1>1, <2>2, <2>3, <2>6
      <4> QED
        BY <1>1, <3>0, <4>1, <4>3, <4>4 DEF InList
    <3>3. ASSUME NEW j \in 1..Len(passes), passes[j] = n, j + 1 \notin 2..Len(passes') PROVE InList(n)'
      <4>1. j = PassMax /\ Len(passes) = PassMax
        <5>1. Len(passes') \in Nat /\ ~(j + 1 <= Len(passes'))
          BY <1>1, <2>3, <3>3
        <5>2. j \in Nat /\ j <= Len(passes)
          BY <1>1
        <5>3. ~(Len(passes) < PassMax)
          BY <1>1, <2>3, <5>1, <5>2
        <5>4. Len(passes) = PassMax
          <6>1. Len(passes) \in Nat /\ PassMax \in Nat /\ Len(passes) <= PassMax
            BY <1>1
          <6> QED
            BY <5>3, <6>1
        <5>5. Len(passes') = PassMax
          BY <2>3, <5>3
        <5> QED
          BY <1>1, <5>1, <5>2, <5>4, <5>5
      <4>2. \A i \in 1..(PassMax - 1) : i \in 1..Len(passes) /\ i < j
        BY <1>1, <4>1
      <4> QED
        BY <3>2, <3>3, <4>1, <4>2 DEF PassesOK
    <3>4. ASSUME Len(passes) = PassMax, \A i \in 1..Len(passes) : passes[i] > n PROVE InList(n)'
      <4>1. \A i \in 1..(PassMax - 1) : i \in 1..Len(passes)
        BY <1>1, <3>4
      <4> QED
        BY <3>2, <3>4, <4>1
    <3>5. ASSUME n <= lost PROVE InList(n)'
      BY <2>1, <3>5 DEF InList
    <3> QED
      BY <1>1, <2>6, <3>1, <3>3, <3>4, <3>5 DEF InList
  <2>7. PumpOK'
    BY <2>1 DEF PumpOK
  <2> QED
    BY <2>2, <2>5, <2>6, <2>7
<1>5. CASE CacheFails
  <2>1. UNCHANGED <<frame, passes, lost>> /\ pump' = "dead" /\ pump = "caching"
    BY <1>5 DEF CacheFails
  <2>2. \A n \in Nat : Past(n) => Past(n)'
    BY <1>1, <2>1 DEF Past
  <2> QED
    BY <1>1, <2>1, <2>2 DEF PumpOK, PassesOK, InList
<1>7. CASE ListGone
  <2>1. passes # <<>> /\ passes' = <<>> /\ lost' = passes[1] /\ UNCHANGED <<pump, frame>>
    BY <1>7 DEF ListGone
  <2>2. 1 \in 1..Len(passes) /\ \A j \in 1..Len(passes) : passes[j] <= passes[1]
    <3>1. 1 \in 1..Len(passes)
      BY <1>1, <2>1, EmptySeq
    <3>2. ASSUME NEW j \in 1..Len(passes) PROVE passes[j] <= passes[1]
      <4>1. CASE j = 1
        BY <1>1, <4>1
      <4>2. CASE 1 < j
        BY <1>1, <3>1, <4>2 DEF PassesOK
      <4> QED
        BY <4>1, <4>2
    <3> QED
      BY <3>1, <3>2
  <2>3. Past(passes[1]) /\ passes[1] > lost /\ passes[1] \in Nat
    BY <1>1, <2>2 DEF PassesOK
  <2>4. PassesOK'
    <3>1. 1..Len(passes') = {}
      BY <2>1
    <3>2. Past(lost)'
      BY <2>1, <2>3 DEF Past
    <3> QED
      BY <3>1, <3>2 DEF PassesOK
  <2>5. ASSUME NEW n \in Nat, InList(n) PROVE InList(n)'
    <3>1. n <= passes[1]
      <4>1. CASE n <= lost
        BY <1>1, <2>3, <4>1
      <4>2. CASE \E j \in 1..Len(passes) : passes[j] = n
        BY <2>2, <4>2
      <4>3. CASE \A j \in 1..Len(passes) : passes[j] > n
        BY <2>2, <2>3, <4>3
      <4> QED
        BY <1>1, <2>5, <4>1, <4>2, <4>3 DEF InList
    <3> QED
      BY <2>1, <3>1 DEF InList
  <2> QED
    BY <2>1, <2>4, <2>5 DEF PumpOK, Past
<1>6. CASE ~(\E t \in Topic, s \in Sat, o \in {"none", "one"} : PumpReads(t, s, o)) /\ ~CachePass /\ ~CacheFails
           /\ ~ListGone
  <2>1. UNCHANGED hub
    BY <1>6 DEF Next, PumpSteps, SessionSteps, Tick, Connect, Subscribe, SubscribeFails, Pong,
                TaskEnds, SendNext,
                Sent, PingerCloses, PingerPings, PingerEnds, Finally, vars
  <2> QED
    BY <1>2, <2>1
<1> QED
  BY <1>3, <1>4, <1>5, <1>6, <1>7

-----------------------------------------------------------------------------
(* What a step does to a client.                                           *)

HubAdvances ==
  /\ \A n \in Nat : Past(n) => Past(n)'
  /\ \A n \in Nat : Past(n) /\ InList(n) => InList(n)'

\* A receiver that fails may change the subscription.
Unmoved(c) ==
  /\ Stream(c)' = Stream(c)
  /\ received'[c] = received[c] /\ due'[c] = due[c]
  /\ dropped'[c] = dropped[c]
  /\ c \in clients' => c \in clients
  /\ Running(c)' => Running(c) /\ subscription'[c] = subscription[c]

\* Frame f is taken or dropped.
Takes(c, f) ==
  /\ \/ Stream(c)' = Append(Stream(c), f) /\ dropped'[c] = dropped[c]
     \/ Stream(c)' = Stream(c) /\ dropped'[c] = dropped[c] + 1
  /\ received'[c] = received[c]
  /\ c \in clients' => c \in clients
  /\ Running(c)' => Running(c)

TakesData(c, f) ==
  /\ Takes(c, f)
  /\ f \in Data /\ MatchesSubscription(subscription[c], f)
  /\ \A n \in Nat : Past(n) => n < f.n
  /\ Past(f.n)' /\ (f.observer = "one" => InList(f.n)')
  /\ due'[c] = due[c] + 1 /\ subscription'[c] = subscription[c]

TakesOther(c, f) ==
  /\ Takes(c, f)
  /\ f \in Frame /\ ~IsData(f)
  /\ due'[c] = due[c]
  /\ subscription'[c] = IF f.kind = "subscribed" THEN f.subscription ELSE subscription[c]

\* The first frame of the stream is delivered.
Gets(c) ==
  LET f == Stream(c)[1]
  IN  /\ Stream(c) # <<>> /\ Stream(c)' = Tail(Stream(c))
      /\ received'[c] =
           CASE f.kind = "ping" -> received[c]
             [] f.kind = "subscribed" -> [received[c] EXCEPT !.subscription = f.subscription]
             [] f.kind = "data" ->
                  [received[c] EXCEPT !.n = f.n,
                                      !.pass = IF f.observer = "one" THEN f.n ELSE received[c].pass]
      /\ due'[c] = IF f.kind = "data" THEN due[c] - 1 ELSE due[c]
      /\ dropped'[c] = dropped[c] /\ subscription'[c] = subscription[c]
      /\ c \in clients' => c \in clients
      /\ Running(c)' => Running(c)

Leaves(c) ==
  /\ Stream(c)' = <<>> /\ received'[c] = received[c] /\ due'[c] = due[c]
  /\ c \notin clients' /\ ~Running(c)'

Joins(c) ==
  /\ Stream(c)' = <<>> /\ received'[c] = Nothing /\ due'[c] = 0 /\ Past(0)'
  /\ dropped'[c] = dropped[c] /\ subscription'[c] = Unsubscribed

LEMMA UnmovedKeeps ==
  ASSUME TypeOK, HubAdvances, NEW c \in Client, ClientOK(c), Unmoved(c)
  PROVE  ClientOK(c)'
<1>1. /\ Stream(c) \in Seq(Frame) /\ received[c].n \in Nat /\ received[c].pass \in Nat
      /\ Numbers(Stream(c)) \subseteq Nat
  BY StreamType, NumbersFinite, Constants
<1>2. Stream(c)' = Stream(c) /\ Chat(c)' = Chat(c)
  BY DEF Unmoved, Chat
<1>3. OrderOK(c)'
  BY <1>1, <1>2 DEF ClientOK, OrderOK, HubAdvances, Unmoved
<1>4. ListedOK(c)'
  <2>1. PassNumbers(Stream(c)) \subseteq Numbers(Stream(c))
    BY DEF PassNumbers, Numbers
  <2> QED
    BY <1>1, <1>2, <2>1 DEF ClientOK, OrderOK, ListedOK, HubAdvances, Unmoved
<1>5. CountOK(c)'
  BY <1>2 DEF ClientOK, CountOK, Unmoved
<1>6. ChatOK(c)'
  BY <1>2 DEF ClientOK, ChatOK, Unmoved
<1> QED
  BY <1>3, <1>4, <1>5, <1>6 DEF ClientOK

\* A chat in which the subscription is still to come.
LEMMA ChatType ==
  ASSUME TypeOK, NEW c \in Client
  PROVE  /\ Chat(c) \in Seq(Frame)
         /\ \A f \in Frame : <<Subscribed(received[c].subscription)>> \o Append(Stream(c), f)
                             = Append(Chat(c), f)
<1> DEFINE a == Subscribed(received[c].subscription)
<1>1. a \in Frame /\ Stream(c) \in Seq(Frame)
  BY StreamType, FrameKinds
<1> HIDE DEF a
<1>2. <<a>> \in Seq(Frame)
  BY <1>1
<1>3. <<a>> \o Stream(c) \in Seq(Frame)
  BY <1>1, <1>2, ConcatProperties
<1>4. ASSUME NEW f \in Frame PROVE <<a>> \o Append(Stream(c), f) = Append(<<a>> \o Stream(c), f)
  BY <1>1, <1>2, ConcatAppend
<1> QED
  BY <1>3, <1>4 DEF Chat, a

\* What does not depend on the kind of frame that is taken or dropped.
LEMMA TakesKeeps ==
  ASSUME TypeOK, HubAdvances, NEW c \in Client, ClientOK(c),
         NEW f, TakesData(c, f) \/ TakesOther(c, f)
  PROVE  ClientOK(c)'
<1> DEFINE s == Stream(c)
<1>1. /\ s \in Seq(Frame) /\ received[c].n \in Nat /\ received[c].pass \in Nat
      /\ received[c].subscription \in Subscription
      /\ Numbers(s) \subseteq Nat /\ IsFiniteSet(Numbers(s)) /\ Cardinality(Numbers(s)) \in Nat
      /\ due[c] \in Nat /\ dropped[c] \in Nat /\ Chat(c) \in Seq(Frame)
  <2>1. /\ s \in Seq(Frame) /\ received[c].n \in Nat /\ received[c].pass \in Nat
        /\ received[c].subscription \in Subscription /\ due[c] \in Nat /\ dropped[c] \in Nat
    BY StreamType, Constants
  <2>2. /\ IsFiniteSet(Numbers(s)) /\ Cardinality(Numbers(s)) \in Nat
        /\ Numbers(s) \subseteq 1..MaxFrames
    BY <2>1, NumbersFinite
  <2>3. Chat(c) \in Seq(Frame)
    BY ChatType
  <2>4. Numbers(s) \subseteq Nat
    BY <2>2, Constants
  <2> QED
    BY <2>1, <2>2, <2>3, <2>4
<1>2. f \in Frame /\ Takes(c, f) /\ received'[c] = received[c]
  BY FrameKinds DEF TakesData, TakesOther, Takes
<1>3. IsData(f) => f \in Data /\ TakesData(c, f) /\ f.n \in Nat
  BY <1>2, FrameKinds, Constants DEF TakesOther
<1>4. ~IsData(f) => TakesOther(c, f)
  BY FrameKinds DEF TakesData
<1> DEFINE new == IF IsData(f) THEN {f.n} ELSE {}
<1>5. \/ Numbers(s') = Numbers(s) \cup new
      \/ s' = s /\ dropped'[c] = dropped[c] + 1
  BY <1>1, <1>2, NumbersAppend DEF Takes
<1>6. \A n \in Numbers(s) \cup {received[c].n} : Past(n) /\ (IsData(f) => n < f.n)
  BY <1>1, <1>3 DEF ClientOK, OrderOK, TakesData
<1>7. OrderOK(c)'
  <2>1. CASE s' = Append(s, f)
    <3>1. \A i \in 1..Len(s) : IsData(s[i]) => s[i].n \in Numbers(s)
      BY DEF Numbers
    <3>2. IsData(f) => f.n > received[c].n /\ \A i \in 1..Len(s) : IsData(s[i]) => f.n > s[i].n
      BY <1>1, <1>3, <1>6, <3>1
    <3>3. Ordered(Append(s, f), received[c].n)
      BY <1>1, <1>2, <3>2, OrderedAppend DEF ClientOK, OrderOK
    <3>4. \A n \in Numbers(s') : Past(n)'
      BY <1>1, <1>2, <1>3, <1>6, <2>1, NumbersAppend DEF TakesData, HubAdvances
    <3> QED
      BY <1>1, <1>2, <1>6, <2>1, <3>3, <3>4 DEF OrderOK, HubAdvances
  <2>2. CASE s' = s
    BY <1>1, <1>2, <1>6, <2>2 DEF ClientOK, OrderOK, HubAdvances
  <2> QED
    BY <1>2, <2>1, <2>2 DEF Takes
<1>8. ListedOK(c)'
  <2>1. PassNumbers(s) \subseteq Numbers(s)
    BY DEF PassNumbers, Numbers
  <2>2. \A n \in PassNumbers(s) : InList(n)'
    BY <1>1, <1>6, <2>1 DEF ClientOK, ListedOK, HubAdvances
  <2>3. IsData(f) /\ f.observer = "one" => InList(f.n)'
    BY <1>3 DEF TakesData
  <2>4. PassNumbers(s') \subseteq
          PassNumbers(s) \cup (IF IsData(f) /\ f.observer = "one" THEN {f.n} ELSE {})
    BY <1>1, <1>2, PassNumbersAppend DEF Takes
  <2>5. \A n \in PassNumbers(s') : InList(n)'
    BY <1>2, <2>2, <2>3, <2>4 DEF TakesData
  <2> QED
    BY <1>1, <1>2, <2>5 DEF ClientOK, ListedOK, HubAdvances
<1>9. CountOK(c)'
  <2>1. c \in clients' => c \in clients
    BY <1>2 DEF Takes
  <2>2. CASE s' = s /\ dropped'[c] = dropped[c] + 1
    <3>1. due'[c] \in {due[c], due[c] + 1}
      BY DEF TakesData, TakesOther
    <3> QED
      BY <1>1, <2>1, <2>2, <3>1 DEF ClientOK, CountOK
  <2>3. CASE Numbers(s') = Numbers(s) \cup new /\ dropped'[c] = dropped[c]
    <3>1. CASE IsData(f)
      <4>1. Cardinality(Numbers(s')) = Cardinality(Numbers(s)) + 1
        <5>1. f.n \notin Numbers(s)
          BY <1>1, <1>3, <1>6, <3>1
        <5> QED
          BY <1>1, <2>3, <3>1, <5>1, FS_AddElement
      <4>2. due'[c] = due[c] + 1
        BY <1>3, <3>1 DEF TakesData
      <4> QED
        BY <1>1, <2>1, <2>3, <4>1, <4>2 DEF ClientOK, CountOK
    <3>2. CASE ~IsData(f)
      <4>1. Numbers(s') = Numbers(s) /\ due'[c] = due[c]
        BY <1>4, <2>3, <3>2 DEF TakesOther
      <4> QED
        BY <2>1, <2>3, <4>1 DEF ClientOK, CountOK
    <3> QED
      BY <3>1, <3>2
  <2> QED
    BY <1>1, <1>2, <2>2, <2>3, NumbersAppend DEF Takes
<1>10. ChatOK(c)'
  <2>1. SUFFICES ASSUME Running(c)', dropped'[c] = 0
                 PROVE  (Answered(Chat(c)) /\ Knows(Chat(c), subscription[c]))'
    BY DEF ChatOK
  <2>2. Running(c) /\ dropped[c] = 0 /\ s' = Append(s, f)
    BY <1>1, <1>2, <2>1 DEF Takes
  <2>3. Chat(c)' = Append(Chat(c), f)
    BY <1>2, <2>2, ChatType DEF Chat
  <2>4. Answered(Chat(c)) /\ Knows(Chat(c), subscription[c])
    BY <2>2 DEF ClientOK, ChatOK
  <2>5. IsData(f) => MatchesSubscription(subscription[c], f) /\ subscription'[c] = subscription[c]
    BY <1>3 DEF TakesData
  <2>6. Answered(Append(Chat(c), f))
    <3>1. IsData(f) => \E k \in 1..Len(Chat(c)) :
            Answers(Chat(c), k, Len(Chat(c)) + 1) /\ MatchesSubscription(Chat(c)[k].subscription, f)
      BY <2>4, <2>5 DEF Knows
    <3> QED
      BY <1>1, <1>2, <2>4, <3>1, AnsweredAppend
  <2>7. Knows(Append(Chat(c), f), subscription'[c])
    <3>1. CASE f.kind = "subscribed"
      <4>1. ~IsData(f)
        BY <3>1 DEF IsData
      <4>2. subscription'[c] = f.subscription
        BY <1>4, <3>1, <4>1 DEF TakesOther
      <4> QED
        BY <1>1, <1>2, <2>4, <3>1, <4>2, KnowsAppend
    <3>2. CASE f.kind # "subscribed"
      <4>1. subscription'[c] = subscription[c]
        BY <1>4, <2>5, <3>2 DEF TakesOther
      <4> QED
        BY <1>1, <1>2, <2>4, <3>2, <4>1, KnowsAppend
    <3> QED
      BY <3>1, <3>2
  <2> QED
    BY <2>3, <2>6, <2>7
<1> QED
  BY <1>7, <1>8, <1>9, <1>10 DEF ClientOK

LEMMA GetsKeeps ==
  ASSUME TypeOK, HubAdvances, NEW c \in Client, ClientOK(c), Gets(c)
  PROVE  ClientOK(c)'
<1> DEFINE s == Stream(c)
           f == s[1]
           r == received[c]
<1>1. /\ s \in Seq(Frame) /\ s # <<>> /\ f \in Frame
      /\ r \in [n : 0..MaxFrames, pass : 0..MaxFrames, subscription : Subscription]
      /\ r.n \in Nat /\ r.pass \in Nat /\ due[c] \in Nat /\ dropped[c] \in Nat
  <2>1. s \in Seq(Frame) /\ s # <<>> /\ due[c] \in Nat /\ dropped[c] \in Nat
    BY StreamType DEF Gets
  <2>2. 1 \in 1..Len(s)
    BY <2>1, EmptySeq
  <2>3. r \in [n : 0..MaxFrames, pass : 0..MaxFrames, subscription : Subscription]
    BY DEF TypeOK
  <2> QED
    BY <2>1, <2>2, <2>3, ElementOfSeq, Constants
<1>2. s' = Tail(s) /\ s' \in Seq(Frame)
  BY <1>1, HeadTailProperties DEF Gets
<1>3. /\ IsFiniteSet(Numbers(s)) /\ Cardinality(Numbers(s)) \in Nat /\ Numbers(s) \subseteq Nat
  BY <1>1, NumbersFinite
<1>4. /\ f.kind \in {"data", "subscribed", "ping"}
      /\ f.kind = "subscribed" => f.subscription \in Subscription /\ f = Subscribed(f.subscription)
  BY <1>1 DEF Frame, Data, Ping, Subscribed
<1> HIDE DEF s, f, r
<1>5. /\ f.kind = "data" => /\ received'[c].n = f.n
                            /\ received'[c].pass = IF f.observer = "one" THEN f.n ELSE r.pass
                            /\ received'[c].subscription = r.subscription
      /\ f.kind = "subscribed" => /\ received'[c].n = r.n /\ received'[c].pass = r.pass
                                  /\ received'[c].subscription = f.subscription
      /\ f.kind = "ping" => received'[c] = r
  <2>1. CASE f.kind = "data"
    BY <1>1, <2>1 DEF Gets, s, f, r
  <2>2. CASE f.kind = "subscribed"
    BY <1>1, <2>2 DEF Gets, s, f, r
  <2>3. CASE f.kind = "ping"
    BY <1>1, <2>3 DEF Gets, s, f, r
  <2> QED
    BY <1>4, <2>1, <2>2, <2>3
<1>6. Ordered(s, r.n) /\ Past(r.n) /\ \A n \in Numbers(s) : Past(n)
  BY DEF ClientOK, OrderOK, s, r
<1>7. /\ IsData(f) => f.n \in Numbers(s) /\ Numbers(s') = Numbers(s) \ {f.n}
      /\ ~IsData(f) => Numbers(s') = Numbers(s)
  BY <1>1, <1>2, <1>6, NumbersTail DEF f
<1>8. received'[c].n = IF IsData(f) THEN f.n ELSE r.n
  BY <1>4, <1>5 DEF IsData
<1>9. OrderOK(c)'
  <2>1. Ordered(s', received'[c].n)
    BY <1>1, <1>2, <1>6, <1>8, OrderedTail DEF f
  <2>2. Past(received[c].n)'
    BY <1>1, <1>3, <1>6, <1>7, <1>8 DEF HubAdvances
  <2>3. \A n \in Numbers(s') : Past(n)'
    BY <1>3, <1>6, <1>7 DEF HubAdvances
  <2> QED
    BY <2>1, <2>2, <2>3 DEF OrderOK, s
<1>10. ListedOK(c)'
  <2>1. PassNumbers(s) \subseteq Numbers(s)
    BY DEF PassNumbers, Numbers
  <2>2. \A n \in PassNumbers(s) : Past(n)' /\ InList(n)'
    BY <1>3, <1>6, <2>1 DEF ClientOK, ListedOK, HubAdvances, s
  <2>3. /\ PassNumbers(s') \subseteq PassNumbers(s)
        /\ IsData(f) /\ f.observer = "one" => f.n \in PassNumbers(s)
    BY <1>1, <1>2, PassNumbersTail DEF f
  <2>4. \A n \in Nat : n = r.pass /\ n # 0 => Past(n)' /\ InList(n)'
    BY <1>1 DEF ClientOK, ListedOK, HubAdvances, r
  <2>5. received'[c].pass = IF IsData(f) /\ f.observer = "one" THEN f.n ELSE r.pass
    BY <1>4, <1>5 DEF IsData
  <2>6. received'[c].pass # 0 => Past(received[c].pass)' /\ InList(received[c].pass)'
    BY <1>1, <2>2, <2>3, <2>4, <2>5
  <2> QED
    BY <2>2, <2>3, <2>6 DEF ListedOK, s
<1>11. /\ due'[c] = IF IsData(f) THEN due[c] - 1 ELSE due[c]
       /\ dropped'[c] = dropped[c] /\ subscription'[c] = subscription[c]
       /\ c \in clients' => c \in clients
       /\ Running(c)' => Running(c)
  BY DEF Gets, IsData, s, f
<1>12. CountOK(c)'
  <2>1. /\ Cardinality(Numbers(s)) <= due[c]
        /\ c \in clients => due[c] <= Cardinality(Numbers(s)) + dropped[c]
    BY DEF ClientOK, CountOK, s
  <2>2. Cardinality(Numbers(s')) = IF IsData(f) THEN Cardinality(Numbers(s)) - 1 ELSE Cardinality(Numbers(s))
    BY <1>3, <1>7, FS_RemoveElement
  <2>3. /\ Cardinality(Numbers(s')) <= due'[c]
        /\ c \in clients' => due'[c] <= Cardinality(Numbers(s')) + dropped'[c]
    BY <1>1, <1>3, <1>11, <2>1, <2>2
  <2> QED
    BY <2>3 DEF CountOK, s
<1>13. ChatOK(c)'
  <2>1. SUFFICES ASSUME Running(c)', dropped'[c] = 0
                 PROVE  (Answered(Chat(c)) /\ Knows(Chat(c), subscription[c]))'
    BY DEF ChatOK
  <2>2. Answered(Chat(c)) /\ Knows(Chat(c), subscription[c])
    BY <1>11, <2>1 DEF ClientOK, ChatOK
  <2> DEFINE a == Subscribed(r.subscription)
             b == IF f.kind = "subscribed" THEN f ELSE a
  <2>3. a \in Frame /\ a.kind = "subscribed" /\ Chat(c) = <<a>> \o s
    BY <1>1, FrameKinds DEF Chat, Subscribed, s, r
  <2>4. Chat(c)' = <<b>> \o Tail(s)
    <3>1. Subscribed(received'[c].subscription) = b
      <4>1. CASE f.kind = "subscribed"
        BY <1>4, <1>5, <4>1
      <4>2. CASE f.kind # "subscribed"
        BY <1>4, <1>5, <4>2
      <4> QED
        BY <4>1, <4>2
    <3> QED
      BY <1>2, <3>1 DEF Chat, s
  <2> HIDE DEF a
  <2>5. /\ Answered(<<a>> \o s) => Answered(<<b>> \o Tail(s))
        /\ \A x : Knows(<<a>> \o s, x) => Knows(<<b>> \o Tail(s), x)
    BY <1>1, <2>3, ChatSent DEF f
  <2> HIDE DEF b
  <2> QED
    BY <1>11, <2>2, <2>3, <2>4, <2>5
<1> QED
  BY <1>9, <1>10, <1>12, <1>13 DEF ClientOK

LEMMA LeavesOrJoins ==
  ASSUME TypeOK, HubAdvances, SessionsOK, NEW c \in Client, ClientOK(c), Leaves(c) \/ Joins(c)
  PROVE  ClientOK(c)'
<1>1. Stream(c)' = <<>>
  BY DEF Leaves, Joins
<1>2. /\ received[c].n \in Nat /\ received[c].pass \in Nat /\ due[c] \in Nat /\ dropped[c] \in Nat
  BY StreamType, Constants
<1>3. /\ Len(Stream(c)') = 0 /\ Numbers(Stream(c)') = {} /\ PassNumbers(Stream(c)') = {}
      /\ Cardinality(Numbers(Stream(c)')) = 0
  <2>1. Len(Stream(c)') = 0
    BY <1>1
  <2>2. 1..Len(Stream(c)') = {}
    BY <2>1
  <2>3. Numbers(Stream(c)') = {} /\ PassNumbers(Stream(c)') = {}
    BY <2>2 DEF Numbers, PassNumbers
  <2> QED
    BY <2>1, <2>3, FS_EmptySet
<1>4. CASE Leaves(c)
  <2>1. OrderOK(c)' /\ ListedOK(c)'
    BY <1>2, <1>3, <1>4 DEF Leaves, ClientOK, OrderOK, ListedOK, Ordered, HubAdvances
  <2>2. CountOK(c)' /\ ChatOK(c)'
    BY <1>2, <1>3, <1>4 DEF Leaves, ClientOK, CountOK, ChatOK
  <2> QED
    BY <2>1, <2>2 DEF ClientOK
<1>5. CASE Joins(c)
  <2>1. received'[c].n = 0 /\ received'[c].pass = 0 /\ received'[c].subscription = Unsubscribed
    BY <1>5 DEF Joins, Nothing
  <2>2. OrderOK(c)' /\ ListedOK(c)'
    BY <1>3, <1>5, <2>1 DEF Joins, OrderOK, ListedOK, Ordered
  <2>3. CountOK(c)'
    BY <1>2, <1>3, <1>5 DEF Joins, CountOK
  <2>4. ChatOK(c)'
    <3> DEFINE a == Subscribed(Unsubscribed)
    <3>1. Chat(c)' = <<a>>
      <4>1. a \in Frame
        BY FrameKinds, Constants
      <4>2. <<a>> \in Seq(Frame)
        BY <4>1
      <4> QED
        BY <1>1, <2>1, <4>2, ConcatEmptySeq DEF Chat
    <3>2. a.kind = "subscribed" /\ a.subscription = Unsubscribed
      BY DEF Subscribed
    <3> HIDE DEF a
    <3>3. Len(<<a>>) = 1 /\ <<a>>[1] = a
      OBVIOUS
    <3>4. Answered(<<a>>)
      BY <3>2, <3>3 DEF Answered, IsData
    <3>5. Knows(<<a>>, Unsubscribed)
      BY <3>2, <3>3 DEF Knows, Answers
    <3> QED
      BY <1>5, <3>1, <3>4, <3>5 DEF ChatOK, Joins
  <2> QED
    BY <2>2, <2>3, <2>4 DEF ClientOK
<1> QED
  BY <1>4, <1>5

-----------------------------------------------------------------------------
(* Every step is one of these moves for every client.                      *)

\* WsClient.offer.
LEMMA OfferTakes ==
  ASSUME TypeOK, NEW c \in Client, NEW f \in Frame,
         queue'[c] = Offered(c, f).queue, dropped'[c] = Offered(c, f).dropped,
         sending'[c] = sending[c], received'[c] = received[c], c \in clients' => c \in clients,
         Running(c)' => Running(c)
  PROVE  Takes(c, f)
<1>1. sending[c] \in Seq(Frame) /\ queue[c] \in Seq(Frame)
  BY StreamType
<1>2. sending[c] \o Append(queue[c], f) = Append(Stream(c), f)
  BY <1>1, ConcatAppend DEF Stream
<1>3. Stream(c)' = sending'[c] \o queue'[c] /\ Stream(c) = sending[c] \o queue[c]
  BY DEF Stream
<1>4. CASE Len(queue[c]) < QueueMax
  <2>1. queue'[c] = Append(queue[c], f) /\ dropped'[c] = dropped[c]
    BY <1>4 DEF Offered
  <2> QED
    BY <1>2, <1>3, <2>1 DEF Takes
<1>5. CASE ~(Len(queue[c]) < QueueMax)
  <2>1. queue'[c] = queue[c] /\ dropped'[c] = dropped[c] + 1
    BY <1>5 DEF Offered
  <2> QED
    BY <1>3, <2>1 DEF Takes
<1> QED
  BY <1>4, <1>5

\* The pump offers a new frame to the clients that match.
LEMMA BroadcastMoves ==
  ASSUME TypeOK, NEW f \in Data, Broadcast(f), NEW c \in Client,
         UNCHANGED <<clients, session, subscription, sending, received>>,
         \A n \in Nat : Past(n) => n < f.n,
         Past(f.n)', f.observer = "one" => InList(f.n)'
  PROVE  Unmoved(c) \/ TakesData(c, f)
<1>1. CASE c \in clients /\ Matches(c, f)
  <2>1. /\ queue'[c] = Offered(c, f).queue /\ dropped'[c] = Offered(c, f).dropped
        /\ due'[c] = due[c] + 1
    BY <1>1 DEF Broadcast
  <2>2. Takes(c, f)
    BY <2>1, FrameKinds, OfferTakes DEF Running
  <2> QED
    BY <1>1, <2>1, <2>2 DEF TakesData, Matches
<1>2. CASE ~(c \in clients /\ Matches(c, f))
  BY <1>2 DEF Broadcast, Unmoved, Stream, Running
<1> QED
  BY <1>1, <1>2

LEMMA ClientMoves ==
  ASSUME HubInv, Next, NEW c \in Client
  PROVE  \/ Unmoved(c) \/ Gets(c) \/ Leaves(c) \/ Joins(c)
         \/ \E f \in Frame : TakesData(c, f) \/ TakesOther(c, f)
<1>0. TypeOK /\ SessionsOK /\ PumpOK /\ TypeOK'
  BY TypesNext DEF HubInv
<1>1. ASSUME NEW t \in Topic, NEW s \in Sat,
             NEW o \in {"none", "one"}, PumpReads(t, s, o)
      PROVE  Unmoved(c) \/ \E f \in Frame : TakesData(c, f)
  <2>1. frame' \in Data /\ frame' \in Frame /\ frame'.n = frame.n + 1 /\ frame.n \in Nat
    BY <1>0, <1>1, PumpReadsTypes, FrameKinds
  <2>2. CASE o = "one"
    BY <1>1, <2>2 DEF PumpReads, Unmoved, Stream, Running, tasks
  <2>3. CASE o # "one"
    <3>1. pump = "reading" /\ pump' = "reading" /\ Broadcast(frame')
          /\ frame'.observer # "one"
          /\ UNCHANGED <<clients, session, subscription, sending, received>>
      BY <1>1, <2>3 DEF PumpReads, tasks
    <3>2. (\A n \in Nat : Past(n) => n < frame'.n) /\ Past(frame.n)'
      BY <2>1, <3>1 DEF Past
    <3> QED
      BY <1>0, <2>1, <3>1, <3>2, BroadcastMoves
  <2> QED
    BY <2>2, <2>3
<1>2. CASE CachePass
  <2>1. frame \in Data /\ frame \in Frame /\ frame.n \in 1..MaxFrames /\ frame.n \in Nat
    BY <1>0, <1>2, FrameKinds, Constants DEF CachePass, PumpOK
  <2>2. /\ pump = "caching" /\ pump' = "reading" /\ frame' = frame /\ Broadcast(frame)
        /\ UNCHANGED <<clients, session, subscription, sending, received>>
    BY <1>2 DEF CachePass, tasks
  <2>3. (\A n \in Nat : Past(n) => n < frame.n) /\ Past(frame.n)'
    BY <2>1, <2>2 DEF Past
  <2>4. InList(frame.n)'
    <3>1. passes'[1] = frame.n /\ Len(passes') \in 1..(Len(passes) + 1)
          /\ passes' \in Seq(1..MaxFrames)
      BY <1>0, <1>2, <2>1, CachedFacts DEF CachePass
    <3>2. Len(passes') \in Nat /\ DOMAIN passes' = 1..Len(passes')
      BY <3>1, LenProperties
    <3>3. 1 \in DOMAIN passes'
      BY <1>0, <3>1, <3>2, LenProperties DEF TypeOK
    <3> QED
      BY <2>2, <3>1, <3>3 DEF InList
  <2>5. \A n \in Nat : n = frame.n => Past(n)' /\ InList(n)'
    BY <2>2, <2>3, <2>4
  <2> QED
    BY <1>0, <2>1, <2>2, <2>3, <2>5, BroadcastMoves
<1>3. CASE CacheFails \/ ListGone \/ Tick
  BY <1>3 DEF CacheFails, ListGone, Tick, Unmoved, Stream, Running, client, tasks, history
<1>4. ASSUME NEW d \in Client, Connect(d) PROVE Unmoved(c) \/ Joins(c)
  <2>1. CASE c # d
    BY <1>0, <1>4, <2>1 DEF Connect, Unmoved, Stream, Running, client, history, TypeOK
  <2>2. CASE c = d
    <3>1. /\ subscription[c] = Unsubscribed /\ queue[c] = <<>> /\ sending[c] = <<>>
          /\ received[c] = Nothing /\ due[c] = 0
      BY <1>0, <1>4, <2>2 DEF Connect, SessionsOK
    <3>2. UNCHANGED <<pump, frame, subscription, queue, dropped, sending, received, due>>
      BY <1>4 DEF Connect, hub, client, history
    <3>3. <<>> \in Seq(Frame) /\ <<>> \o <<>> = <<>>
      BY ConcatEmptySeq
    <3>4. Stream(c)' = <<>>
      BY <3>1, <3>2, <3>3 DEF Stream
    <3>5. Past(0)'
      BY <3>1, <3>2 DEF HubInv, ClientOK, OrderOK, Past, Nothing
    <3> QED
      BY <3>1, <3>2, <3>4, <3>5 DEF Joins
  <2> QED
    BY <2>1, <2>2
<1>5. ASSUME NEW d \in Client, NEW s \in Request, Subscribe(d, s)
      PROVE  Unmoved(c) \/ \E f \in Frame : TakesOther(c, f)
  <2>1. CASE c # d
    <3>1. /\ queue'[c] = queue[c] /\ dropped'[c] = dropped[c] /\ subscription'[c] = subscription[c]
          /\ UNCHANGED <<clients, session, sending, received, due>>
      BY <1>0, <1>5, <2>1 DEF Subscribe, Enqueue, TypeOK
    <3> QED
      BY <3>1 DEF Unmoved, Stream, Running
  <2>2. CASE c = d
    <3>1. Subscribed(s) \in Frame /\ ~IsData(Subscribed(s))
          /\ Subscribed(s).kind = "subscribed" /\ Subscribed(s).subscription = s
      BY FrameKinds, Constants DEF Subscribed
    <3>2. /\ queue'[c] = Offered(c, Subscribed(s)).queue
          /\ dropped'[c] = Offered(c, Subscribed(s)).dropped
          /\ subscription'[c] = s
          /\ UNCHANGED <<clients, session, sending, received, due>>
      BY <1>0, <1>5, <2>2 DEF Subscribe, Enqueue, TypeOK
    <3>3. Takes(c, Subscribed(s))
      BY <1>0, <3>1, <3>2, OfferTakes DEF Running
    <3> QED
      BY <3>1, <3>2, <3>3 DEF TakesOther
  <2> QED
    BY <2>1, <2>2
<1>6. ASSUME NEW d \in Client, Pong(d) \/ TaskEnds(d) \/ PingerEnds(d) PROVE Unmoved(c)
  <2>1. Running(c)' => Running(c)
    BY <1>0, <1>6 DEF Pong, TaskEnds, PingerEnds, Running, TypeOK
  <2> QED
    BY <1>6, <2>1 DEF Pong, TaskEnds, PingerEnds, Unmoved, Stream, client, history
<1>11. ASSUME NEW d \in Client, NEW s \in Request, SubscribeFails(d, s) PROVE Unmoved(c)
  <2>1. Running(c)' => Running(c) /\ subscription'[c] = subscription[c]
    BY <1>0, <1>11 DEF SubscribeFails, Running, TypeOK
  <2> QED
    BY <1>11, <2>1 DEF SubscribeFails, Unmoved, Stream
<1>7. ASSUME NEW d \in Client, SendNext(d) PROVE Unmoved(c)
  <2>1. Stream(c)' = Stream(c)
    <3>1. CASE c # d
      BY <1>0, <1>7, <3>1 DEF SendNext, Stream, TypeOK
    <3>2. CASE c = d
      <4>1. /\ queue[c] \in Seq(Frame) /\ queue[c] # <<>> /\ sending[c] = <<>>
            /\ sending'[c] = <<Head(queue[c])>> /\ queue'[c] = Tail(queue[c])
        BY <1>0, <1>7, <3>2 DEF SendNext, TypeOK
      <4>2. <<Head(queue[c])>> \o Tail(queue[c]) = queue[c]
        BY <4>1, HeadThenTail
      <4>3. <<>> \o queue[c] = queue[c]
        BY <4>1, ConcatEmptySeq
      <4> QED
        BY <4>1, <4>2, <4>3 DEF Stream
    <3> QED
      BY <3>1, <3>2
  <2> QED
    BY <1>7, <2>1 DEF SendNext, Unmoved, Running, history
<1>8. ASSUME NEW d \in Client, Sent(d) PROVE Unmoved(c) \/ Gets(c)
  <2>1. CASE c # d
    <3>1. /\ sending'[c] = sending[c] /\ received'[c] = received[c] /\ due'[c] = due[c]
          /\ UNCHANGED <<clients, session, subscription, queue, dropped>>
      BY <1>0, <1>8, <2>1 DEF Sent, client, TypeOK
    <3> QED
      BY <3>1 DEF Unmoved, Stream, Running
  <2>2. CASE c = d
    <3>1. /\ Stream(c) # <<>> /\ Stream(c)[1] = Head(sending[c]) /\ Tail(Stream(c)) = queue[c]
      BY <1>0, <1>8, <2>2, SendingFirst DEF Sent
    <3>2. Stream(c)' = Tail(Stream(c))
      <4>1. sending'[c] = <<>> /\ queue'[c] = queue[c] /\ queue[c] \in Seq(Frame)
        BY <1>0, <1>8, <2>2 DEF Sent, client, TypeOK
      <4>2. <<>> \o queue[c] = queue[c]
        BY <4>1, ConcatEmptySeq
      <4> QED
        BY <3>1, <4>1, <4>2 DEF Stream
    <3> QED
      BY <1>0, <1>8, <2>2, <3>1, <3>2 DEF Sent, Gets, Running, client, TypeOK
  <2> QED
    BY <2>1, <2>2
<1>9. ASSUME NEW d \in Client, PingerCloses(d) \/ PingerPings(d)
      PROVE  Unmoved(c) \/ \E f \in Frame : TakesOther(c, f)
  <2>1. CASE c # d
    <3>1. /\ queue'[c] = queue[c] /\ dropped'[c] = dropped[c]
          /\ UNCHANGED <<clients, subscription, sending, received, due>>
          /\ session'[c] = session[c]
      BY <1>0, <1>9, <2>1 DEF PingerCloses, PingerPings, Enqueue, history, TypeOK
    <3> QED
      BY <3>1 DEF Unmoved, Stream, Running
  <2>2. CASE c = d
    <3>1. Ping \in Frame /\ ~IsData(Ping) /\ Ping.kind # "subscribed"
      BY FrameKinds
    <3>2. /\ queue'[c] = Offered(c, Ping).queue /\ dropped'[c] = Offered(c, Ping).dropped
          /\ UNCHANGED <<clients, subscription, sending, received, due>>
      BY <1>0, <1>9, <2>2 DEF PingerCloses, PingerPings, Enqueue, TypeOK, history
    <3>4. Running(c)
      BY <1>9, <2>2 DEF PingerCloses, PingerPings, Running
    <3>3. Takes(c, Ping)
      BY <1>0, <3>1, <3>2, <3>4, OfferTakes
    <3> QED
      BY <3>1, <3>2, <3>3 DEF TakesOther
  <2> QED
    BY <2>1, <2>2
<1>10. ASSUME NEW d \in Client, Finally(d) PROVE Unmoved(c) \/ Leaves(c)
  <2>1. CASE c # d
    <3>1. /\ subscription'[c] = subscription[c] /\ queue'[c] = queue[c] /\ sending'[c] = sending[c]
          /\ clients' \subseteq clients /\ UNCHANGED <<dropped, received, due>>
          /\ session'[c] = session[c]
      BY <1>0, <1>10, <2>1 DEF Finally, Forget, history, TypeOK
    <3> QED
      BY <3>1 DEF Unmoved, Stream, Running
  <2>2. CASE c = d
    <3>1. sending'[c] = <<>> /\ queue'[c] = <<>> /\ c \notin clients' /\ UNCHANGED <<received, due>>
          /\ ~Running(c)'
      BY <1>0, <1>10, <2>2 DEF Finally, Forget, Running, TypeOK, history
    <3>2. <<>> \in Seq(Frame) /\ <<>> \o <<>> = <<>>
      BY ConcatEmptySeq
    <3> QED
      BY <3>1, <3>2 DEF Leaves, Stream
  <2> QED
    BY <2>1, <2>2
<1> QED
  BY <1>1, <1>2, <1>3, <1>4, <1>5, <1>6, <1>7, <1>8, <1>9, <1>10, <1>11 DEF Next, PumpSteps, SessionSteps

LEMMA HubInit ==
  ASSUME Init
  PROVE  HubInv
<1>1. TypeOK
  <2>1. /\ <<>> \in Seq(Frame) /\ <<>> \in Seq(1..MaxFrames) /\ Len(<<>>) = 0
        /\ 0 \in 0..MaxFrames /\ 0 \in 0..PingEvery /\ 0 \in 0..(MaxIdle + PingEvery) /\ 0 \in 0..MaxTexts
        /\ 0 \in Nat /\ 0 <= PassMax /\ 0 <= QueueMax
    BY Constants
  <2>2. Nothing \in [n : 0..MaxFrames, pass : 0..MaxFrames, subscription : Subscription]
    BY <2>1, Constants DEF Nothing
  <2> QED
    BY <2>1, <2>2, Constants DEF Init, TypeOK
<1>2. SessionsOK /\ PumpOK
  BY DEF Init, SessionsOK, PumpOK
<1>3. PassesOK
  <2>1. 1..Len(passes) = {}
    BY DEF Init
  <2>2. Past(lost)
    BY DEF Past, Init, NoFrame
  <2> QED
    BY <2>1, <2>2 DEF PassesOK
<1>4. ASSUME NEW c \in Client PROVE ClientOK(c)
  <2>1. Stream(c) = <<>>
    BY ConcatEmptySeq DEF Init, Stream
  <2>2. 1..Len(Stream(c)) = {}
    BY <2>1
  <2>3. Numbers(Stream(c)) = {} /\ PassNumbers(Stream(c)) = {}
    BY <2>2 DEF Numbers, PassNumbers
  <2>4. received[c].n = 0 /\ received[c].pass = 0 /\ c \notin clients /\ ~Running(c) /\ due[c] = 0
    BY DEF Init, Nothing, Running
  <2>5. Past(0)
    BY DEF Past, Init, NoFrame
  <2> QED
    BY <2>2, <2>3, <2>4, <2>5, FS_EmptySet
    DEF ClientOK, OrderOK, ListedOK, CountOK, ChatOK, Ordered
<1> QED
  BY <1>1, <1>2, <1>3, <1>4 DEF HubInv

LEMMA HubStep ==
  ASSUME HubInv, [Next]_vars
  PROVE  HubInv'
<1>1. TypeOK' /\ SessionsOK' /\ PumpOK' /\ PassesOK' /\ HubAdvances
  BY TypesNext, SessionsNext, HubNext DEF HubAdvances
<1>2. ASSUME NEW c \in Client PROVE ClientOK(c)'
  <2>1. TypeOK /\ SessionsOK /\ ClientOK(c)
    BY DEF HubInv
  <2>2. CASE Next
    BY <1>1, <2>1, <2>2, ClientMoves, UnmovedKeeps, TakesKeeps, GetsKeeps, LeavesOrJoins
  <2>3. CASE UNCHANGED vars
    <3>1. Unmoved(c)
      BY <2>3 DEF vars, client, tasks, history, Unmoved, Stream, Running
    <3> QED
      BY <1>1, <2>1, <3>1, UnmovedKeeps
  <2> QED
    BY <2>2, <2>3
<1> QED
  BY <1>1, <1>2 DEF HubInv

\* What the properties say in terms of DOMAIN.
LEMMA StreamDomain ==
  ASSUME TypeOK, NEW c \in Client
  PROVE  /\ DOMAIN Stream(c) = 1..Len(Stream(c)) /\ OnTheWay(c) = Numbers(Stream(c))
         /\ DOMAIN Chat(c) = 1..Len(Chat(c)) /\ DOMAIN passes = 1..Len(passes)
<1>1. Stream(c) \in Seq(Frame) /\ Chat(c) \in Seq(Frame) /\ passes \in Seq(1..MaxFrames)
  BY StreamType, ChatType DEF TypeOK
<1>2. DOMAIN Stream(c) = 1..Len(Stream(c))
  BY <1>1, LenProperties
<1> QED
  BY <1>1, <1>2, LenProperties DEF OnTheWay, Numbers, IsData

-----------------------------------------------------------------------------
(* The theorems.                                                           *)

LEMMA HubInvariant == Spec => []HubInv
BY HubInit, HubStep, PTL DEF Spec

\* The variables of the hub keep their types: no queue is longer than
\* QueueMax, and nobody is idle for longer than MaxIdle and a sleep of the
\* pinger.
THEOREM TypesCorrect == Spec => []TypeOK
<1>1. HubInv => TypeOK
  BY DEF HubInv
<1> QED
  BY <1>1, HubInvariant, PTL

\* The frames of a client are in the order of the topics, each at most once:
\* neither a full queue nor a frame that waits for the cache reorders them.
THEOREM FramesInOrder == Spec => []InOrder
<1>1. HubInv => InOrder
  <2> SUFFICES ASSUME HubInv PROVE InOrder
    OBVIOUS
  <2> SUFFICES ASSUME NEW c \in Client, NEW i \in DOMAIN Stream(c), Stream(c)[i].kind = "data"
               PROVE  /\ Stream(c)[i].n > received[c].n
                      /\ \A j \in 1..(i - 1) : Stream(c)[j].kind = "data" => Stream(c)[i].n > Stream(c)[j].n
    BY DEF InOrder
  <2>1. Ordered(Stream(c), received[c].n) /\ i \in 1..Len(Stream(c))
    BY StreamDomain DEF HubInv, ClientOK, OrderOK
  <2> QED
    BY <2>1 DEF Ordered, IsData
<1> QED
  BY <1>1, HubInvariant, PTL

\* `dropped` counts every loss: of the frames that matched while a client was
\* connected, no more are missing than it says (ws.py:87).
THEOREM LossesCounted == Spec => []LossIsCounted
<1>1. HubInv => LossIsCounted
  <2> SUFFICES ASSUME HubInv, NEW c \in clients
               PROVE  due[c] <= Cardinality(OnTheWay(c)) + dropped[c]
    BY DEF LossIsCounted
  <2>1. c \in Client /\ TypeOK /\ CountOK(c)
    BY DEF HubInv, TypeOK, ClientOK
  <2> QED
    BY <2>1, StreamDomain DEF CountOK
<1> QED
  BY <1>1, HubInvariant, PTL

\* The data frames after the answer to a subscription are of it, until the
\* next answer, if nothing was dropped and the receiver runs: it changes the
\* subscription and answers with no await between, and it does not outlive a
\* filter that is malformed (ws.py:253-262).
THEOREM AnswersHold == Spec => []AnsweredSubscriptionHolds
<1>1. HubInv => AnsweredSubscriptionHolds
  <2> SUFFICES ASSUME HubInv, NEW c \in Client, Running(c), dropped[c] = 0,
                      NEW i \in DOMAIN Chat(c), Chat(c)[i].kind = "data"
               PROVE  \E k \in 1..(i - 1) :
                        /\ Chat(c)[k].kind = "subscribed"
                        /\ \A m \in (k + 1)..(i - 1) : Chat(c)[m].kind # "subscribed"
                        /\ MatchesSubscription(Chat(c)[k].subscription, Chat(c)[i])
    BY DEF AnsweredSubscriptionHolds, Chat
  <2>1. c \in Client /\ TypeOK /\ Answered(Chat(c))
    BY DEF HubInv, TypeOK, ClientOK, ChatOK
  <2>2. i \in 1..Len(Chat(c))
    BY <2>1, StreamDomain
  <2> QED
    BY <2>1, <2>2 DEF Answered, Answers, IsData
<1> QED
  BY <1>1, HubInvariant, PTL

\* A pass event that a client got is in the list that /passes reads, or later
\* ones have pushed it out, or the list has expired or was lost since: the
\* pump caches before it fans out, also when its cache is slow.
THEOREM SentPassesCached == Spec => []SentPassIsCached
<1>1. HubInv => SentPassIsCached
  <2> SUFFICES ASSUME HubInv, NEW c \in Client, received[c].pass > lost
               PROVE  \/ \E j \in DOMAIN passes : passes[j] = received[c].pass
                      \/ Len(passes) = PassMax /\ \A j \in DOMAIN passes : passes[j] > received[c].pass
    BY DEF SentPassIsCached
  <2>1. received[c].pass \in Nat /\ lost \in Nat
    BY StreamType, Constants DEF HubInv, TypeOK
  <2>2. InList(received[c].pass)
    BY <2>1 DEF HubInv, ClientOK, ListedOK
  <2> QED
    BY <2>1, <2>2 DEF InList
<1> QED
  BY <1>1, HubInvariant, PTL
=============================================================================
