-------------------------- MODULE PassWorkerProofs --------------------------
(***************************************************************************)
(* Proofs about PassWorker, for any observers, elevations, details and   *)
(* crashes.  What the detector remembers of an observer is related to what *)
(* the samples showed, which are history variables of the model.           *)
(***************************************************************************)
EXTENDS PassWorker, FiniteSetTheorems, TLAPS

PassType == [emitted : SUBSET EventKind, prev_prev : MaybeElevation]

\* prev_prev is the sample before prev, or an older one that a rise or a set
\* has left there: then prev is higher than the sample before it, or too low
\* to be a culmination.
PeakIsLocal(o) ==
  pass[o].prev_prev # None =>
    /\ before[o] # None /\ prev[o] # None
    /\ pass[o].prev_prev = before[o] \/ before[o] < prev[o] \/ prev[o] <= 10

\* In a pass sampled densely the detector has emitted what was shown.
EmittedIsShown(o) ==
  tame[o] =>
    /\ pass[o].emitted = fired[o]
    /\ Emitted(o) = shown[o]
    /\ shown[o] = {} => pass[o].prev_prev = before[o]

\* Once a sample shows set_0 the detector starts anew, dense or not.
SetStartsAnew(o) ==
  "set_0" \in shown[o] =>
    /\ pass[o].emitted = {} /\ fired[o] = {}
    /\ prev[o] # None /\ prev[o] <= 0

ObserverOK(o) == PeakIsLocal(o) /\ EmittedIsShown(o) /\ SetStartsAnew(o)

IInv == TypeOK /\ \A o \in Observer : ObserverOK(o)

-----------------------------------------------------------------------------
(* The detector.                                                           *)

LEMMA KindsDiffer ==
  /\ Crossings \subseteq EventKind /\ "culmination" \in EventKind
  /\ "culmination" \notin Crossings
  /\ None \notin EventKind /\ None \notin Int
BY NoneAssumption DEF Crossings, EventKind

\* First is one of the kinds with the lowest threshold.
LEMMA FirstIsLowest ==
  ASSUME NEW kinds \in SUBSET Crossings, kinds # {}
  PROVE  /\ First(kinds) \in kinds
         /\ \A l \in kinds : Threshold[First(kinds)] <= Threshold[l]
<1>1. \A k \in Crossings : Threshold[k] \in {0, 10}
  BY DEF Crossings, Threshold
<1>2. \E k \in kinds : \A l \in kinds : Threshold[k] <= Threshold[l]
  <2>1. CASE \E k \in kinds : Threshold[k] = 0
    BY <1>1, <2>1
  <2>2. CASE \A k \in kinds : Threshold[k] = 10
    BY <2>2
  <2> QED
    BY <1>1, <2>1, <2>2
<1> QED
  BY <1>2, Zenon DEF First

LEMMA DetectType ==
  ASSUME NEW p \in MaybeElevation, NEW e \in Elevation, NEW ps \in PassType,
         "set_0" \notin ps.emitted
  PROVE  /\ Detect(p, e, ps).ps \in PassType
         /\ "set_0" \notin Detect(p, e, ps).ps.emitted
         /\ Detect(p, e, ps).event \in EventKind \cup {None}
<1>1. CASE p = None
  BY <1>1 DEF Detect, PassType, MaybeElevation
<1>2. CASE p # None /\ Fires(p, e, ps) # {}
  <2> DEFINE k == First(Fires(p, e, ps))
  <2>1. k \in Crossings
    BY <1>2, FirstIsLowest DEF Fires
  <2>2. Detect(p, e, ps) = [event |-> k, ps |-> AfterCrossing(k, ps)]
    BY <1>2 DEF Detect
  <2> HIDE DEF k
  <2>3. AfterCrossing(k, ps) \in PassType /\ "set_0" \notin AfterCrossing(k, ps).emitted
    BY <2>1, KindsDiffer DEF AfterCrossing, NewPassState, PassType, MaybeElevation
  <2> QED
    BY <2>1, <2>2, <2>3, KindsDiffer
<1>3. CASE p # None /\ Fires(p, e, ps) = {}
  BY <1>3, KindsDiffer DEF Detect, PassType, MaybeElevation
<1> QED
  BY <1>1, <1>2, <1>3

\* A crossing that fires: prev_prev stays, or the pass begins anew.
LEMMA DetectCrossing ==
  ASSUME NEW p \in Int, NEW e \in Int, NEW ps \in PassType, Fires(p, e, ps) # {}
  PROVE  \E k \in Fires(p, e, ps) :
           /\ \A l \in Fires(p, e, ps) : Threshold[k] <= Threshold[l]
           /\ Detect(p, e, ps) = [event |-> k, ps |-> AfterCrossing(k, ps)]
<1> DEFINE k == First(Fires(p, e, ps))
<1>1. Fires(p, e, ps) \in SUBSET Crossings
  BY DEF Fires
<1>2. k \in Fires(p, e, ps) /\ \A l \in Fires(p, e, ps) : Threshold[k] <= Threshold[l]
  BY <1>1, FirstIsLowest
<1>3. Detect(p, e, ps) = [event |-> k, ps |-> AfterCrossing(k, ps)]
  BY KindsDiffer DEF Detect
<1> QED
  BY <1>2, <1>3

\* No crossing fires.
LEMMA DetectNoCrossing ==
  ASSUME NEW p \in Int, NEW e \in Int, NEW ps \in PassType, Fires(p, e, ps) = {}
  PROVE  Detect(p, e, ps) =
           IF Culminates(p, e, ps)
           THEN [event |-> "culmination",
                 ps |-> [emitted |-> ps.emitted \cup {"culmination"}, prev_prev |-> p]]
           ELSE [event |-> None, ps |-> [emitted |-> ps.emitted, prev_prev |-> p]]
BY KindsDiffer DEF Detect, PassType

\* If set_0 may fire it is what fires.
LEMMA SetZeroFires ==
  ASSUME NEW p \in Int, NEW e \in Int, NEW ps \in PassType, "set_0" \in Fires(p, e, ps)
  PROVE  Detect(p, e, ps) = [event |-> "set_0", ps |-> NewPassState]
<1>1. PICK k \in Fires(p, e, ps) :
           /\ \A l \in Fires(p, e, ps) : Threshold[k] <= Threshold[l]
           /\ Detect(p, e, ps) = [event |-> k, ps |-> AfterCrossing(k, ps)]
  BY DetectCrossing
<1>2. p > 0 /\ 0 >= e
  BY DEF Fires, Crosses, Threshold
<1>3. k \in {"rise_0", "set_0"}
  BY <1>1 DEF Fires, Crossings, Threshold
<1>4. k # "rise_0"
  BY <1>1, <1>2 DEF Fires, Crosses, Threshold
<1> QED
  BY <1>1, <1>3, <1>4 DEF AfterCrossing

LEMMA KindsAreFinite == IsFiniteSet(EventKind)
<1>1. EventKind = (((({} \cup {"rise_0"}) \cup {"set_0"}) \cup {"rise_10"}) \cup {"set_10"}) \cup {"culmination"}
  BY DEF EventKind, Crossings
<1> QED
  BY <1>1, FS_EmptySet, FS_AddElement

LEMMA AtMostOne ==
  ASSUME NEW kinds \in SUBSET EventKind, Cardinality(kinds) <= 1, NEW k \in kinds
  PROVE  kinds = {k}
<1>1. IsFiniteSet(kinds) /\ IsFiniteSet(kinds \ {k})
  BY KindsAreFinite, FS_Subset
<1>2. Cardinality(kinds \ {k}) = Cardinality(kinds) - 1
  BY <1>1, FS_RemoveElement
<1>3. Cardinality(kinds) \in Nat /\ Cardinality(kinds \ {k}) \in Nat
  BY <1>1, FS_CardinalityType
<1>4. Cardinality(kinds \ {k}) = 0
  BY <1>2, <1>3
<1>5. kinds \ {k} = {}
  BY <1>1, <1>4, FS_EmptySet
<1> QED
  BY <1>5

-----------------------------------------------------------------------------
(* A sample, for one observer.                                             *)

LEMMA SampleIs ==
  ASSUME NEW elev, Sample(elev), NEW o \in Observer, o \in observers
  PROVE  LET run == Detect(prev[o], elev[o], pass[o])
             new == NewlyShown(o, elev[o])
         IN  /\ pass'[o] = run.ps
             /\ prev'[o] = elev[o]
             /\ before'[o] = prev[o]
             /\ event'[o] = run.event
             /\ shown'[o] = new
             /\ fired'[o] = IF "set_0" \in new THEN {} ELSE fired[o] \cup new
             /\ tame'[o] = (/\ Cardinality(new) <= 1
                            /\ tame[o] \/ "set_0" \in shown[o]
                            /\ "culmination" \in new => shown[o] = {})
BY DEF Sample

LEMMA SampleLeaves ==
  ASSUME NEW elev, Sample(elev), NEW o \in Observer, o \notin observers
  PROVE  UNCHANGED <<pass[o], prev[o], before[o], event[o], shown[o], fired[o], tame[o]>>
BY DEF Sample

\* The sample is shown from known elevations only.
LEMMA NewIs ==
  ASSUME TypeOK, NEW o \in Observer, NEW e \in Elevation
  PROVE  /\ prev[o] = None => NewlyShown(o, e) = {}
         /\ NewlyShown(o, e) \in SUBSET EventKind
         /\ prev[o] # None =>
              /\ prev[o] \in Int
              /\ \A k \in Crossings :
                   k \in NewlyShown(o, e) <=> Crosses(k, prev[o], e) /\ k \notin fired[o]
              /\ "culmination" \in NewlyShown(o, e) <=>
                   IsPeak(before[o], prev[o], e) /\ "culmination" \notin fired[o]
<1>1. prev[o] \in Elevation \cup {None} /\ Elevation \subseteq Int
  BY WorkerAssumption DEF TypeOK, MaybeElevation
<1> QED
  BY <1>1, KindsDiffer DEF NewlyShown, Shown

LEMMA SampleType ==
  ASSUME TypeOK, NEW elev \in Samples, Sample(elev)
  PROVE  TypeOK'
<1>1. \A o \in Observer :
        /\ Detect(prev[o], elev[o], pass[o]).ps \in PassType
        /\ "set_0" \notin Detect(prev[o], elev[o], pass[o]).ps.emitted
        /\ Detect(prev[o], elev[o], pass[o]).event \in EventKind \cup {None}
  BY DetectType DEF TypeOK, Samples, PassType
<1>2. \A o \in Observer : NewlyShown(o, elev[o]) \in SUBSET EventKind
  BY NewIs DEF Samples
<1>3. \A o \in Observer : elev[o] \in MaybeElevation
  BY DEF Samples, MaybeElevation
<1>4. pass' \in [Observer -> PassType] /\ \A o \in Observer : "set_0" \notin pass'[o].emitted
  BY <1>1 DEF Sample, TypeOK, PassType
<1>5. prev' \in [Observer -> MaybeElevation] /\ before' \in [Observer -> MaybeElevation]
  BY <1>3 DEF Sample, TypeOK
<1>6. event' \in [Observer -> EventKind \cup {None}]
  BY <1>1 DEF Sample, TypeOK
<1>7. shown' \in [Observer -> SUBSET EventKind] /\ fired' \in [Observer -> SUBSET EventKind]
  BY <1>2 DEF Sample, TypeOK
<1>8. tame' \in [Observer -> BOOLEAN]
  BY Zenon DEF Sample, TypeOK
<1>9. worker' = "waiting" /\ UNCHANGED <<registry, stop, due, ids, observers, crashes>>
  BY DEF Sample
<1> QED
  BY <1>4, <1>5, <1>6, <1>7, <1>8, <1>9 DEF TypeOK, PassType, registry

\* The state of an observer after a sample, from the one before.
LEMMA SampleObserver ==
  ASSUME IInv, NEW elev \in Samples, Sample(elev), NEW o \in observers
  PROVE  ObserverOK(o)'
<1> DEFINE p == prev[o]
           b == before[o]
           e == elev[o]
           ps == pass[o]
           new == NewlyShown(o, e)
           fires == Fires(p, e, ps)
<1>0. o \in Observer /\ TypeOK /\ ObserverOK(o)
  BY DEF IInv, TypeOK
<1>1. /\ e \in Elevation /\ e \in Int
      /\ ps \in PassType /\ "set_0" \notin ps.emitted
      /\ p \in MaybeElevation /\ b \in MaybeElevation
      /\ shown[o] \in SUBSET EventKind /\ fired[o] \in SUBSET EventKind
  BY <1>0, WorkerAssumption DEF Samples, TypeOK, PassType
<1>2. /\ pass'[o] = Detect(p, e, ps).ps /\ event'[o] = Detect(p, e, ps).event
      /\ prev'[o] = e /\ before'[o] = p
      /\ shown'[o] = new
      /\ fired'[o] = IF "set_0" \in new THEN {} ELSE fired[o] \cup new
      /\ tame'[o] = (/\ Cardinality(new) <= 1
                     /\ tame[o] \/ "set_0" \in shown[o]
                     /\ "culmination" \in new => shown[o] = {})
  <2>1. /\ pass'[o] = Detect(p, e, ps).ps /\ event'[o] = Detect(p, e, ps).event
        /\ prev'[o] = e /\ before'[o] = p
        /\ shown'[o] = new
    BY <1>0, SampleIs
  <2>2. fired'[o] = IF "set_0" \in new THEN {} ELSE fired[o] \cup new
    BY <1>0, SampleIs
  <2>3. tame'[o] = (/\ Cardinality(new) <= 1
                    /\ tame[o] \/ "set_0" \in shown[o]
                    /\ "culmination" \in new => shown[o] = {})
    BY <1>0, SampleIs, Zenon
  <2> QED
    BY <2>1, <2>2, <2>3, Zenon
<1>3. p \in Int =>
        /\ \A k \in Crossings : k \in new <=> Crosses(k, p, e) /\ k \notin fired[o]
        /\ "culmination" \in new <=> IsPeak(b, p, e) /\ "culmination" \notin fired[o]
  BY <1>0, <1>1, NewIs, KindsDiffer
<1>4. tame'[o] => ps.emitted = fired[o]
  BY <1>0, <1>2 DEF ObserverOK, EmittedIsShown, SetStartsAnew
<1>5. "set_0" \in new => p \in Int /\ "set_0" \in fires
  <2>1. "set_0" \in Crossings
    BY DEF Crossings
  <2> QED
    BY <1>0, <1>1, <1>3, <2>1, NewIs, WorkerAssumption DEF Fires, MaybeElevation
<1>6. new \in SUBSET EventKind
  BY <1>0, <1>1, NewIs
<1>7. CASE p = None
  <2>1. Detect(p, e, ps) = [event |-> None, ps |-> [emitted |-> ps.emitted, prev_prev |-> None]]
    BY <1>1, <1>7 DEF Detect, PassType
  <2>2. new = {}
    BY <1>0, <1>1, <1>7, NewIs
  <2>3. "set_0" \notin shown[o]
    BY <1>0, <1>7 DEF ObserverOK, SetStartsAnew
  <2>4. pass'[o] = [emitted |-> ps.emitted, prev_prev |-> None] /\ event'[o] = None
    BY <1>2, <2>1
  <2>5. fired'[o] = fired[o] /\ shown'[o] = {}
    BY <1>2, <2>2
  <2>6. PeakIsLocal(o)' /\ SetStartsAnew(o)'
    BY <2>4, <2>5 DEF PeakIsLocal, SetStartsAnew
  <2>7. EmittedIsShown(o)'
    <3>1. pass'[o].emitted = ps.emitted /\ pass'[o].prev_prev = before'[o]
      BY <1>2, <1>7, <2>4
    <3>2. Emitted(o)' = shown'[o]
      BY <2>4, <2>5 DEF Emitted
    <3> QED
      BY <1>4, <2>5, <3>1, <3>2 DEF EmittedIsShown
  <2> QED
    BY <2>6, <2>7 DEF ObserverOK
<1>8. CASE p \in Int /\ fires # {}
  <2>1. PICK k \in fires : Detect(p, e, ps) = [event |-> k, ps |-> AfterCrossing(k, ps)]
    BY <1>1, <1>8, DetectCrossing
  <2>2. k \in Crossings /\ Crosses(k, p, e) /\ k \notin ps.emitted
    BY DEF Fires
  <2>3. pass'[o] = AfterCrossing(k, ps) /\ event'[o] = k
    BY <1>2, <2>1
  <2>4. PeakIsLocal(o)'
    <3>1. CASE k = "set_0"
      BY <2>3, <3>1 DEF AfterCrossing, NewPassState, PeakIsLocal
    <3>2. CASE k \in {"rise_0", "rise_10"}
      <4>1. p < e
        BY <1>1, <1>8, <2>2, <3>2 DEF Crosses, Threshold
      <4> QED
        BY <1>1, <1>2, <1>8, <4>1, KindsDiffer DEF PeakIsLocal
    <3>3. CASE k = "set_10"
      <4>1. e <= 10
        BY <1>1, <1>8, <2>2, <3>3 DEF Crosses, Threshold
      <4> QED
        BY <1>1, <1>2, <1>8, <4>1, KindsDiffer DEF PeakIsLocal
    <3> QED
      BY <2>2, <3>1, <3>2, <3>3 DEF Crossings
  <2>5. SetStartsAnew(o)'
    <3> SUFFICES ASSUME "set_0" \in new
                 PROVE  pass'[o].emitted = {} /\ fired'[o] = {} /\ prev'[o] # None /\ prev'[o] <= 0
      BY <1>2 DEF SetStartsAnew
    <3>1. Detect(p, e, ps) = [event |-> "set_0", ps |-> NewPassState] /\ e <= 0
      BY <1>1, <1>5, <1>8, SetZeroFires DEF Fires, Crosses, Threshold
    <3> QED
      BY <1>1, <1>2, <3>1, KindsDiffer DEF NewPassState
  <2>6. EmittedIsShown(o)'
    <3> SUFFICES ASSUME tame'[o]
                 PROVE  /\ pass'[o].emitted = fired'[o]
                        /\ Emitted(o)' = shown'[o]
                        /\ shown'[o] # {}
      BY DEF EmittedIsShown
    <3>1. k \in new
      BY <1>3, <1>4, <1>8, <2>2
    <3>2. new = {k}
      BY <1>2, <1>6, <3>1, AtMostOne
    <3>3. fired'[o] = IF k = "set_0" THEN {} ELSE fired[o] \cup {k}
      BY <1>2, <3>2
    <3>4. pass'[o].emitted = fired'[o]
      BY <1>1, <1>4, <2>3, <3>3, SMTT(30) DEF AfterCrossing, NewPassState, PassType
    <3>5. Emitted(o)' = {k}
      BY <2>2, <2>3, KindsDiffer DEF Emitted
    <3> QED
      BY <1>2, <3>2, <3>4, <3>5
  <2> QED
    BY <2>4, <2>5, <2>6 DEF ObserverOK
<1>9. CASE p \in Int /\ fires = {}
  <2>1. Detect(p, e, ps) =
          IF Culminates(p, e, ps)
          THEN [event |-> "culmination",
                ps |-> [emitted |-> ps.emitted \cup {"culmination"}, prev_prev |-> p]]
          ELSE [event |-> None, ps |-> [emitted |-> ps.emitted, prev_prev |-> p]]
    BY <1>1, <1>9, DetectNoCrossing
  <2>2. pass'[o].prev_prev = p /\ before'[o] = p /\ prev'[o] = e
    BY <1>2, <2>1
  <2>3. PeakIsLocal(o)'
    BY <1>1, <1>9, <2>2, KindsDiffer DEF PeakIsLocal
  <2>4. SetStartsAnew(o)'
    BY <1>2, <1>5, <1>9 DEF SetStartsAnew
  <2>5. EmittedIsShown(o)'
    <3> SUFFICES ASSUME tame'[o]
                 PROVE  pass'[o].emitted = fired'[o] /\ Emitted(o)' = shown'[o]
      BY <2>2 DEF EmittedIsShown
    <3>1. \A k \in Crossings : k \notin new
      BY <1>3, <1>4, <1>9 DEF Fires
    <3>2. Culminates(p, e, ps) => "culmination" \in new
      <4>1. Culminates(p, e, ps) => IsPeak(b, p, e)
        <5>1. ps.prev_prev \in Int \cup {None} /\ b \in Int \cup {None}
          BY <1>1, WorkerAssumption DEF PassType, MaybeElevation
        <5> QED
          BY <1>0, <1>1, <1>9, <5>1 DEF Culminates, IsPeak, ObserverOK, PeakIsLocal
      <4> QED
        BY <1>3, <1>4, <1>9, <4>1 DEF Culminates
    <3>3. "culmination" \in new => Culminates(p, e, ps)
      <4> SUFFICES ASSUME "culmination" \in new PROVE Culminates(p, e, ps)
        OBVIOUS
      <4>1. shown[o] = {} /\ tame[o]
        BY <1>2
      <4>2. ps.prev_prev = b
        BY <1>0, <4>1 DEF ObserverOK, EmittedIsShown
      <4> QED
        BY <1>3, <1>4, <1>9, <4>2 DEF Culminates
    <3>4. "set_0" \notin new
      BY <3>1 DEF Crossings
    <3>5. CASE Culminates(p, e, ps)
      <4>1. new = {"culmination"}
        BY <1>6, <3>1, <3>2, <3>5 DEF EventKind
      <4> QED
        BY <1>2, <1>4, <2>1, <3>4, <3>5, <4>1, KindsDiffer DEF Emitted
    <3>6. CASE ~Culminates(p, e, ps)
      <4>1. new = {}
        BY <1>6, <3>1, <3>3, <3>6 DEF EventKind
      <4> QED
        BY <1>2, <1>4, <2>1, <3>4, <3>6, <4>1 DEF Emitted
    <3> QED
      BY <3>5, <3>6
  <2> QED
    BY <2>3, <2>4, <2>5 DEF ObserverOK
<1> QED
  BY <1>1, <1>7, <1>8, <1>9, WorkerAssumption DEF MaybeElevation

-----------------------------------------------------------------------------
(* The worker.                                                             *)

LEMMA InitIInv == Init => IInv
<1> SUFFICES ASSUME Init PROVE IInv
  OBVIOUS
<1>1. TypeOK
  <2>1. NewPassState \in PassType /\ NewPassState.emitted = {}
    BY DEF NewPassState, PassType, MaybeElevation
  <2>2. /\ pass \in [Observer -> PassType] /\ \A o \in Observer : "set_0" \notin pass[o].emitted
        /\ prev \in [Observer -> MaybeElevation] /\ before \in [Observer -> MaybeElevation]
    BY <2>1 DEF Init, MaybeElevation
  <2>3. /\ event \in [Observer -> EventKind \cup {None}]
        /\ shown \in [Observer -> SUBSET EventKind] /\ fired \in [Observer -> SUBSET EventKind]
        /\ tame \in [Observer -> BOOLEAN]
    BY DEF Init
  <2>4. /\ active \subseteq Observer
        /\ poll \in [Observer -> {"idle", "get", "set"}]
        /\ worker = "waiting" /\ stop \in BOOLEAN /\ due \in BOOLEAN
        /\ ids \subseteq Observer /\ observers \subseteq Observer
    BY DEF Init
  <2>5. detail \in [Observer -> 0..DetailLife] /\ crashes \in 0..MaxCrashes
    BY WorkerAssumption DEF Init
  <2> QED
    BY <2>2, <2>3, <2>4, <2>5 DEF TypeOK, PassType
<1>2. \A o \in Observer : ObserverOK(o)
  BY DEF Init, ObserverOK, PeakIsLocal, EmittedIsShown, SetStartsAnew, NewPassState, Emitted
<1> QED
  BY <1>1, <1>2 DEF IInv

\* A worker that starts over knows nothing, and nothing was shown to it.
LEMMA FreshOK ==
  ASSUME Fresh
  PROVE  /\ \A o \in Observer : ObserverOK(o)'
         /\ stop' \in BOOLEAN /\ due' \in BOOLEAN
         /\ ids' \subseteq Observer /\ observers' \subseteq Observer
         /\ pass' \in [Observer -> PassType]
         /\ \A o \in Observer : "set_0" \notin pass'[o].emitted
         /\ prev' \in [Observer -> MaybeElevation]
         /\ before' \in [Observer -> MaybeElevation]
         /\ event' \in [Observer -> {None}]
         /\ shown' \in [Observer -> SUBSET EventKind]
         /\ fired' \in [Observer -> SUBSET EventKind]
         /\ tame' \in [Observer -> BOOLEAN]
<1>1. \A o \in Observer : ObserverOK(o)'
  BY DEF Fresh, ObserverOK, PeakIsLocal, EmittedIsShown, SetStartsAnew, NewPassState, Emitted
<1> QED
  BY <1>1 DEF Fresh, NewPassState, PassType, MaybeElevation

\* What an observer has seen changes with a sample, or when the worker starts
\* over, and in no other step.
LEMMA OtherSteps ==
  ASSUME TypeOK, [Next]_vars
  PROVE  \/ UNCHANGED <<tracking, history>> /\ TypeOK'
         \/ Fresh /\ TypeOK'
         \/ \E elev \in Samples : Sample(elev)
<1> USE WorkerAssumption DEF registry, control, TypeOK
<1>1. CASE UNCHANGED vars
  BY <1>1 DEF vars, tracking, history
<1>2. CASE Receive \/ ListIds \/ LoadDetails \/ Skip \/ Restart
  <2>1. CASE LoadDetails
    <3>1. detail' \in [Observer -> 0..DetailLife]
      BY <2>1 DEF LoadDetails
    <3> QED
      BY <2>1, <3>1 DEF LoadDetails, tracking, history
  <2> QED
    BY <1>2, <2>1 DEF Receive, ListIds, Skip, Restart, tracking, history
<1>3. CASE Leave \/ Crash
  <2>1. Fresh
    BY <1>3 DEF Leave, Crash
  <2> QED
    BY <1>3, <2>1, FreshOK DEF Leave, Crash, PassType
<1>4. CASE Elapse \/ Signal \/ RedisRestart
  <2>1. CASE Elapse
    BY <2>1 DEF Elapse, tracking, history
  <2>2. CASE Signal
    BY <2>2 DEF Signal, tracking, history
  <2>3. CASE RedisRestart
    BY <2>3 DEF RedisRestart, tracking, history
  <2> QED
    BY <1>4, <2>1, <2>2, <2>3
<1>5. CASE \E o \in Observer : RegisterObserver(o) \/ PollSteps(o) \/ Evict(o)
  <2> PICK o \in Observer : RegisterObserver(o) \/ PollSteps(o) \/ Evict(o)
    BY <1>5
  <2>1. CASE PollZadd(o) \/ PollGet(o)
    BY <2>1 DEF PollZadd, PollGet, tracking, history
  <2>2. CASE RegisterObserver(o) \/ PollSet(o) \/ Evict(o)
    <3>1. detail' \in [Observer -> 0..DetailLife]
      BY <2>2 DEF RegisterObserver, PollSet, Evict
    <3> QED
      BY <2>2, <3>1 DEF RegisterObserver, PollSet, Evict, tracking, history
  <2> QED
    BY <2>1, <2>2 DEF PollSteps
<1>6. CASE \E elev \in Samples : Sample(elev)
  BY <1>6
<1> QED
  BY <1>1, <1>2, <1>3, <1>4, <1>5, <1>6 DEF Next, WorkerSteps

LEMMA NextIInv == IInv /\ [Next]_vars => IInv'
<1> SUFFICES ASSUME IInv, [Next]_vars PROVE IInv'
  OBVIOUS
<1>0. TypeOK /\ \A o \in Observer : ObserverOK(o)
  BY DEF IInv
<1>1. CASE UNCHANGED <<tracking, history>> /\ TypeOK'
  BY <1>0, <1>1 DEF IInv, tracking, history, ObserverOK, PeakIsLocal, EmittedIsShown, SetStartsAnew,
                    Emitted
<1>2. CASE Fresh /\ TypeOK'
  BY <1>2, FreshOK DEF IInv
<1>3. CASE \E elev \in Samples : Sample(elev)
  <2>1. PICK elev \in Samples : Sample(elev)
    BY <1>3
  <2>2. TypeOK'
    BY <1>0, <2>1, SampleType
  <2>3. \A o \in Observer : ObserverOK(o)'
    <3> TAKE o \in Observer
    <3>1. CASE o \in observers
      BY <2>1, <3>1, SampleObserver
    <3>2. CASE o \notin observers
      <4>1. UNCHANGED <<pass[o], prev[o], before[o], event[o], shown[o], fired[o], tame[o]>>
        BY <2>1, <3>2, SampleLeaves
      <4> QED
        BY <1>0, <4>1 DEF ObserverOK, PeakIsLocal, EmittedIsShown, SetStartsAnew, Emitted
    <3> QED
      BY <3>1, <3>2
  <2> QED
    BY <2>2, <2>3 DEF IInv
<1> QED
  BY <1>0, <1>1, <1>2, <1>3, OtherSteps

LEMMA IInvAlways == Spec => []IInv
BY InitIInv, NextIInv, PTL DEF Spec

-----------------------------------------------------------------------------
(* Theorems.                                                               *)

\* The types of all variables; among them, that the detector never remembers
\* a set_0 (passes.py resets the state with it).
THEOREM TypesCorrect == Spec => []TypeOK
<1>1. IInv => TypeOK
  BY DEF IInv
<1> QED
  BY <1>1, IInvAlways, PTL

\* A pass that is sampled densely is reported exactly, for any elevations and
\* any number of reloads, expiries and restarts in between.
THEOREM DensePassesExact == Spec => []DenseIsExact
<1>1. IInv => DenseIsExact
  BY DEF IInv, ObserverOK, EmittedIsShown, DenseIsExact
<1> QED
  BY <1>1, IInvAlways, PTL

\* A reported culmination is a local maximum of the samples.
THEOREM CulminationsArePeaks == Spec => CulminationIsPeak
<1>1. IInv /\ [Next]_vars =>
        [\A o \in Observer : event'[o] = "culmination" /\ prev'[o] # prev[o]
           => IsPeak(before[o], prev[o], prev'[o])]_<<event, prev>>
  <2> SUFFICES ASSUME IInv, [Next]_vars, NEW o \in Observer,
                      event'[o] = "culmination", prev'[o] # prev[o]
               PROVE  IsPeak(before[o], prev[o], prev'[o])
    OBVIOUS
  <2>0. TypeOK /\ ObserverOK(o)
    BY DEF IInv
  <2>1. ~(UNCHANGED <<tracking, history>>)
    BY DEF tracking
  <2>2. ~Fresh
    BY KindsDiffer DEF Fresh
  <2>3. PICK elev \in Samples : Sample(elev)
    BY <2>0, <2>1, <2>2, OtherSteps
  <2>4. /\ prev'[o] = elev[o]
        /\ Detect(prev[o], elev[o], pass[o]).event = "culmination"
    <3>1. o \in observers
      BY <2>3, SampleLeaves
    <3> QED
      BY <2>3, <3>1, SampleIs
  <2>5. /\ elev[o] \in Int /\ prev[o] \in Int \cup {None} /\ before[o] \in Int \cup {None}
        /\ pass[o] \in PassType /\ pass[o].prev_prev \in Int \cup {None}
    BY <2>0, WorkerAssumption DEF Samples, TypeOK, PassType, MaybeElevation
  <2>6. prev[o] # None
    BY <2>4, KindsDiffer DEF Detect
  <2>7. Fires(prev[o], elev[o], pass[o]) = {}
    BY <2>4, <2>5, <2>6, DetectCrossing, KindsDiffer DEF Fires
  <2>8. Culminates(prev[o], elev[o], pass[o])
    BY <2>4, <2>5, <2>6, <2>7, DetectNoCrossing, KindsDiffer
  <2> QED
    BY <2>0, <2>4, <2>5, <2>6, <2>8 DEF Culminates, IsPeak, ObserverOK, PeakIsLocal
<1> QED
  BY <1>1, IInvAlways, PTL DEF Spec, CulminationIsPeak
=============================================================================
