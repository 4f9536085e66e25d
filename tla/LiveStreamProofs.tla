-------------------------- MODULE LiveStreamProofs --------------------------
(***************************************************************************)
(* Proofs about LiveStream.  The sockets and timers of each visit are      *)
(* counted against the runs of its effect; the types of `timers` and the   *)
(* property of a mounted page follow from that count and from the stop     *)
(* flag of the visit that is shown.                                        *)
(***************************************************************************)
EXTENDS LiveStream, FiniteSetTheorems, TLAPS

SocketState == {"none", "connecting", "open", "closing"}

\* The types of the variables, without the bound on timers.
Types ==
  /\ build \in Build
  /\ mounted \in BOOLEAN
  /\ visit \in 0..MaxVisits
  /\ stopRef \in [Visit -> BOOLEAN]
  /\ wsRef \in [Visit -> Socket \cup {NoSocket}]
  /\ socket \in [Visit -> [Socket -> SocketState]]
  /\ timers \in [Visit -> Nat]
  /\ connected \in BOOLEAN
  /\ faults \in 0..MaxFaults

\* The visit that is shown has begun, and its close events set timers.
StopIsOff == mounted => visit \in Visit /\ ~stopRef[visit]

IInv == Types /\ OnePerEffect /\ StopIsOff /\ NeverGivesUp /\ ConnectedIsTrue

-----------------------------------------------------------------------------
(* Counting sockets.                                                       *)

\* The sockets of a visit that are in use are finitely many.
LEMMA Counted ==
  ASSUME Types, NEW v \in Visit
  PROVE  InUse(v) \in SUBSET Socket /\ IsFiniteSet(InUse(v)) /\ Cardinality(InUse(v)) \in Nat
<1>1. InUse(v) \in SUBSET Socket /\ IsFiniteSet(Socket)
  BY StreamAssumption DEF InUse
<1> QED
  BY <1>1, FS_Subset, FS_CardinalityType

\* Opening a socket adds one to those the visit has in use, and changes
\* no other visit's.
LEMMA OpenCounts ==
  ASSUME Types, NEW v \in Visit, NEW s \in Socket, Open(v, s)
  PROVE  /\ InUse(v)' = InUse(v) \cup {s}
         /\ Cardinality(InUse(v)') = Cardinality(InUse(v)) + 1
         /\ \A u \in Visit \ {v} : InUse(u)' = InUse(u)
         /\ \A u \in Visit, r \in Socket : socket[u][r] # "none" => socket'[u][r] = socket[u][r]
         /\ socket' \in [Visit -> [Socket -> SocketState]]
         /\ wsRef' \in [Visit -> Socket \cup {NoSocket}]
<1>1. socket' = [socket EXCEPT ![v][s] = "connecting"] /\ socket[v][s] = "none"
  BY DEF Open
<1>2. socket' \in [Visit -> [Socket -> SocketState]]
  BY <1>1 DEF Types, SocketState
<1>3. \A u \in Visit : \A r \in Socket :
        socket'[u][r] = IF u = v /\ r = s THEN "connecting" ELSE socket[u][r]
  BY <1>1 DEF Types
<1>4. InUse(v)' = InUse(v) \cup {s} /\ s \notin InUse(v)
  BY <1>1, <1>3 DEF InUse
<1>5. Cardinality(InUse(v) \cup {s}) = Cardinality(InUse(v)) + 1
  BY <1>4, Counted, FS_AddElement
<1>6. \A u \in Visit \ {v} : InUse(u)' = InUse(u)
  BY <1>3 DEF InUse
<1>7. wsRef' \in [Visit -> Socket \cup {NoSocket}]
  BY DEF Types, Open
<1> QED
  BY <1>1, <1>2, <1>3, <1>4, <1>5, <1>6, <1>7

\* A close event takes one away.
LEMMA ClosedCounts ==
  ASSUME Types, NEW v \in Visit, NEW s \in InUse(v), Closed(v, s)
  PROVE  /\ InUse(v)' = InUse(v) \ {s}
         /\ Cardinality(InUse(v)') = Cardinality(InUse(v)) - 1
         /\ \A u \in Visit \ {v} : InUse(u)' = InUse(u)
         /\ socket' \in [Visit -> [Socket -> SocketState]]
<1>1. socket' = [socket EXCEPT ![v][s] = "none"] /\ s \in Socket
  BY DEF Closed, InUse
<1>2. socket' \in [Visit -> [Socket -> SocketState]]
  BY <1>1 DEF Types, SocketState
<1>3. \A u \in Visit : \A r \in Socket :
        socket'[u][r] = IF u = v /\ r = s THEN "none" ELSE socket[u][r]
  BY <1>1 DEF Types
<1>4. InUse(v)' = InUse(v) \ {s}
  BY <1>3 DEF InUse
<1>5. Cardinality(InUse(v) \ {s}) = Cardinality(InUse(v)) - 1
  BY Counted, FS_RemoveElement
<1>6. \A u \in Visit \ {v} : InUse(u)' = InUse(u)
  BY <1>3 DEF InUse
<1> QED
  BY <1>2, <1>4, <1>5, <1>6

\* Before its first run a visit has neither socket nor timer.
LEMMA NothingBefore ==
  ASSUME Types, OnePerEffect, NEW v \in Visit, v > visit
  PROVE  Cardinality(InUse(v)) = 0 /\ InUse(v) = {} /\ timers[v] = 0
<1>1. Cardinality(InUse(v)) + timers[v] <= 0
  BY DEF OnePerEffect, EffectRuns
<1>2. Cardinality(InUse(v)) \in Nat /\ timers[v] \in Nat /\ IsFiniteSet(InUse(v))
  BY Counted DEF Types
<1>3. Cardinality(InUse(v)) = 0 /\ timers[v] = 0
  BY <1>1, <1>2
<1> QED
  BY <1>2, <1>3, FS_EmptySet

\* The count bounds the timers, which gives the type invariant.
LEMMA TimersBounded == IInv => TypeOK
<1> SUFFICES ASSUME IInv PROVE TypeOK
  OBVIOUS
<1>1. Types /\ OnePerEffect
  BY DEF IInv
<1>2. ASSUME NEW v \in Visit PROVE timers[v] \in 0..2
  <2>1. Cardinality(InUse(v)) \in Nat /\ timers[v] \in Nat
    BY <1>1, Counted DEF Types
  <2>2. Cardinality(InUse(v)) + timers[v] <= EffectRuns(v)
    BY <1>1 DEF OnePerEffect
  <2>3. EffectRuns(v) \in 0..2
    BY DEF EffectRuns
  <2> QED
    BY <2>1, <2>2, <2>3
<1>3. timers \in [Visit -> 0..2]
  BY <1>1, <1>2 DEF Types
<1> QED
  BY <1>1, <1>3 DEF Types, TypeOK, SocketState

-----------------------------------------------------------------------------
(* The invariant.                                                          *)

\* Nothing is open at first.
LEMMA InvInit == Init => IInv
<1> SUFFICES ASSUME Init PROVE IInv
  OBVIOUS
<1>1. Types
  <2>1. socket \in [Visit -> [Socket -> SocketState]]
    BY DEF Init, SocketState
  <2>2. /\ visit \in 0..MaxVisits /\ faults \in 0..MaxFaults
    BY StreamAssumption, SMT DEF Init
  <2>3. /\ stopRef \in [Visit -> BOOLEAN] /\ timers \in [Visit -> Nat]
        /\ wsRef \in [Visit -> Socket \cup {NoSocket}]
    BY DEF Init
  <2>4. build \in Build /\ mounted \in BOOLEAN /\ connected \in BOOLEAN
    BY Zenon DEF Init
  <2> QED
    BY <2>1, <2>2, <2>3, <2>4 DEF Types
<1>2. ASSUME NEW v \in Visit PROVE Cardinality(InUse(v)) + timers[v] <= EffectRuns(v)
  <2>1. InUse(v) = {} /\ timers[v] = 0 /\ v > visit
    BY DEF Init, InUse, Visit
  <2> QED
    BY <2>1, FS_EmptySet DEF EffectRuns
<1> QED
  BY <1>1, <1>2 DEF Init, IInv, OnePerEffect, StopIsOff, NeverGivesUp, ConnectedIsTrue

\* A close event, whoever closed the socket, keeps the invariant.
LEMMA ClosedInv ==
  ASSUME IInv, NEW v \in Visit, NEW s \in InUse(v), Closed(v, s),
         UNCHANGED <<build, mounted, visit, stopRef, wsRef>>, faults' \in 0..MaxFaults
  PROVE  IInv'
<1>1. /\ Types
      /\ InUse(v)' = InUse(v) \ {s} /\ Cardinality(InUse(v)') = Cardinality(InUse(v)) - 1
      /\ \A u \in Visit \ {v} : InUse(u)' = InUse(u)
      /\ socket' \in [Visit -> [Socket -> SocketState]]
  BY ClosedCounts DEF IInv
<1>2. timers' = [timers EXCEPT ![v] = IF stopRef[v] THEN timers[v] ELSE timers[v] + 1]
  BY DEF Closed
<1>3. /\ \A u \in Visit \ {v} : timers'[u] = timers[u]
      /\ timers'[v] = IF stopRef[v] THEN timers[v] ELSE timers[v] + 1
      /\ timers[v] \in Nat
  BY <1>1, <1>2 DEF Types
<1>4. Types'
  <2>1. timers' \in [Visit -> Nat]
    BY <1>1, <1>2 DEF Types
  <2>2. connected' \in BOOLEAN
    BY DEF Closed
  <2> QED
    BY <1>1, <2>1, <2>2 DEF Types
<1>5. OnePerEffect'
  <2>1. ASSUME NEW u \in Visit PROVE (Cardinality(InUse(u)) + timers[u] <= EffectRuns(u))'
    <3>1. Cardinality(InUse(u)) + timers[u] <= EffectRuns(u) /\ EffectRuns(u)' = EffectRuns(u)
      BY DEF IInv, OnePerEffect, EffectRuns
    <3>2. CASE u = v
      <4>1. Cardinality(InUse(v)) \in Nat
        BY <1>1, Counted
      <4>2. EffectRuns(u) \in Nat
        BY DEF EffectRuns
      <4>3. (Cardinality(InUse(u)) - 1) + timers'[u] <= EffectRuns(u)
        BY <1>3, <3>1, <3>2, <4>1, <4>2
      <4> QED
        BY <1>1, <3>1, <3>2, <4>3
    <3>3. CASE u # v
      BY <1>1, <1>3, <3>1, <3>3
    <3> QED
      BY <3>2, <3>3
  <2> QED
    BY <2>1 DEF OnePerEffect, Visit
<1>6. StopIsOff'
  BY DEF IInv, StopIsOff
<1>7. NeverGivesUp'
  <2>1. SUFFICES ASSUME mounted PROVE InUse(visit)' # {} \/ timers'[visit] > 0
    BY DEF NeverGivesUp
  <2>2. visit \in Visit /\ ~stopRef[visit] /\ (InUse(visit) # {} \/ timers[visit] > 0)
    BY <2>1 DEF IInv, StopIsOff, NeverGivesUp
  <2>3. CASE visit = v
    BY <1>3, <2>2, <2>3
  <2>4. CASE visit # v
    BY <1>1, <1>3, <2>2, <2>4
  <2> QED
    BY <2>3, <2>4
<1>8. ConnectedIsTrue'
  BY DEF Closed, ConnectedIsTrue
<1> QED
  BY <1>4, <1>5, <1>6, <1>7, <1>8 DEF IInv

\* So does the page's first step, which runs the effect once or twice: n
\* sockets for the n runs.
LEMMA EnterInv ==
  ASSUME IInv, NEW v \in Visit, Enter(v), NEW n \in {1, 2},
         n = IF build = "development" THEN 2 ELSE 1,
         Cardinality(InUse(v)') = n, InUse(v)' # {},
         \A u \in Visit \ {v} : socket'[u] = socket[u],
         socket' \in [Visit -> [Socket -> SocketState]],
         wsRef' \in [Visit -> Socket \cup {NoSocket}],
         stopRef' = [stopRef EXCEPT ![v] = FALSE],
         UNCHANGED <<build, timers, connected, faults>>
  PROVE  IInv'
<1>1. Types /\ v = visit + 1 /\ visit' = v /\ mounted' = TRUE /\ visit \in Nat
  BY DEF IInv, Enter, Types
<1>2. InUse(v) = {} /\ timers[v] = 0
  BY <1>1, NothingBefore DEF IInv, Visit
<1>3. Types'
  <2>1. visit' \in 0..MaxVisits
    BY <1>1 DEF Visit
  <2>2. stopRef' \in [Visit -> BOOLEAN]
    BY <1>1 DEF Types
  <2> QED
    BY <1>1, <2>1, <2>2 DEF Types
<1>4. OnePerEffect'
  <2>1. ASSUME NEW u \in Visit PROVE (Cardinality(InUse(u)) + timers[u] <= EffectRuns(u))'
    <3>1. CASE u = v
      <4>1. EffectRuns(u)' = n /\ timers'[u] = 0 /\ Cardinality(InUse(u)') = n
        BY <1>1, <1>2, <3>1 DEF EffectRuns
      <4> QED
        BY <4>1
    <3>2. CASE u # v
      <4>1. Cardinality(InUse(u)) + timers[u] <= EffectRuns(u) /\ InUse(u)' = InUse(u)
        BY <3>2 DEF IInv, OnePerEffect, InUse
      <4>2. EffectRuns(u)' = EffectRuns(u)
        BY <1>1, <3>2 DEF EffectRuns, Visit
      <4> QED
        BY <4>1, <4>2
    <3> QED
      BY <3>1, <3>2
  <2> QED
    BY <2>1 DEF OnePerEffect, Visit
<1>5. StopIsOff' /\ NeverGivesUp'
  BY <1>1 DEF StopIsOff, NeverGivesUp, Types, Visit
<1>6. ConnectedIsTrue'
  <2>1. \A r \in Socket : socket[v][r] = "none"
    BY <1>2 DEF InUse
  <2>2. \A u \in Visit : \A r \in Socket :
          socket[u][r] \in {"open", "closing"} => socket'[u][r] = socket[u][r]
    BY <2>1
  <2> QED
    BY <2>2 DEF IInv, ConnectedIsTrue, Visit
<1> QED
  BY <1>3, <1>4, <1>5, <1>6 DEF IInv

\* A new socket does not disturb those that make the flag true.
LEMMA OpenKeepsFlag ==
  ASSUME Types, ConnectedIsTrue, NEW v \in Visit, NEW s \in Socket, Open(v, s),
         connected' = connected
  PROVE  ConnectedIsTrue'
<1>1. \A u \in Visit, r \in Socket : socket[u][r] # "none" => socket'[u][r] = socket[u][r]
  BY OpenCounts
<1>2. \A u \in Visit : \A r \in Socket :
        socket[u][r] \in {"open", "closing"} => socket'[u][r] = socket[u][r]
  BY <1>1
<1> QED
  BY <1>2 DEF ConnectedIsTrue, Visit

\* The effect runs once.
LEMMA MountInv ==
  ASSUME IInv, NEW v \in Visit, NEW s \in Socket, Mount(v, s)
  PROVE  IInv'
<1>1. Types /\ Open(v, s) /\ Enter(v) /\ build = "production" /\ visit \in Nat
  BY DEF IInv, Mount, Types
<1>2. Cardinality(InUse(v)) = 0
  BY <1>1, NothingBefore DEF Enter, IInv
<1>3. /\ InUse(v)' = InUse(v) \cup {s}
      /\ Cardinality(InUse(v)') = 0 + 1
      /\ socket' \in [Visit -> [Socket -> SocketState]]
      /\ wsRef' \in [Visit -> Socket \cup {NoSocket}]
  BY <1>1, <1>2, OpenCounts
<1>4. \A u \in Visit \ {v} : socket'[u] = socket[u]
  BY <1>1 DEF Open, Types
<1>5. /\ Cardinality(InUse(v)') = 1 /\ InUse(v)' # {}
      /\ 1 = IF build = "development" THEN 2 ELSE 1
  BY <1>1, <1>3
<1>6. stopRef' = [stopRef EXCEPT ![v] = FALSE] /\ UNCHANGED <<build, timers, connected, faults>>
  BY DEF Mount
<1> QED
  BY <1>1, <1>3, <1>4, <1>5, <1>6, EnterInv

\* The effect runs twice.
LEMMA StrictMountInv ==
  ASSUME IInv, NEW v \in Visit, NEW s \in Socket, NEW r \in Socket, StrictMount(v, s, r)
  PROVE  IInv'
<1>1. Types /\ Enter(v) /\ build = "development" /\ visit \in Nat /\ s # r
  BY DEF IInv, StrictMount, Types
<1>2. socket' = [socket EXCEPT ![v][s] = "closing", ![v][r] = "connecting"]
  BY DEF StrictMount
<1>3. socket' \in [Visit -> [Socket -> SocketState]]
  BY <1>1, <1>2 DEF Types, SocketState
<1>4. \A u \in Visit \ {v} : socket'[u] = socket[u]
  BY <1>1, <1>2 DEF Types
<1>5. \A q \in Socket : socket'[v][q] = IF q = r THEN "connecting"
                                        ELSE IF q = s THEN "closing" ELSE socket[v][q]
  BY <1>1, <1>2 DEF Types
<1>6. InUse(v) = {}
  BY <1>1, NothingBefore DEF Enter, IInv
<1>7. InUse(v)' = {s, r}
  BY <1>5, <1>6 DEF InUse
<1>8. Cardinality({s, r}) = 2
  <2>1. IsFiniteSet({s}) /\ Cardinality({s}) = 1
    BY FS_Singleton
  <2>2. Cardinality({s} \cup {r}) = 1 + 1
    BY <1>1, <2>1, FS_AddElement
  <2>3. {s} \cup {r} = {s, r}
    OBVIOUS
  <2> QED
    BY <2>2, <2>3
<1>9. wsRef' \in [Visit -> Socket \cup {NoSocket}]
  BY <1>1 DEF StrictMount, Types
<1>10. /\ Cardinality(InUse(v)') = 2 /\ InUse(v)' # {}
       /\ 2 = IF build = "development" THEN 2 ELSE 1
  BY <1>1, <1>7, <1>8
<1>11. stopRef' = [stopRef EXCEPT ![v] = FALSE] /\ UNCHANGED <<build, timers, connected, faults>>
  BY DEF StrictMount
<1> QED
  BY <1>1, <1>3, <1>4, <1>9, <1>10, <1>11, EnterInv

\* The cleanup closes a socket but leaves it in use until its close event.
LEMMA UnmountInv ==
  ASSUME IInv, Unmount
  PROVE  IInv'
<1>1. Types /\ mounted /\ visit \in Visit
  BY DEF IInv, Unmount, StopIsOff
<1>2. socket' = [socket EXCEPT ![visit] = [s \in Socket |->
        IF s = wsRef[visit] /\ s \in InUse(visit) THEN "closing" ELSE socket[visit][s]]]
  BY DEF Unmount
<1>3. socket' \in [Visit -> [Socket -> SocketState]]
  BY <1>1, <1>2 DEF Types, SocketState
<1>4. \A v \in Visit : \A s \in Socket :
        socket'[v][s] = IF v = visit /\ s = wsRef[visit] /\ s \in InUse(visit)
                        THEN "closing" ELSE socket[v][s]
  BY <1>1, <1>2 DEF Types
<1>5. \A v \in Visit : InUse(v)' = InUse(v)
  BY <1>4 DEF InUse
<1>6. Types'
  BY <1>1, <1>3 DEF Unmount, Types
<1>7. OnePerEffect'
  <2>1. ASSUME NEW v \in Visit PROVE (Cardinality(InUse(v)) + timers[v] <= EffectRuns(v))'
    BY <1>5 DEF IInv, OnePerEffect, EffectRuns, Unmount
  <2> QED
    BY <2>1 DEF OnePerEffect, Visit
<1>8. StopIsOff' /\ NeverGivesUp'
  BY DEF Unmount, StopIsOff, NeverGivesUp
<1>9. ConnectedIsTrue'
  <2>1. \A v \in Visit : \A s \in Socket :
          socket[v][s] \in {"open", "closing"} => socket'[v][s] \in {"open", "closing"}
    BY <1>4
  <2> QED
    BY <2>1 DEF IInv, ConnectedIsTrue, Unmount, Visit
<1> QED
  BY <1>6, <1>7, <1>8, <1>9 DEF IInv

\* A socket opens.
LEMMA OpenedInv ==
  ASSUME IInv, NEW v \in Visit, NEW s \in Socket, Opened(v, s)
  PROVE  IInv'
<1>1. Types /\ socket[v][s] = "connecting" /\ socket' = [socket EXCEPT ![v][s] = "open"]
  BY DEF IInv, Opened
<1>2. socket' \in [Visit -> [Socket -> SocketState]]
  BY <1>1 DEF Types, SocketState
<1>3. \A u \in Visit : \A r \in Socket :
        socket'[u][r] = IF u = v /\ r = s THEN "open" ELSE socket[u][r]
  BY <1>1 DEF Types
<1>4. \A u \in Visit : InUse(u)' = InUse(u)
  BY <1>1, <1>3 DEF InUse
<1>5. Types'
  BY <1>1, <1>2 DEF Opened, Types
<1>6. OnePerEffect'
  <2>1. ASSUME NEW u \in Visit PROVE (Cardinality(InUse(u)) + timers[u] <= EffectRuns(u))'
    BY <1>4 DEF IInv, OnePerEffect, EffectRuns, Opened
  <2> QED
    BY <2>1 DEF OnePerEffect, Visit
<1>7. StopIsOff' /\ NeverGivesUp'
  BY <1>4 DEF IInv, Opened, StopIsOff, NeverGivesUp
<1>8. ConnectedIsTrue'
  BY <1>3 DEF ConnectedIsTrue, Visit
<1> QED
  BY <1>5, <1>6, <1>7, <1>8 DEF IInv

\* A timer becomes a socket.
LEMMA TimerInv ==
  ASSUME IInv, NEW v \in Visit, NEW s \in Socket, TimerFires(v, s)
  PROVE  IInv'
<1>1. /\ Types /\ Open(v, s) /\ timers[v] > 0
      /\ timers' = [timers EXCEPT ![v] = timers[v] - 1]
      /\ UNCHANGED <<build, mounted, visit, stopRef, connected, faults>>
  BY DEF IInv, TimerFires
<1>2. /\ InUse(v)' = InUse(v) \cup {s}
      /\ Cardinality(InUse(v)') = Cardinality(InUse(v)) + 1
      /\ \A u \in Visit \ {v} : InUse(u)' = InUse(u)
      /\ socket' \in [Visit -> [Socket -> SocketState]]
      /\ wsRef' \in [Visit -> Socket \cup {NoSocket}]
  BY <1>1, OpenCounts
<1>3. /\ \A u \in Visit \ {v} : timers'[u] = timers[u]
      /\ timers'[v] = timers[v] - 1 /\ timers[v] \in Nat
  BY <1>1 DEF Types
<1>4. Types'
  <2>1. timers' \in [Visit -> Nat]
    BY <1>1, <1>3 DEF Types
  <2> QED
    BY <1>1, <1>2, <2>1 DEF Types
<1>5. OnePerEffect'
  <2>1. ASSUME NEW u \in Visit PROVE (Cardinality(InUse(u)) + timers[u] <= EffectRuns(u))'
    <3>1. Cardinality(InUse(u)) + timers[u] <= EffectRuns(u) /\ EffectRuns(u)' = EffectRuns(u)
      BY <1>1 DEF IInv, OnePerEffect, EffectRuns
    <3>2. CASE u = v
      <4>1. Cardinality(InUse(v)) \in Nat
        BY <1>1, Counted
      <4>2. EffectRuns(u) \in Nat
        BY DEF EffectRuns
      <4>3. (Cardinality(InUse(u)) + 1) + timers'[u] <= EffectRuns(u)
        BY <1>3, <3>1, <3>2, <4>1, <4>2
      <4> QED
        BY <1>2, <3>1, <3>2, <4>3
    <3>3. CASE u # v
      BY <1>2, <1>3, <3>1, <3>3
    <3> QED
      BY <3>2, <3>3
  <2> QED
    BY <2>1 DEF OnePerEffect, Visit
<1>6. StopIsOff'
  BY <1>1 DEF IInv, StopIsOff
<1>7. NeverGivesUp'
  <2>1. SUFFICES ASSUME mounted PROVE InUse(visit)' # {} \/ timers'[visit] > 0
    BY <1>1 DEF NeverGivesUp
  <2>2. visit \in Visit /\ (InUse(visit) # {} \/ timers[visit] > 0)
    BY <2>1 DEF IInv, StopIsOff, NeverGivesUp
  <2>3. CASE visit = v
    BY <1>1, <1>2, <2>3
  <2>4. CASE visit # v
    BY <1>1, <1>2, <1>3, <2>2, <2>4
  <2> QED
    BY <2>3, <2>4
<1>8. ConnectedIsTrue'
  BY <1>1, OpenKeepsFlag DEF IInv
<1> QED
  BY <1>4, <1>5, <1>6, <1>7, <1>8 DEF IInv

\* No step breaks the invariant.
LEMMA InvNext == IInv /\ [Next]_vars => IInv'
<1> SUFFICES ASSUME IInv, [Next]_vars PROVE IInv'
  OBVIOUS
<1>0. Types /\ MaxFaults \in Nat
  BY StreamAssumption DEF IInv
<1>1. CASE Unmount
  BY <1>1, UnmountInv
<1>2. ASSUME NEW v \in Visit, NEW s \in Socket, Mount(v, s) PROVE IInv'
  BY <1>2, MountInv
<1>3. ASSUME NEW v \in Visit, NEW s \in Socket, NEW r \in Socket, StrictMount(v, s, r) PROVE IInv'
  BY <1>3, StrictMountInv
<1>4. ASSUME NEW v \in Visit, NEW s \in Socket, Opened(v, s) PROVE IInv'
  BY <1>4, OpenedInv
<1>5. ASSUME NEW v \in Visit, NEW s \in Socket, CloseEvent(v, s) PROVE IInv'
  <2>1. s \in InUse(v) /\ faults' \in 0..MaxFaults
    BY <1>0, <1>5 DEF CloseEvent, InUse, Types
  <2> QED
    BY <1>5, <2>1, ClosedInv DEF CloseEvent
<1>6. ASSUME NEW v \in Visit, NEW s \in Socket, Fault(v, s) PROVE IInv'
  <2>1. s \in InUse(v) /\ faults' \in 0..MaxFaults
    BY <1>0, <1>6 DEF Fault, InUse, Types
  <2> QED
    BY <1>6, <2>1, ClosedInv DEF Fault
<1>7. ASSUME NEW v \in Visit, NEW s \in Socket, TimerFires(v, s) PROVE IInv'
  BY <1>7, TimerInv
<1>8. CASE UNCHANGED vars
  <2>1. \A v \in Visit : InUse(v)' = InUse(v) /\ EffectRuns(v)' = EffectRuns(v)
    BY <1>8 DEF vars, InUse, EffectRuns
  <2>2. OnePerEffect'
    <3>1. ASSUME NEW v \in Visit PROVE (Cardinality(InUse(v)) + timers[v] <= EffectRuns(v))'
      BY <1>8, <2>1 DEF vars, IInv, OnePerEffect
    <3> QED
      BY <3>1 DEF OnePerEffect, Visit
  <2>3. Types'
    BY <1>0, <1>8 DEF vars, Types
  <2>4. StopIsOff' /\ NeverGivesUp' /\ ConnectedIsTrue'
    BY <1>8 DEF vars, IInv, StopIsOff, NeverGivesUp, ConnectedIsTrue, InUse, Visit
  <2> QED
    BY <2>2, <2>3, <2>4 DEF IInv
<1> QED
  BY <1>1, <1>2, <1>3, <1>4, <1>5, <1>6, <1>7, <1>8 DEF Next

-----------------------------------------------------------------------------
(* The theorems.                                                           *)

\* The invariant of the whole development.
THEOREM Invariance == Spec => []IInv
<1> QED  BY InvInit, InvNext, PTL DEF Spec

\* Every variable has its type, however often the page comes and goes.
THEOREM TypesCorrect == Spec => []TypeOK
<1> QED  BY Invariance, TimersBounded, PTL

\* The visit that is shown always has a socket of its own, or a timer that
\* will open one.
THEOREM PageNeverGivesUp == Spec => []NeverGivesUp
<1>1. IInv => NeverGivesUp
  BY DEF IInv
<1> QED  BY <1>1, Invariance, PTL

\* The sockets and timers of a visit together never outnumber the runs of
\* its effect, whatever fails.
THEOREM SocketsPerEffect == Spec => []OnePerEffect
<1>1. IInv => OnePerEffect
  BY DEF IInv
<1> QED  BY <1>1, Invariance, PTL

\* The flag is on only while some socket is connected or not yet closed.
THEOREM FlagIsTrue == Spec => []ConnectedIsTrue
<1>1. IInv => ConnectedIsTrue
  BY DEF IInv
<1> QED  BY <1>1, Invariance, PTL
=============================================================================
