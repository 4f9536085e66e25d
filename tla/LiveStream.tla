----------------------------- MODULE LiveStream -----------------------------
(***************************************************************************)
(* The browser's side of the live feed (src/frontend/src/ws/useLiveStream  *)
(* .ts): an effect that opens a WebSocket when the dashboard mounts, opens *)
(* it again after each close, and closes it on unmount.                    *)
(*                                                                         *)
(* Each visit to the dashboard is a component instance of its own, with    *)
(* refs of its own; its sockets and timers may outlive it.  The store, and *)
(* with it the flag `connected`, is one for all visits.  In a development  *)
(* build StrictMode runs the effect of every new instance twice, with the  *)
(* cleanup between, on the same refs.                                      *)
(*                                                                         *)
(* Socket events are callbacks: a socket that was told to close is         *)
(* "closing" until its close event runs.  A closed socket is out of use,   *)
(* and its name serves for a later one of the visit.  How long a timer     *)
(* waits, and with it backoffRef, is left out: it may fire at any time.    *)
(***************************************************************************)
EXTENDS Naturals, FiniteSets

CONSTANTS
  Build,        \* the builds to consider: "production", "development"
  Socket,       \* names of a visit's WebSocket objects
  NoSocket,     \* wsRef.current before the first
  MaxVisits,    \* bound: visits to the dashboard
  MaxFaults     \* bound: connections that the network or the server ends

ASSUME StreamAssumption ==
  /\ Build \subseteq {"production", "development"}
  /\ IsFiniteSet(Socket)
  /\ Cardinality(Socket) >= 2
  /\ NoSocket \notin Socket
  /\ MaxVisits \in Nat
  /\ MaxFaults \in Nat

VARIABLES
  build,        \* which build is served
  mounted,      \* the dashboard is shown
  visit,        \* number of the last visit
  stopRef,      \* stopRef.current, per visit
  wsRef,        \* wsRef.current, per visit
  socket,       \* readyState of each socket of each visit, "none" if out of use
  timers,       \* pending setTimeout(open), per visit
  connected,    \* the live store's flag
  faults        \* bound: faults so far

vars == <<build, mounted, visit, stopRef, wsRef, socket, timers, connected, faults>>

Visit == 1..MaxVisits
InUse(v) == {s \in Socket : socket[v][s] # "none"}

Init ==
  /\ build \in Build
  /\ mounted = FALSE
  /\ visit = 0
  /\ stopRef = [v \in Visit |-> FALSE]
  /\ wsRef = [v \in Visit |-> NoSocket]
  /\ socket = [v \in Visit |-> [s \in Socket |-> "none"]]
  /\ timers = [v \in Visit |-> 0]
  /\ connected = FALSE
  /\ faults = 0

\* open(): the new socket takes the place of the old one in wsRef.
Open(v, s) ==
  /\ socket[v][s] = "none"
  /\ socket' = [socket EXCEPT ![v][s] = "connecting"]
  /\ wsRef' = [wsRef EXCEPT ![v] = s]

\* A new instance of the page, its refs as useRef made them.
Enter(v) ==
  /\ ~mounted /\ v = visit + 1
  /\ mounted' = TRUE
  /\ visit' = v

\* The effect runs.
Mount(v, s) ==
  /\ build = "production"
  /\ Enter(v)
  /\ stopRef' = [stopRef EXCEPT ![v] = FALSE]
  /\ Open(v, s)
  /\ UNCHANGED <<build, timers, connected, faults>>

\* Mutated form: the second run of the effect leaves stopRef as the cleanup
\* set it.
StrictMount_StillStopped(v, s, r) ==
  /\ build = "development"
  /\ Enter(v)
  /\ {s, r} \cap InUse(v) = {} /\ s # r
  /\ stopRef' = [stopRef EXCEPT ![v] = TRUE]
  /\ socket' = [socket EXCEPT ![v][s] = "closing", ![v][r] = "connecting"]
  /\ wsRef' = [wsRef EXCEPT ![v] = r]
  /\ UNCHANGED <<build, timers, connected, faults>>

\* StrictMode: effect, cleanup and effect again, with no event between.
StrictMount(v, s, r) ==
  /\ build = "development"
  /\ Enter(v)
  /\ {s, r} \cap InUse(v) = {} /\ s # r
  /\ stopRef' = [stopRef EXCEPT ![v] = FALSE]
  /\ socket' = [socket EXCEPT ![v][s] = "closing", ![v][r] = "connecting"]
  /\ wsRef' = [wsRef EXCEPT ![v] = r]
  /\ UNCHANGED <<build, timers, connected, faults>>

\* The cleanup of the effect: close() on the socket in wsRef; timers stay.
Unmount ==
  /\ mounted
  /\ mounted' = FALSE
  /\ stopRef' = [stopRef EXCEPT ![visit] = TRUE]
  /\ socket' = [socket EXCEPT ![visit] = [s \in Socket |->
       IF s = wsRef[visit] /\ s \in InUse(visit) THEN "closing" ELSE socket[visit][s]]]
  /\ UNCHANGED <<build, visit, wsRef, timers, connected, faults>>

\* The open event.
Opened(v, s) ==
  /\ socket[v][s] = "connecting"
  /\ socket' = [socket EXCEPT ![v][s] = "open"]
  /\ connected' = TRUE
  /\ UNCHANGED <<build, mounted, visit, stopRef, wsRef, timers, faults>>

\* Mutated form: reconnects only after an orderly close.
Closed_NoRetry(v, s) ==
  /\ connected' = FALSE
  /\ socket' = [socket EXCEPT ![v][s] = "none"]
  /\ timers' = [timers EXCEPT ![v] =
       IF stopRef[v] \/ socket[v][s] = "connecting" THEN timers[v] ELSE timers[v] + 1]

\* Mutated form: a stopped handler returns before it clears the flag.
Closed_StopFirst(v, s) ==
  /\ connected' = (connected /\ stopRef[v])
  /\ socket' = [socket EXCEPT ![v][s] = "none"]
  /\ timers' = [timers EXCEPT ![v] = IF stopRef[v] THEN timers[v] ELSE timers[v] + 1]

\* Mutated form: the error event of a failed connection sets a timer too.
Closed_ErrorRetries(v, s) ==
  /\ connected' = FALSE
  /\ socket' = [socket EXCEPT ![v][s] = "none"]
  /\ timers' = [timers EXCEPT ![v] = IF stopRef[v] THEN timers[v]
                  ELSE timers[v] + IF socket[v][s] = "connecting" THEN 2 ELSE 1]

\* closeHandler: clears the shared flag, then looks at its own instance's
\* stopRef.
Closed(v, s) ==
  /\ connected' = FALSE
  /\ socket' = [socket EXCEPT ![v][s] = "none"]
  /\ timers' = [timers EXCEPT ![v] = IF stopRef[v] THEN timers[v] ELSE timers[v] + 1]

\* The close event of a socket that was told to close.
CloseEvent(v, s) ==
  /\ socket[v][s] = "closing"
  /\ Closed(v, s)
  /\ UNCHANGED <<build, mounted, visit, stopRef, wsRef, faults>>

\* The server closes the socket, refuses it, or cannot be reached.
Fault(v, s) ==
  /\ faults < MaxFaults
  /\ faults' = faults + 1
  /\ socket[v][s] \in {"connecting", "open"}
  /\ Closed(v, s)
  /\ UNCHANGED <<build, mounted, visit, stopRef, wsRef>>

\* The timer calls open(), mounted or not.
TimerFires(v, s) ==
  /\ timers[v] > 0
  /\ timers' = [timers EXCEPT ![v] = timers[v] - 1]
  /\ Open(v, s)
  /\ UNCHANGED <<build, mounted, visit, stopRef, connected, faults>>

Next ==
  \/ Unmount
  \/ \E v \in Visit, s \in Socket :
       \/ Mount(v, s)
       \/ \E r \in Socket : StrictMount(v, s, r)
       \/ Opened(v, s)
       \/ CloseEvent(v, s)
       \/ Fault(v, s)
       \/ TimerFires(v, s)

Spec == Init /\ [][Next]_vars

\* Timers fire, closing sockets close, and a connection attempt that does
\* not fail succeeds.
Fairness ==
  \A v \in Visit :
    /\ WF_vars(\E s \in Socket : TimerFires(v, s))
    /\ \A s \in Socket : WF_vars(CloseEvent(v, s)) /\ WF_vars(Opened(v, s))
FairSpec == Spec /\ Fairness

-----------------------------------------------------------------------------
(* Properties.                                                             *)

\* How often the effect of visit v has run.
EffectRuns(v) == IF v > visit THEN 0 ELSE IF build = "development" THEN 2 ELSE 1

TypeOK ==
  /\ build \in Build
  /\ mounted \in BOOLEAN
  /\ visit \in 0..MaxVisits
  /\ stopRef \in [Visit -> BOOLEAN]
  /\ wsRef \in [Visit -> Socket \cup {NoSocket}]
  /\ socket \in [Visit -> [Socket -> {"none", "connecting", "open", "closing"}]]
  /\ timers \in [Visit -> 0..2]
  /\ connected \in BOOLEAN
  /\ faults \in 0..MaxFaults

\* A mounted page never gives up: the visit has a socket of its own whose
\* close event is to come, or a timer that will open one.
NeverGivesUp == mounted => InUse(visit) # {} \/ timers[visit] > 0

\* Faults do not multiply connections: a visit never has more sockets and
\* timers than its effect has run times, whether it is shown or over.
OnePerEffect == \A v \in Visit : Cardinality(InUse(v)) + timers[v] <= EffectRuns(v)

\* The store says connected only while some socket is, though the sockets of
\* all visits come and go and share the flag.
ConnectedIsTrue ==
  connected => \E v \in Visit : \E s \in Socket : socket[v][s] \in {"open", "closing"}

\* Once faults and navigation are over, the visit that is shown has an open
\* socket of its own for good; and if it is the first since the page was
\* loaded, the flag is on for good.  On a later visit the flag may stay off:
\* the close event of an earlier visit's socket may be the last to set it.
Reconnects ==
  <>[](mounted => /\ \E s \in Socket : socket[visit][s] = "open"
                  /\ visit = 1 => connected)

\* "Single persistent WebSocket to /ws/stream" (useLiveStream.ts:26).
SingleSocket ==
  Cardinality({p \in Visit \X Socket : socket[p[1]][p[2]] \in {"connecting", "open"}}) <= 1
=============================================================================
