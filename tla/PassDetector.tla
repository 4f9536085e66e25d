---------------------------- MODULE PassDetector ----------------------------
(***************************************************************************)
(* The pass detector of the pass worker (src/pass-worker/app/passes.py,    *)
(* stub_detect_pass_event): from the elevation of a satellite in two       *)
(* samples, and what it keeps of earlier ones, at most one event.          *)
(*                                                                         *)
(* Elevations are in degrees.  The times of events are left out, and the   *)
(* fields last_peak_elev and peak_ts, which nothing reads.                 *)
(***************************************************************************)
EXTENDS Integers, FiniteSets

CONSTANT None   \* no sample, no event

Crossings == {"rise_0", "set_0", "rise_10", "set_10"}
EventKind == Crossings \cup {"culmination"}

ASSUME NoneAssumption == None \notin Int \cup EventKind

\* THRESHOLDS_DEG.
Threshold == [rise_0 |-> 0, set_0 |-> 0, rise_10 |-> 10, set_10 |-> 10]

PassState == [emitted : SUBSET EventKind, prev_prev : Int \cup {None}]
NewPassState == [emitted |-> {}, prev_prev |-> None]

\* The threshold of crossing k lies between the two samples.
Crosses(k, prev, curr) ==
  IF k \in {"rise_0", "rise_10"}
  THEN prev < Threshold[k] /\ Threshold[k] <= curr
  ELSE prev > Threshold[k] /\ Threshold[k] >= curr

\* prev is higher than its neighbours and above the highest threshold.
IsPeak(before, prev, curr) ==
  /\ before # None
  /\ before < prev /\ curr < prev
  /\ prev > 10

\* The crossings that may fire.  The loop over the thresholds returns the
\* first, which is the lowest.
Fires(prev, curr, ps) == {k \in Crossings : Crosses(k, prev, curr) /\ k \notin ps.emitted}
First(kinds) == CHOOSE k \in kinds : \A l \in kinds : Threshold[k] <= Threshold[l]

\* Mutated form: set_0 does not start the pass anew.
AfterCrossing_NoReset(k, ps) == [ps EXCEPT !.emitted = @ \cup {k}]

\* A crossing leaves prev_prev as it was; set_0 ends the pass.
AfterCrossing(k, ps) ==
  IF k = "set_0" THEN NewPassState ELSE [ps EXCEPT !.emitted = @ \cup {k}]

\* Mutated form: the peak need only be above the next sample.
Culminates_Falling(prev, curr, ps) ==
  /\ ps.prev_prev # None /\ curr < prev /\ prev > 10
  /\ "culmination" \notin ps.emitted

Culminates(prev, curr, ps) ==
  IsPeak(ps.prev_prev, prev, curr) /\ "culmination" \notin ps.emitted

\* stub_detect_pass_event: the event, or None, and the new state.
Detect(prev, curr, ps) ==
  IF prev = None
  THEN [event |-> None, ps |-> [ps EXCEPT !.prev_prev = None]]
  ELSE IF Fires(prev, curr, ps) # {}
  THEN LET k == First(Fires(prev, curr, ps)) IN [event |-> k, ps |-> AfterCrossing(k, ps)]
  ELSE IF Culminates(prev, curr, ps)
  THEN [event |-> "culmination",
        ps |-> [emitted |-> ps.emitted \cup {"culmination"}, prev_prev |-> prev]]
  ELSE [event |-> None, ps |-> [ps EXCEPT !.prev_prev = prev]]

\* For comparison, what three consecutive samples show: every threshold
\* between the last two, and whether the middle one is the culmination.
Shown(before, prev, curr) ==
  IF prev = None THEN {}
  ELSE {k \in Crossings : Crosses(k, prev, curr)}
         \cup (IF IsPeak(before, prev, curr) THEN {"culmination"} ELSE {})
=============================================================================
