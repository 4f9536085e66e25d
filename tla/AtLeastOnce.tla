---------------------------- MODULE AtLeastOnce ----------------------------
(***************************************************************************)
(* What a sink of a partitioned log promises: every record it must keep is *)
(* stored before the log is told that it may forget it, nothing stored is  *)
(* ever taken back, and in the end every such record is stored and         *)
(* acknowledged.  How often a record is read, by how many lives of the     *)
(* process and in which batches, does not show.                            *)
(*                                                                         *)
(* external: the contract is the one docs and comments give the persister  *)
(* ("Only commit Kafka offsets after DB + Redis succeed").                 *)
(***************************************************************************)
EXTENDS Naturals

CONSTANT Partition

VARIABLES
  published,  \* how many records each partition holds
  wanted,     \* the <<partition, offset>> pairs the sink must keep
  stored,     \* those it has stored
  acked       \* the acknowledged offset of each partition

vars == <<published, wanted, stored, acked>>

Init ==
  /\ published = [p \in Partition |-> 0]
  /\ wanted = {}
  /\ stored = {}
  /\ acked = [p \in Partition |-> 0]

\* A record arrives; the sink may or may not have to keep it.
Publish(p) ==
  /\ published' = [published EXCEPT ![p] = @ + 1]
  /\ wanted' \in {wanted, wanted \cup {<<p, published[p] + 1>>}}
  /\ UNCHANGED <<stored, acked>>

\* Some records are stored, all at once.
Store ==
  /\ stored \subseteq stored'
  /\ stored' \subseteq wanted
  /\ UNCHANGED <<published, wanted, acked>>

\* The acknowledged offsets move, over stored records only.
Ack ==
  /\ acked' \in [Partition -> Nat]
  /\ \A p \in Partition :
       /\ acked[p] <= acked'[p] /\ acked'[p] <= published[p]
       /\ \A o \in 1..acked'[p] : <<p, o>> \in wanted => <<p, o>> \in stored
  /\ UNCHANGED <<published, wanted, stored>>

Next ==
  \/ \E p \in Partition : Publish(p)
  \/ Store
  \/ Ack

Spec == Init /\ [][Next]_vars

\* What the sink owes: a wanted record is stored, and then acknowledged.
Delivered(p, o) ==
  <<p, o>> \in wanted ~> (<<p, o>> \in stored /\ acked[p] >= o)
=============================================================================
