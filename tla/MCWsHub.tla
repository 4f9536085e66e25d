------------------------------ MODULE MCWsHub ------------------------------
(* Instances of WsHub for TLC. *)
EXTENDS WsHub

CONSTANTS c1, s1, s2

Asks(topics, ids) == [topics |-> topics, norad_filter |-> ids]
\* Everything about s1, then passes only.
TwoRequests == {Asks(Topic, {s1}), Asks({"passes"}, {})}
=============================================================================
