---------------------------- MODULE MCExositeApi ----------------------------
(***************************************************************************)
(* Instances of ExositeApi for TLC: one alias, with its long poll machine  *)
(* (HTTP) or observed on the main machine (CoAP), and two requests, so     *)
(* that the same subscription can be held twice.                           *)
(***************************************************************************)
EXTENDS ExositeApi

CONSTANTS a1, poll

OnePoll == [a \in Alias |-> poll]
OneAlias == [s \in Subscriptions |-> a1]
Requests == {Timestamp, Activate} \cup Data \cup Subscriptions
NoObserve == {}
ObserveAll == Subscriptions

=============================================================================
