------------------------------- MODULE MCPcSm -------------------------------
(***************************************************************************)
(* Instances of PcSm for TLC.  An HTTP machine gives every request the     *)
(* message id 1.  Over CoAP r1 is a subscription and r2 a read, which have *)
(* ids of their own.                                                       *)
(***************************************************************************)
EXTENDS PcSm

CONSTANTS r1, r2, r3

HttpIds == [r \in Req |-> 1]
CoapIds == [r \in Req |-> IF r = r1 THEN 6 ELSE 7]
ObserveOne == {r1}
NoObserve == {}

=============================================================================
