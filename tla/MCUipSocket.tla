---------------------------- MODULE MCUipSocket ----------------------------
(***************************************************************************)
(* Instances of UipSocket for TLC.                                         *)
(***************************************************************************)
EXTENDS UipSocket

Bytes == 1 .. MaxIn

=============================================================================
