----------------------- MODULE MCProtocolCollectors -----------------------
(* Targets with up to three rows behind each of two reads, just above every *)
(* ceiling, so that each is missed, met and exceeded.                       *)
EXTENDS ProtocolCollectors
=============================================================================
