---------------------- MODULE MCCollectorOrchestrator ----------------------
(* One cycle; a target may span two approved ranges without lying in either. *)
EXTENDS CollectorOrchestrator

MCAddresses == 1 .. 3
MCApprovedRanges == {{1, 2}, {3}}
MCTargets == {{1}, {2, 3}}
=============================================================================
