----------------------------- MODULE MCNmapScan -----------------------------
(* Operators who launch the scan at the same time. *)
EXTENDS NmapScan
=============================================================================
