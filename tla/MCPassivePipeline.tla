------------------------- MODULE MCPassivePipeline -------------------------
(* Two facts; a frame with a repeated fact, one with a malformed item, one of each fact. *)
EXTENDS PassivePipeline

CONSTANTS f1, f2

MCFacts == {f1, f2}
MCFrames == {<<f1, f1>>, <<Malformed, f2>>}
=============================================================================
