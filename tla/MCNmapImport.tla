---------------------------- MODULE MCNmapImport ----------------------------
(* Two files: one is finished by a first scan and rewritten by a second, one stays
   unfinished. *)
EXTENDS NmapImport

MCStages == <<<<"incomplete", "complete", "complete">>, <<"unfinished">>>>
MCOneStage == <<<<"complete">>>>
=============================================================================
