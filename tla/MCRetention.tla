---------------------------- MODULE MCRetention ----------------------------
(* Two operators prune while artifacts and backups are written. *)
EXTENDS Retention
=============================================================================
