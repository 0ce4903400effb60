---------------------------- MODULE Migrations ----------------------------
(***************************************************************************)
(* database.py: what Repository.open does to the schema.  Every process    *)
(* that opens the database reads the migration history once, outside any   *)
(* transaction, and then applies what its own release knows beyond that,   *)
(* one transaction per migration.  Several processes may do so together.   *)
(***************************************************************************)
EXTENDS Integers, FiniteSets, FiniteSetsExt

CONSTANT Openers       \* processes that open the database

VARIABLES history,     \* versions recorded in schema_migrations
          created,     \* versions whose tables and indexes exist
          opener       \* per process: progress of Repository.open

Closed == [st |-> "closed", seen |-> {}, release |-> 0]

(* open_database: file and pragmas; the release is the code the process runs. *)
OpenDatabase(p, release) ==
    /\ opener[p].st = "closed"
    /\ opener' = [opener EXCEPT ![p] = [st |-> "opened", seen |-> {}, release |-> release]]
    /\ UNCHANGED <<history, created>>

(* migrate up to its loop: _bootstrap_history and the SELECT, then the     *)
(* refusal of a history that this release does not know.                   *)
ReadHistory(p) ==
    /\ opener[p].st = "opened"
    /\ LET known == 1..opener[p].release
           legal == history \subseteq known /\ history = 1..Cardinality(history)
       IN  opener' = [opener EXCEPT ![p].st = IF legal THEN "migrating" ELSE "failed",
                                    ![p].seen = history]
    /\ UNCHANGED <<history, created>>

Missing(p) == (1..opener[p].release) \ opener[p].seen

(* _apply_one without its COMMIT. *)
ApplyOne_nocommit(p) ==
    /\ opener[p].st = "migrating" /\ Missing(p) # {}
    /\ opener' = [opener EXCEPT ![p].seen = @ \union {Min(Missing(p))}]
    /\ UNCHANGED <<history, created>>

(* _apply_one for the next version the process did not see.  Its CREATE    *)
(* statements and its history row collide with those of a process that was *)
(* faster: everything is rolled back and the open fails.                   *)
ApplyOne(p) ==
    /\ opener[p].st = "migrating" /\ Missing(p) # {}
    /\ LET version == Min(Missing(p))
       IN  IF version \in history \union created
             THEN /\ opener' = [opener EXCEPT ![p].st = "failed"]
                  /\ UNCHANGED <<history, created>>
             ELSE /\ history' = history \union {version}
                  /\ created' = created \union {version}
                  /\ opener' = [opener EXCEPT ![p].seen = @ \union {version}]

(* migrate returns: every version of this release is in place. *)
Migrated(p) ==
    /\ opener[p].st = "migrating" /\ Missing(p) = {}
    /\ opener' = [opener EXCEPT ![p].st = "open"]
    /\ UNCHANGED <<history, created>>

OpenStep(p) == ReadHistory(p) \/ ApplyOne(p) \/ Migrated(p)
=============================================================================
