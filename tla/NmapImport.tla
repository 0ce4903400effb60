----------------------------- MODULE NmapImport -----------------------------
(***************************************************************************)
(* import_nmap_artifacts and _persist (nmap_import.py): passes that read   *)
(* the protected result tree while the scan script still writes it, next   *)
(* to other passes (the timer's and the operator's) and to the retention   *)
(* command that deletes rows of the artifacts table.                       *)
(*                                                                         *)
(* A file grows in place, so its content is the number of writes it has    *)
(* had, a digest identifies the content, and reading it to the end returns *)
(* the content at that moment.  Stages says what parse_nmap_xml makes of   *)
(* each content.                                                           *)
(***************************************************************************)
EXTENDS Integers, Sequences, FiniteSets

CONSTANTS
    NumPaths,    \* files the scan script may write, in name order
    Stages,      \* per path, the kind of XML each successive content is
    Importers,   \* processes that run "import nmap"
    Stability,   \* --stability-seconds
    Retention,   \* retention.artifact_days
    MaxTime,     \* bound on the clock
    MaxFaults    \* bound on killed passes and failed transactions

Paths == 1 .. NumPaths

\* "incomplete": no element found or unclosed token; "malformed": any other XML error;
\* "unfinished": neither a finish time nor an exit status
Kinds == {"incomplete", "malformed", "unfinished", "complete"}

ASSUME ImportAssumption ==
    /\ NumPaths \in Nat
    /\ Stages \in [Paths -> Seq(Kinds)]
    /\ Stability \in Nat /\ Retention \in Nat
    /\ MaxTime \in Nat /\ MaxFaults \in Nat

VARIABLES
    now,        \* the clock
    writes,     \* when each path was written, oldest first
    pass,       \* the state of each importer's pass
    artifacts,  \* rows of the artifacts table
    imports,    \* how often each path and digest was imported
    prunes,     \* how often its row was deleted by retention
    faults

vars == <<now, writes, pass, artifacts, imports, prunes, faults>>

Content(p) == Len(writes[p])
Mtime(p) == writes[p][Content(p)]
Kind(p) == Stages[p][Content(p)]

Digests == UNION {{p} \X (1 .. Len(Stages[p])) : p \in Paths}

(* No pass under way. *)
NoPass == [at |-> "idle", todo |-> {}, current |-> 0, path |-> 0, before |-> 0,
           digest |-> 0, scan |-> 0]

Init ==
    /\ now = 0
    /\ writes = [p \in Paths |-> <<>>]
    /\ pass = [i \in Importers |-> NoPass]
    /\ artifacts = {}
    /\ imports = [d \in Digests |-> 0]
    /\ prunes = [d \in Digests |-> 0]
    /\ faults = 0

(***************************************************************************)
(* The environment.                                                        *)
(***************************************************************************)
Tick ==
    /\ now < MaxTime
    /\ now' = now + 1
    /\ UNCHANGED <<writes, pass, artifacts, imports, prunes, faults>>

(* The scan script writes; the bound leaves time for the last write to settle. *)
Write(p) ==
    /\ Content(p) < Len(Stages[p]) /\ now + Stability <= MaxTime
    /\ writes' = [writes EXCEPT ![p] = Append(@, now)]
    /\ UNCHANGED <<now, pass, artifacts, imports, prunes, faults>>

(* Repository.prune: artifact rows older than the cutoff; the files stay. *)
Prune ==
    /\ \E a \in artifacts : a.imported_at < now - Retention
    /\ artifacts' = {a \in artifacts : a.imported_at >= now - Retention}
    /\ prunes' = [d \in Digests |->
          prunes[d] + Cardinality({a \in artifacts \ artifacts' : <<a.path, a.digest>> = d})]
    /\ UNCHANGED <<now, writes, pass, imports, faults>>

(***************************************************************************)
(* A pass.                                                                 *)
(***************************************************************************)
Set(i, record) == pass' = [pass EXCEPT ![i] = record]

(* The loop's "continue", or an issue: on to the next candidate. *)
Skip(i) == Set(i, [pass[i] EXCEPT !.at = "choosing", !.path = 0, !.before = 0, !.digest = 0,
                                  !.scan = 0])

(* current_time is read once; _discover lists the files that exist. *)
StartPass(i) ==
    /\ pass[i].at = "idle"
    /\ Set(i, [NoPass EXCEPT !.at = "choosing", !.current = now,
                             !.todo = {p \in Paths : Content(p) > 0}])
    /\ UNCHANGED <<now, writes, artifacts, imports, prunes, faults>>

(* Open and fstat the next file; one modified too recently is deferred. *)
OpenCandidate(i) ==
    /\ pass[i].at = "choosing"
    /\ \E p \in pass[i].todo :
          /\ \A q \in pass[i].todo : p <= q
          /\ \/ /\ pass[i].current - Mtime(p) < Stability
                /\ Set(i, [pass[i] EXCEPT !.todo = @ \ {p}])
             \/ /\ pass[i].current - Mtime(p) >= Stability
                /\ Set(i, [pass[i] EXCEPT !.todo = @ \ {p}, !.at = "reading", !.path = p,
                                          !.before = Mtime(p)])
    /\ UNCHANGED <<now, writes, artifacts, imports, prunes, faults>>

(* Mutant: a path is imported once, whatever it holds later. *)
Known_path(p, d) == \E a \in artifacts : a.path = p

Known(p, d) == \E a \in artifacts : a.path = p /\ a.digest = d

(* Hash the file; a path and digest already imported is skipped. *)
ReadDigest(i) ==
    /\ pass[i].at = "reading"
    /\ LET p == pass[i].path
       IN  \/ Known(p, Content(p)) /\ Skip(i)
           \/ /\ ~Known(p, Content(p))
              /\ Set(i, [pass[i] EXCEPT !.at = "parsing", !.digest = Content(p)])
    /\ UNCHANGED <<now, writes, artifacts, imports, prunes, faults>>

(* parse_nmap_xml: incomplete XML is deferred, malformed XML is an issue. *)
Parse(i) ==
    /\ pass[i].at = "parsing"
    /\ LET p == pass[i].path
       IN  \/ Kind(p) \in {"incomplete", "malformed"} /\ Skip(i)
           \/ /\ Kind(p) \in {"unfinished", "complete"}
              /\ Set(i, [pass[i] EXCEPT !.at = "verifying", !.scan = Content(p)])
    /\ UNCHANGED <<now, writes, artifacts, imports, prunes, faults>>

Finished(i) == Stages[pass[i].path][pass[i].scan] = "complete"

(* Mutant: the file is not read again. *)
Verify_trusting(i) ==
    /\ pass[i].at = "verifying"
    /\ \/ Finished(i) /\ Set(i, [pass[i] EXCEPT !.at = "persisting"])
       \/ ~Finished(i) /\ Skip(i)
    /\ UNCHANGED <<now, writes, artifacts, imports, prunes, faults>>

(* Hash and fstat again: a file that changed since it was opened is deferred, and so is
   an unfinished scan.  Contents that differ in size differ in digest. *)
Verify(i) ==
    /\ pass[i].at = "verifying"
    /\ LET p == pass[i].path
           same == Content(p) = pass[i].digest /\ Mtime(p) = pass[i].before
       IN  \/ same /\ Finished(i) /\ Set(i, [pass[i] EXCEPT !.at = "persisting"])
           \/ ~(same /\ Finished(i)) /\ Skip(i)
    /\ UNCHANGED <<now, writes, artifacts, imports, prunes, faults>>

Row(i) == [path |-> pass[i].path, digest |-> pass[i].digest, scan |-> pass[i].scan,
           imported_at |-> pass[i].current]

(* _persist: one transaction inserts the inventory and the artifact row, unless another
   pass got there first. *)
Persist(i) ==
    /\ pass[i].at = "persisting"
    /\ Skip(i)
    /\ \/ /\ Known(pass[i].path, pass[i].digest)
          /\ UNCHANGED <<artifacts, imports>>
       \/ /\ ~Known(pass[i].path, pass[i].digest)
          /\ artifacts' = artifacts \cup {Row(i)}
          /\ imports' = [imports EXCEPT ![<<pass[i].path, pass[i].digest>>] = @ + 1]
    /\ UNCHANGED <<now, writes, prunes, faults>>

(* The transaction fails and rolls back: an issue of this file alone. *)
PersistFails(i) ==
    /\ pass[i].at = "persisting" /\ faults < MaxFaults
    /\ Skip(i)
    /\ faults' = faults + 1
    /\ UNCHANGED <<now, writes, artifacts, imports, prunes>>

(* No candidate is left. *)
EndPass(i) ==
    /\ pass[i].at = "choosing" /\ pass[i].todo = {}
    /\ Set(i, NoPass)
    /\ UNCHANGED <<now, writes, artifacts, imports, prunes, faults>>

(* The process dies (TimeoutStartSec, a reboot); an open transaction rolls back. *)
Kill(i) ==
    /\ pass[i].at # "idle" /\ faults < MaxFaults
    /\ Set(i, NoPass)
    /\ faults' = faults + 1
    /\ UNCHANGED <<now, writes, artifacts, imports, prunes>>

Step(i) == OpenCandidate(i) \/ ReadDigest(i) \/ Parse(i) \/ Verify(i) \/ Persist(i) \/ EndPass(i)

Next == \/ Tick \/ Prune
        \/ \E p \in Paths : Write(p)
        \/ \E i \in Importers : StartPass(i) \/ Step(i) \/ PersistFails(i) \/ Kill(i)

Spec == Init /\ [][Next]_vars

(* Time passes, the scan script finishes its files, and the timer starts a pass again
   and again, which runs on unless it is killed. *)
Fairness == /\ WF_vars(Tick)
            /\ \A p \in Paths : WF_vars(Write(p))
            /\ \A i \in Importers : WF_vars(StartPass(i)) /\ WF_vars(Step(i))

FairSpec == Spec /\ Fairness

-----------------------------------------------------------------------------
(* Every variable has its type, and a pass between two files remembers nothing of either. *)
TypeOK ==
    /\ now \in 0 .. MaxTime
    /\ writes \in [Paths -> Seq(0 .. MaxTime)]
    /\ pass \in [Importers ->
          [at : {"idle", "choosing", "reading", "parsing", "verifying", "persisting"},
           todo : SUBSET Paths, current : 0 .. MaxTime, path : Paths \cup {0},
           before : 0 .. MaxTime, digest : Nat, scan : Nat]]
    /\ \A i \in Importers : pass[i].at \in {"idle", "choosing"} =>
          pass[i].path = 0 /\ pass[i].digest = 0 /\ pass[i].scan = 0
    /\ artifacts \subseteq [path : Paths, digest : Nat, scan : Nat, imported_at : 0 .. MaxTime]
    /\ imports \in [Digests -> Nat] /\ prunes \in [Digests -> Nat]
    /\ faults \in 0 .. MaxFaults

(* What a row of the artifacts table says was imported is what was parsed, and is a
   finished scan, although the file is hashed and parsed in two reads while it grows. *)
ImportsWhole ==
    \A a \in artifacts : a.scan = a.digest /\ Stages[a.path][a.digest] = "complete"

(* The imported content had been left alone for the stability period when the pass that
   imported it began. *)
ImportsSettled ==
    \A a \in artifacts : a.imported_at - writes[a.path][a.digest] >= Stability

(* Every import of a path and digest is one row of the artifacts table, or one that
   retention has deleted since: passes that overlap, are killed or fail in between never
   import what the table already holds. *)
OneImportPerRow ==
    \A d \in Digests :
        imports[d] = prunes[d] + Cardinality({a \in artifacts : <<a.path, a.digest>> = d})

(* What the importer leaves in the database, whatever overlaps, is killed or fails: rows
   of whole and settled scans, each imported once for as long as its row exists. *)
ImportsSound == TypeOK /\ ImportsWhole /\ ImportsSettled /\ OneImportPerRow

(* README: "Each path/digest pair imports once". *)
ImportedOnce == \A d \in Digests : imports[d] <= 1

(* A scan the script finished is imported in the end: deferral, an overlapping pass, a
   killed pass or a failed transaction never loses it. *)
FinishedScansImported ==
    \A p \in Paths :
        (Content(p) = Len(Stages[p]) /\ Content(p) > 0 /\ Kind(p) = "complete")
            ~> (Content(p) > 0 /\ imports[<<p, Content(p)>>] > 0)
=============================================================================
