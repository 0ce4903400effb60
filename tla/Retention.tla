----------------------------- MODULE Retention -----------------------------
(***************************************************************************)
(* What lives under the data root and expires: artifacts (artifacts.py),   *)
(* each a content file with a metadata file beside it, and database        *)
(* backups (repository.py).  "db prune --apply" (cli.py, storage.py)       *)
(* deletes both while collectors write artifacts and the timer makes       *)
(* backups.  Every step is one file operation that others can observe, and *)
(* every process can be lost between two of them.                          *)
(*                                                                         *)
(* An artifact's name holds a digest of its time, a backup's its time, so  *)
(* no name is used twice.  A prune without --apply changes nothing.        *)
(***************************************************************************)
EXTENDS Integers, FiniteSets

CONSTANTS
    NumArtifacts,   \* artifacts collectors may write, in name order
    Backups,        \* backups the timer may make
    Pruners,        \* processes that run "db prune --apply"
    DetailedDays,   \* retention.detailed_days, the life of an artifact
    BackupDays,     \* retention.backup_days
    MaxTime,        \* bound on the clock
    MaxFaults       \* bound on lost processes and failing operations

Artifacts == 1 .. NumArtifacts

ASSUME RetentionAssumption ==
    /\ NumArtifacts \in Nat
    /\ DetailedDays \in Nat \ {0} /\ BackupDays \in Nat \ {0}
    /\ MaxTime \in Nat /\ MaxFaults \in Nat

VARIABLES
    now,
    writer,   \* where the write of each artifact is
    meta,     \* expires_at in each metadata file, 0 when there is none
    content,  \* artifacts whose content file exists
    backup,   \* state and mtime of each backup file
    pruner,   \* where each prune is
    faults

vars == <<now, writer, meta, content, backup, pruner, faults>>

(* No prune under way. *)
NoPrune == [at |-> "idle", now |-> 0, plan |-> {}, todo |-> {}, current |-> 0]

Init ==
    /\ now = 0
    /\ writer = [a \in Artifacts |-> "idle"]
    /\ meta = [a \in Artifacts |-> 0]
    /\ content = {}
    /\ backup = [b \in Backups |-> [state |-> "new", mtime |-> 0]]
    /\ pruner = [p \in Pruners |-> NoPrune]
    /\ faults = 0

(* Neither a write nor a copy takes a retention period. *)
Tick ==
    /\ now < MaxTime
    /\ \A a \in Artifacts : writer[a] = "metadata" => now + 1 < meta[a]
    /\ \A b \in Backups : backup[b].state = "copying" => now < backup[b].mtime + BackupDays
    /\ now' = now + 1
    /\ UNCHANGED <<writer, meta, content, backup, pruner, faults>>

Fault == faults < MaxFaults /\ faults' = faults + 1

(***************************************************************************)
(* ArtifactStore._write: metadata first, then content.                     *)
(***************************************************************************)
PublishMetadata(a) ==
    /\ writer[a] = "idle"
    /\ writer' = [writer EXCEPT ![a] = "metadata"]
    /\ meta' = [meta EXCEPT ![a] = now + DetailedDays]
    /\ UNCHANGED <<now, content, backup, pruner, faults>>

PublishContent(a) ==
    /\ writer[a] = "metadata"
    /\ writer' = [writer EXCEPT ![a] = "done"]
    /\ content' = content \cup {a}
    /\ UNCHANGED <<now, meta, backup, pruner, faults>>

(* Publishing the content raises: the metadata is taken back.  _publish may raise before
   its os.link, or after it, when its finally closes and unlinks the staging file: the
   content is then stranded, published and without metadata. *)
ContentFails(a) ==
    /\ writer[a] = "metadata" /\ Fault
    /\ \/ writer' = [writer EXCEPT ![a] = "failed"] /\ UNCHANGED content
       \/ writer' = [writer EXCEPT ![a] = "stranded"] /\ content' = content \cup {a}
    /\ meta' = [meta EXCEPT ![a] = 0]
    /\ UNCHANGED <<now, backup, pruner>>

(* The writer ends with its metadata published and no content: it is killed or
   interrupted, which no except clause sees, or _publish raises in its finally after it
   has linked the metadata, or the unlink that takes the metadata back raises. *)
LoseWriter(a) ==
    /\ writer[a] = "metadata" /\ Fault
    /\ writer' = [writer EXCEPT ![a] = "lost"]
    /\ UNCHANGED <<now, meta, content, backup, pruner>>

(***************************************************************************)
(* Repository.backup.                                                      *)
(***************************************************************************)
SetBackup(b, state) == backup' = [backup EXCEPT ![b] = [state |-> state, mtime |-> now]]

CreateBackup(b) ==
    /\ backup[b].state = "new"
    /\ SetBackup(b, "copying")
    /\ UNCHANGED <<now, writer, meta, content, pruner, faults>>

(* Copied, verified and committed. *)
CompleteBackup(b) ==
    /\ backup[b].state = "copying"
    /\ SetBackup(b, "whole")
    /\ UNCHANGED <<now, writer, meta, content, pruner, faults>>

(* The copy raises and the file is removed, or the process is lost and it stays, last
   written when it was created or now. *)
BreakBackup(b) ==
    /\ backup[b].state = "copying" /\ Fault
    /\ \/ SetBackup(b, "gone")
       \/ SetBackup(b, "broken")
       \/ backup' = [backup EXCEPT ![b].state = "broken"]
    /\ UNCHANGED <<now, writer, meta, content, pruner>>

(***************************************************************************)
(* "db prune --apply".  An operation that meets a file another process has *)
(* removed raises, and the command ends there.                             *)
(***************************************************************************)
Set(p, record) == pruner' = [pruner EXCEPT ![p] = record]
Goto(p, place) == Set(p, [pruner[p] EXCEPT !.at = place])

(* The command reports an error. *)
Raise(p) == Set(p, NoPrune)

Over == {"idle", "done"}

Exists(b) == backup[b].state \in {"copying", "whole", "broken"}

(* BackupPruner.plan: the identity of each backup older than the cutoff. *)
Plan == {[backup |-> b, mtime |-> backup[b].mtime] :
            b \in {c \in Backups : Exists(c) /\ backup[c].mtime < now - BackupDays}}

StartPrune(p) ==
    /\ pruner[p].at \in Over
    /\ Set(p, [at |-> "planned", now |-> now, plan |-> Plan, todo |-> {}, current |-> 0])
    /\ UNCHANGED <<now, writer, meta, content, backup, faults>>

(* Mutant: every artifact with metadata is taken for expired. *)
Expired_all(time) == {a \in Artifacts : meta[a] # 0}

(* ArtifactStore.expired. *)
Expired(time) == {a \in Artifacts : meta[a] # 0 /\ meta[a] <= time}

(* Mutant: the preview insists on the content of every expired artifact. *)
Preview_strict(p) ==
    /\ pruner[p].at = "planned"
    /\ \/ Expired(pruner[p].now) \subseteq content /\ Goto(p, "checking")
       \/ ~(Expired(pruner[p].now) \subseteq content) /\ Raise(p)
    /\ UNCHANGED <<now, writer, meta, content, backup, faults>>

(* The dry run over the artifact tree reads the metadata files and no more; then
   Repository.prune deletes rows, in one transaction and before any file. *)
Preview(p) ==
    /\ pruner[p].at = "planned"
    /\ Goto(p, "checking")
    /\ UNCHANGED <<now, writer, meta, content, backup, faults>>

(* BackupPruner.apply, first loop: every planned file is still what it was. *)
CheckBackups(p) ==
    /\ pruner[p].at = "checking"
    /\ LET same == \A f \in pruner[p].plan :
                       Exists(f.backup) /\ backup[f.backup].mtime = f.mtime
       IN  \/ same /\ Goto(p, "unlinking")
           \/ ~same /\ Raise(p)
    /\ UNCHANGED <<now, writer, meta, content, backup, faults>>

(* Second loop: unlink one planned file. *)
UnlinkBackup(p) ==
    /\ pruner[p].at = "unlinking"
    /\ \E f \in pruner[p].plan :
          \/ /\ Exists(f.backup)
             /\ backup' = [backup EXCEPT ![f.backup].state = "gone"]
             /\ Set(p, [pruner[p] EXCEPT !.plan = @ \ {f}])
          \/ ~Exists(f.backup) /\ Raise(p) /\ UNCHANGED backup
    /\ UNCHANGED <<now, writer, meta, content, faults>>

(* prune_expired lists what has expired. *)
ListExpired(p) ==
    /\ pruner[p].at = "unlinking" /\ pruner[p].plan = {}
    /\ Set(p, [pruner[p] EXCEPT !.at = "choosing", !.todo = Expired(pruner[p].now)])
    /\ UNCHANGED <<now, writer, meta, content, backup, faults>>

(* Mutant: an artifact whose content is missing is passed over. *)
CheckArtifact_lenient(p) ==
    /\ pruner[p].at = "choosing"
    /\ \E a \in pruner[p].todo :
          /\ \A q \in pruner[p].todo : a <= q
          /\ Set(p, IF a \in content /\ meta[a] # 0
                      THEN [pruner[p] EXCEPT !.at = "checked", !.current = a]
                      ELSE [pruner[p] EXCEPT !.todo = @ \ {a}])
    /\ UNCHANGED <<now, writer, meta, content, backup, faults>>

(* The next artifact: both files must be there. *)
CheckArtifact(p) ==
    /\ pruner[p].at = "choosing"
    /\ \E a \in pruner[p].todo :
          /\ \A q \in pruner[p].todo : a <= q
          /\ \/ /\ a \in content /\ meta[a] # 0
                /\ Set(p, [pruner[p] EXCEPT !.at = "checked", !.current = a])
             \/ ~(a \in content /\ meta[a] # 0) /\ Raise(p)
    /\ UNCHANGED <<now, writer, meta, content, backup, faults>>

(* Mutant: the metadata goes first. *)
UnlinkContent_reversed(p) ==
    /\ pruner[p].at = "checked" /\ meta[pruner[p].current] # 0
    /\ meta' = [meta EXCEPT ![pruner[p].current] = 0]
    /\ Goto(p, "half")
    /\ UNCHANGED <<now, writer, content, backup, faults>>

UnlinkContent(p) ==
    /\ pruner[p].at = "checked"
    /\ \/ /\ pruner[p].current \in content
          /\ content' = content \ {pruner[p].current}
          /\ Goto(p, "half")
       \/ pruner[p].current \notin content /\ Raise(p) /\ UNCHANGED content
    /\ UNCHANGED <<now, writer, meta, backup, faults>>

(* Whoever removed the content finds the metadata: everyone else raises before. *)
UnlinkMetadata(p) ==
    /\ pruner[p].at = "half"
    /\ meta' = [meta EXCEPT ![pruner[p].current] = 0]
    /\ Set(p, [pruner[p] EXCEPT !.at = "choosing", !.todo = @ \ {pruner[p].current}, !.current = 0])
    /\ UNCHANGED <<now, writer, content, backup, faults>>

EndPrune(p) ==
    /\ pruner[p].at = "choosing" /\ pruner[p].todo = {}
    /\ Goto(p, "done")
    /\ UNCHANGED <<now, writer, meta, content, backup, faults>>

(* A listing, the transaction or an unlink raises, or the process is lost. *)
PruneFails(p) ==
    /\ pruner[p].at \notin Over /\ Fault
    /\ Raise(p)
    /\ UNCHANGED <<now, writer, meta, content, backup>>

WriteStep(a) == PublishMetadata(a) \/ PublishContent(a) \/ ContentFails(a) \/ LoseWriter(a)
BackupStep(b) == CreateBackup(b) \/ CompleteBackup(b) \/ BreakBackup(b)
PruneStep(p) ==
    \/ Preview(p) \/ CheckBackups(p) \/ UnlinkBackup(p) \/ ListExpired(p)
    \/ CheckArtifact(p) \/ UnlinkContent(p) \/ UnlinkMetadata(p) \/ EndPrune(p)

Next == \/ Tick
        \/ \E a \in Artifacts : WriteStep(a)
        \/ \E b \in Backups : BackupStep(b)
        \/ \E p \in Pruners : StartPrune(p) \/ PruneStep(p) \/ PruneFails(p)

Spec == Init /\ [][Next]_vars

(* The operator prunes again and again, and a prune that is not lost goes on. *)
FairSpec == Spec /\ \A p \in Pruners : WF_vars(StartPrune(p)) /\ WF_vars(PruneStep(p))

-----------------------------------------------------------------------------
(* Every variable has its type, and a prune between two artifacts holds none. *)
TypeOK ==
    /\ now \in 0 .. MaxTime
    /\ writer \in [Artifacts -> {"idle", "metadata", "done", "failed", "stranded", "lost"}]
    /\ meta \in [Artifacts -> 0 .. MaxTime + DetailedDays]
    /\ content \subseteq Artifacts
    /\ backup \in [Backups -> [state : {"new", "copying", "whole", "broken", "gone"},
                               mtime : 0 .. MaxTime]]
    /\ pruner \in [Pruners ->
          [at : Over \cup {"planned", "checking", "unlinking", "choosing",
                           "checked", "half"},
           now : 0 .. MaxTime, plan : SUBSET [backup : Backups, mtime : 0 .. MaxTime],
           todo : SUBSET Artifacts, current : Artifacts \cup {0}]]
    /\ \A p \in Pruners : pruner[p].at \notin {"checked", "half"} => pruner[p].current = 0
    /\ faults \in 0 .. MaxFaults

(* Retention finds artifacts by their metadata.  The only content without is that of a
   write that raised once its content was linked: none is left by a write that fails
   earlier or is lost, nor by prunes that overlap or are lost midway. *)
ContentHasMetadata == \A a \in content : meta[a] = 0 <=> writer[a] = "stranded"

(* No content disappears before it has expired, or without metadata that says so, and no
   whole backup before its days are over, whatever the plan was made of. *)
NoEarlyDeletion ==
    [][/\ \A a \in content \ content' : meta[a] # 0 /\ meta[a] <= now
       /\ \A b \in Backups : backup[b].state = "whole" /\ backup'[b].state = "gone" =>
             backup[b].mtime < now - BackupDays]_vars

(* A prune that reports success has left nothing that was due when it began. *)
SuccessIsComplete ==
    \A p \in Pruners : pruner[p].at = "done" =>
        /\ Expired(pruner[p].now) = {}
        /\ \A b \in Backups : Exists(b) => backup[b].mtime >= pruner[p].now - BackupDays

(* Metadata that a lost or failing writer or a lost prune left without its content. *)
Orphan(a) ==
    /\ meta[a] # 0 /\ a \notin content /\ writer[a] # "metadata"
    /\ \A p \in Pruners : ~(pruner[p].at = "half" /\ pruner[p].current = a)

(* Repeated prunes delete every backup that is due, and every artifact whose metadata is
   due unless metadata without content comes before it in name order: there prune_expired
   raises, every time, and goes no further. *)
RetentionProgress ==
    /\ \A b \in Backups :
          (Exists(b) /\ backup[b].mtime < now - BackupDays) ~> backup[b].state = "gone"
    /\ \A a \in Artifacts :
          [](\A q \in 1 .. a : ~Orphan(q)) =>
              (a \in content /\ meta[a] # 0 /\ meta[a] <= now) ~> (a \notin content)
=============================================================================
