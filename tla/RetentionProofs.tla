-------------------------- MODULE RetentionProofs --------------------------
(***************************************************************************)
(* Safety of retention, for any number of artifacts, backups, prunes and   *)
(* faults.                                                                 *)
(***************************************************************************)
EXTENDS Retention, TLAPS

(* How the files of an artifact follow its writer. *)
WriterInv ==
    \A a \in Artifacts :
        /\ writer[a] = "idle" => meta[a] = 0
        /\ writer[a] = "metadata" => meta[a] # 0
        /\ a \in content => writer[a] \in {"done", "stranded"}

(* What a prune holds was written and is due, and nobody writes it again. *)
PruneInv ==
    \A p \in Pruners :
        /\ pruner[p].now <= now
        /\ \A a \in pruner[p].todo : writer[a] # "idle" /\ meta[a] <= now
        /\ pruner[p].at \in {"checked", "half"} =>
              /\ pruner[p].current \in pruner[p].todo
              /\ writer[pruner[p].current] = "done"
        /\ pruner[p].at = "half" => pruner[p].current \notin content

(* A planned backup is past its days and no longer being written. *)
PlanInv ==
    /\ \A b \in Backups : backup[b].state = "copying" => now <= backup[b].mtime + BackupDays
    /\ \A p \in Pruners : \A f \in pruner[p].plan :
          /\ backup[f.backup].state \in {"whole", "broken", "gone"}
          /\ backup[f.backup].mtime < now - BackupDays

RetentionInv == TypeOK /\ WriterInv /\ PruneInv /\ PlanInv /\ ContentHasMetadata

(* Nothing exists and nobody prunes. *)
LEMMA RetentionInit == Init => RetentionInv
  BY RetentionAssumption DEF Init, RetentionInv, TypeOK, WriterInv, PruneInv, PlanInv, ContentHasMetadata,
         NoPrune, Over

(* The clock only makes more things due. *)
LEMMA TickStep == ASSUME RetentionInv, Tick PROVE RetentionInv'
  <1> USE RetentionAssumption
  <1>1. TypeOK'
    BY DEF RetentionInv, TypeOK, Tick
  <1>2. WriterInv' /\ ContentHasMetadata'
    BY DEF RetentionInv, WriterInv, ContentHasMetadata, Tick
  <1>3. PruneInv'
    BY DEF RetentionInv, TypeOK, PruneInv, Tick
  <1>4. PlanInv'
    BY DEF RetentionInv, TypeOK, PlanInv, Tick
  <1> QED BY <1>1, <1>2, <1>3, <1>4 DEF RetentionInv

(* A writer touches only its own artifact, which no prune holds yet. *)
LEMMA WriteStepKeeps ==
  ASSUME RetentionInv, NEW a \in Artifacts, WriteStep(a)
  PROVE  RetentionInv'
  <1> USE RetentionAssumption
  <1>0. /\ UNCHANGED <<now, backup, pruner>>
        /\ writer[a] \in {"idle", "metadata"}
        /\ \A q \in Artifacts : q # a => /\ writer'[q] = writer[q] /\ meta'[q] = meta[q]
                                         /\ (q \in content') = (q \in content)
    BY DEF WriteStep, PublishMetadata, PublishContent, ContentFails, LoseWriter, RetentionInv,
           TypeOK
  <1>1. TypeOK'
    <2>1. CASE PublishMetadata(a)
      BY <2>1 DEF PublishMetadata, RetentionInv, TypeOK
    <2>2. CASE PublishContent(a)
      BY <2>2 DEF PublishContent, RetentionInv, TypeOK
    <2>3. CASE ContentFails(a)
      BY <2>3 DEF ContentFails, Fault, RetentionInv, TypeOK
    <2>4. CASE LoseWriter(a)
      BY <2>4 DEF LoseWriter, Fault, RetentionInv, TypeOK
    <2> QED BY <2>1, <2>2, <2>3, <2>4 DEF WriteStep
  <1>2. /\ writer'[a] = "idle" => meta'[a] = 0
        /\ writer'[a] = "metadata" => meta'[a] # 0
        /\ a \in content' => \/ writer'[a] = "done" /\ meta'[a] # 0
                             \/ writer'[a] = "stranded" /\ meta'[a] = 0
        /\ writer'[a] # "idle"
        /\ writer[a] # "idle" => meta'[a] = meta[a] \/ meta'[a] = 0
    BY DEF WriteStep, PublishMetadata, PublishContent, ContentFails, LoseWriter, RetentionInv,
           TypeOK, WriterInv
  <1>3. WriterInv' /\ ContentHasMetadata'
    <2>1. content' \subseteq Artifacts
      BY <1>1 DEF TypeOK
    <2> QED BY <1>0, <1>2, <2>1 DEF RetentionInv, WriterInv, ContentHasMetadata
  <1>4. PruneInv'
    <2>1. \A p \in Pruners : pruner[p].todo \subseteq Artifacts
      BY DEF RetentionInv, TypeOK
    <2>2. now \in Nat
      BY DEF RetentionInv, TypeOK
    <2> QED BY <1>0, <1>2, <2>1, <2>2 DEF RetentionInv, PruneInv
  <1>5. PlanInv'
    BY <1>0 DEF RetentionInv, PlanInv
  <1> QED BY <1>1, <1>3, <1>4, <1>5 DEF RetentionInv

(* A backup that is still being written is in no plan. *)
LEMMA BackupStepKeeps ==
  ASSUME RetentionInv, NEW b \in Backups, BackupStep(b)
  PROVE  RetentionInv'
  <1> USE RetentionAssumption
  <1>0. UNCHANGED <<now, writer, meta, content, pruner>>
    BY DEF BackupStep, CreateBackup, CompleteBackup, BreakBackup
  <1>1. /\ backup[b].state \in {"new", "copying"}
        /\ \A c \in Backups : c # b => backup'[c] = backup[c]
        /\ backup'[b].state = "copying" => backup'[b].mtime = now
    BY DEF BackupStep, CreateBackup, CompleteBackup, BreakBackup, SetBackup, RetentionInv, TypeOK
  <1>2. TypeOK'
    <2>1. CASE CreateBackup(b)
      BY <2>1 DEF CreateBackup, SetBackup, RetentionInv, TypeOK
    <2>2. CASE CompleteBackup(b)
      BY <2>2 DEF CompleteBackup, SetBackup, RetentionInv, TypeOK
    <2>3. CASE BreakBackup(b) /\ (SetBackup(b, "gone") \/ SetBackup(b, "broken"))
      BY <2>3 DEF BreakBackup, SetBackup, Fault, RetentionInv, TypeOK
    <2>4. CASE BreakBackup(b) /\ backup' = [backup EXCEPT ![b].state = "broken"]
      BY <2>4 DEF BreakBackup, Fault, RetentionInv, TypeOK
    <2> QED BY <2>1, <2>2, <2>3, <2>4 DEF BackupStep, BreakBackup
  <1>3. WriterInv' /\ PruneInv' /\ ContentHasMetadata'
    BY <1>0 DEF RetentionInv, WriterInv, PruneInv, ContentHasMetadata
  <1>4. PlanInv'
    <2>1. now \in Nat /\ \A p \in Pruners : \A f \in pruner[p].plan : f.backup \in Backups
      BY DEF RetentionInv, TypeOK
    <2>2. \A p \in Pruners : \A f \in pruner[p].plan : f.backup # b
      BY <1>1 DEF RetentionInv, PlanInv
    <2> QED BY <1>0, <1>1, <2>1, <2>2 DEF RetentionInv, PlanInv
  <1> QED BY <1>2, <1>3, <1>4 DEF RetentionInv

(* A prune that only moves on, to a record that keeps PruneInv and PlanInv. *)
LEMMA PruneMoves ==
  ASSUME RetentionInv, NEW p \in Pruners,
         NEW record \in [at : Over \cup {"planned", "checking", "unlinking", "choosing",
                                          "checked", "half"},
                          now : 0 .. MaxTime,
                          plan : SUBSET [backup : Backups, mtime : 0 .. MaxTime],
                          todo : SUBSET Artifacts, current : Artifacts \cup {0}],
         Set(p, record), UNCHANGED <<now, writer, meta, content, backup>>,
         faults' \in 0 .. MaxFaults,
         record.at \notin {"checked", "half"} => record.current = 0,
         record.now <= now,
         \A a \in record.todo : writer[a] # "idle" /\ meta[a] <= now,
         record.at \in {"checked", "half"} =>
            record.current \in record.todo /\ writer[record.current] = "done",
         record.at = "half" => record.current \notin content,
         \A f \in record.plan : /\ backup[f.backup].state \in {"whole", "broken", "gone"}
                                /\ backup[f.backup].mtime < now - BackupDays
  PROVE  RetentionInv'
  <1>1. pruner'[p] = record /\ \A q \in Pruners : q # p => pruner'[q] = pruner[q]
    BY DEF Set, RetentionInv, TypeOK
  <1>2. TypeOK'
    BY <1>1 DEF Set, RetentionInv, TypeOK
  <1>3. WriterInv' /\ ContentHasMetadata'
    BY DEF RetentionInv, WriterInv, ContentHasMetadata
  <1>4. PruneInv'
    BY <1>1 DEF RetentionInv, PruneInv
  <1>5. PlanInv'
    BY <1>1 DEF RetentionInv, PlanInv
  <1> QED BY <1>2, <1>3, <1>4, <1>5 DEF RetentionInv

(* Raising drops everything the prune held. *)
LEMMA RaiseKeeps ==
  ASSUME RetentionInv, NEW p \in Pruners, Raise(p), faults' \in 0 .. MaxFaults,
         UNCHANGED <<now, writer, meta, content, backup>>
  PROVE  RetentionInv'
  BY PruneMoves, RetentionAssumption DEF Raise, NoPrune, Over, RetentionInv, TypeOK

(* A prune that holds no artifact may go to any place where it still holds none. *)
LEMMA GotoKeeps ==
  ASSUME RetentionInv, NEW p \in Pruners, pruner[p].at \notin {"checked", "half"},
         NEW place \in {"checking", "unlinking", "done"}, Goto(p, place),
         faults' \in 0 .. MaxFaults, UNCHANGED <<now, writer, meta, content, backup>>
  PROVE  RetentionInv'
  <1> DEFINE record == [pruner[p] EXCEPT !.at = place]
  <1>1. /\ record.now = pruner[p].now /\ record.plan = pruner[p].plan
        /\ record.todo = pruner[p].todo /\ record.current = pruner[p].current
        /\ record.at = place /\ Set(p, record)
    BY DEF Goto, RetentionInv, TypeOK
  <1>2. record \in [at : Over \cup {"planned", "checking", "unlinking", "choosing",
                                     "checked", "half"},
                     now : 0 .. MaxTime,
                     plan : SUBSET [backup : Backups, mtime : 0 .. MaxTime],
                     todo : SUBSET Artifacts, current : Artifacts \cup {0}]
    BY DEF RetentionInv, TypeOK, Over
  <1> HIDE DEF record
  <1>3. record.current = 0
    BY <1>1 DEF RetentionInv, TypeOK
  <1> QED BY <1>1, <1>2, <1>3, PruneMoves DEF RetentionInv, PruneInv, PlanInv

(* Every step of a prune. *)
LEMMA PruneStepKeeps ==
  ASSUME RetentionInv, NEW p \in Pruners, StartPrune(p) \/ PruneStep(p) \/ PruneFails(p)
  PROVE  RetentionInv'
  <1> USE RetentionAssumption
  <1> DEFINE old == pruner[p]
             Records == [at : Over \cup {"planned", "checking", "unlinking", "choosing",
                                         "checked", "half"},
                         now : 0 .. MaxTime,
                         plan : SUBSET [backup : Backups, mtime : 0 .. MaxTime],
                         todo : SUBSET Artifacts, current : Artifacts \cup {0}]
  <1>0. /\ old \in Records /\ now \in 0 .. MaxTime /\ faults \in 0 .. MaxFaults
        /\ pruner \in [Pruners -> Records]
    BY DEF RetentionInv, TypeOK
  <1>1. CASE StartPrune(p)
    <2>1. /\ Plan \subseteq [backup : Backups, mtime : 0 .. MaxTime]
          /\ \A f \in Plan : /\ backup[f.backup].state \in {"whole", "broken", "gone"}
                              /\ backup[f.backup].mtime < now - BackupDays
      BY DEF RetentionInv, TypeOK, PlanInv, Plan, Exists
    <2> DEFINE record == [at |-> "planned", now |-> now, plan |-> Plan, todo |-> {},
                          current |-> 0]
    <2>2. record \in Records
      BY <1>0, <2>1
    <2>3. Set(p, record) /\ UNCHANGED <<now, writer, meta, content, backup, faults>>
      BY <1>1 DEF StartPrune
    <2> QED BY <1>0, <2>1, <2>2, <2>3, PruneMoves
  <1>2. CASE Preview(p)
    BY <1>0, <1>2, GotoKeeps DEF Preview
  <1>3. CASE CheckBackups(p)
    BY <1>0, <1>3, GotoKeeps, RaiseKeeps DEF CheckBackups
  <1>4. CASE EndPrune(p)
    BY <1>0, <1>4, GotoKeeps DEF EndPrune
  <1>5. CASE PruneFails(p)
    BY <1>0, <1>5, RaiseKeeps DEF PruneFails, Fault
  <1>6. CASE UnlinkBackup(p)
    <2>1. PICK f \in old.plan :
             \/ /\ backup' = [backup EXCEPT ![f.backup].state = "gone"]
                /\ Set(p, [old EXCEPT !.plan = @ \ {f}])
             \/ Raise(p) /\ UNCHANGED backup
      BY <1>6 DEF UnlinkBackup
    <2>2. UNCHANGED <<now, writer, meta, content, faults>> /\ old.at = "unlinking"
      BY <1>6 DEF UnlinkBackup
    <2>3. CASE Raise(p) /\ UNCHANGED backup
      BY <1>0, <2>2, <2>3, RaiseKeeps
    <2>4. CASE /\ backup' = [backup EXCEPT ![f.backup].state = "gone"]
               /\ Set(p, [old EXCEPT !.plan = @ \ {f}])
      <3>1. f.backup \in Backups
        BY <1>0
      <3>2. /\ backup'[f.backup].state = "gone"
            /\ backup'[f.backup].mtime = backup[f.backup].mtime
            /\ \A b \in Backups : b # f.backup => backup'[b] = backup[b]
        BY <2>4, <3>1 DEF RetentionInv, TypeOK
      <3>3. /\ pruner'[p].at = "unlinking" /\ pruner'[p].now = old.now
            /\ pruner'[p].plan = old.plan \ {f} /\ pruner'[p].todo = old.todo
            /\ pruner'[p].current = old.current
            /\ pruner'[p] \in Records
            /\ \A q \in Pruners : q # p => pruner'[q] = pruner[q]
        BY <1>0, <2>2, <2>4 DEF Set
      <3>4. TypeOK'
        <4>1. backup' \in [Backups -> [state : {"new", "copying", "whole", "broken", "gone"},
                                       mtime : 0 .. MaxTime]]
          BY <2>4, <3>1 DEF RetentionInv, TypeOK
        <4>2. pruner' \in [Pruners -> Records]
          BY <1>0, <2>4, <3>3 DEF Set
        <4> QED BY <2>2, <3>3, <4>1, <4>2 DEF RetentionInv, TypeOK
      <3>5. WriterInv' /\ ContentHasMetadata'
        BY <2>2 DEF RetentionInv, WriterInv, ContentHasMetadata
      <3>6. PruneInv'
        BY <2>2, <3>3 DEF RetentionInv, PruneInv
      <3>7. PlanInv'
        <4>1. \A q \in Pruners : /\ pruner'[q].plan \subseteq pruner[q].plan
                                 /\ \A g \in pruner[q].plan : g.backup \in Backups
          BY <1>0, <3>3
        <4> QED BY <2>2, <3>2, <4>1 DEF RetentionInv, PlanInv
      <3> QED BY <3>4, <3>5, <3>6, <3>7 DEF RetentionInv
    <2> QED BY <2>1, <2>3, <2>4
  <1>7. CASE ListExpired(p)
    <2>1. \A a \in Expired(old.now) : writer[a] # "idle" /\ meta[a] <= now /\ a \in Artifacts
      BY <1>0 DEF Expired, RetentionInv, TypeOK, WriterInv, PruneInv
    <2> DEFINE record == [old EXCEPT !.at = "choosing", !.todo = Expired(old.now)]
    <2>2. /\ record.at = "choosing" /\ record.now = old.now /\ record.plan = old.plan
          /\ record.todo = Expired(old.now) /\ record.current = old.current
          /\ record \in Records /\ Set(p, record)
          /\ old.at = "unlinking" /\ UNCHANGED <<now, writer, meta, content, backup, faults>>
      BY <1>0, <1>7, <2>1 DEF ListExpired
    <2>3. old.current = 0
      BY <2>2 DEF RetentionInv, TypeOK
    <2> HIDE DEF record
    <2> QED BY <1>0, <2>1, <2>2, <2>3, PruneMoves DEF RetentionInv, PruneInv, PlanInv
  <1>8. CASE CheckArtifact(p)
    <2>1. UNCHANGED <<now, writer, meta, content, backup, faults>> /\ old.at = "choosing"
      BY <1>8 DEF CheckArtifact
    <2>2. PICK a \in old.todo :
             \/ /\ a \in content /\ meta[a] # 0
                /\ Set(p, [old EXCEPT !.at = "checked", !.current = a])
             \/ Raise(p)
      BY <1>8 DEF CheckArtifact
    <2>3. CASE Raise(p)
      BY <1>0, <2>1, <2>3, RaiseKeeps
    <2>4. CASE /\ a \in content /\ meta[a] # 0
               /\ Set(p, [old EXCEPT !.at = "checked", !.current = a])
      <3> DEFINE record == [old EXCEPT !.at = "checked", !.current = a]
      <3>1. /\ record.at = "checked" /\ record.now = old.now /\ record.plan = old.plan
            /\ record.todo = old.todo /\ record.current = a
            /\ record \in Records /\ Set(p, record)
        BY <1>0, <2>4
      <3>2. writer[a] = "done"
        BY <1>0, <2>4 DEF RetentionInv, WriterInv, ContentHasMetadata
      <3> HIDE DEF record
      <3> QED BY <1>0, <2>1, <3>1, <3>2, PruneMoves DEF RetentionInv, PruneInv, PlanInv
    <2> QED BY <2>2, <2>3, <2>4
  <1>9. CASE UnlinkContent(p)
    <2>1. UNCHANGED <<now, writer, meta, backup, faults>> /\ old.at = "checked"
      BY <1>9 DEF UnlinkContent
    <2>2. CASE Raise(p) /\ UNCHANGED content
      BY <1>0, <2>1, <2>2, RaiseKeeps
    <2>3. CASE content' = content \ {old.current} /\ Goto(p, "half")
      <3>1. /\ pruner'[p].at = "half" /\ pruner'[p].now = old.now /\ pruner'[p].plan = old.plan
            /\ pruner'[p].todo = old.todo /\ pruner'[p].current = old.current
            /\ pruner'[p] \in Records
            /\ \A q \in Pruners : q # p => pruner'[q] = pruner[q]
        BY <1>0, <2>3 DEF Goto, Set
      <3>2. pruner' \in [Pruners -> Records]
        BY <1>0, <2>3, <3>1 DEF Goto, Set
      <3>3. TypeOK'
        <4>1. content' \subseteq Artifacts
          BY <2>3 DEF RetentionInv, TypeOK
        <4>2. \A q \in Pruners : pruner'[q].at \notin {"checked", "half"} => pruner'[q].current = 0
          BY <3>1 DEF RetentionInv, TypeOK
        <4> QED BY <2>1, <3>2, <4>1, <4>2 DEF RetentionInv, TypeOK
      <3>4. WriterInv' /\ ContentHasMetadata'
        BY <2>1, <2>3 DEF RetentionInv, WriterInv, ContentHasMetadata
      <3>5. PruneInv'
        BY <2>1, <2>3, <3>1 DEF RetentionInv, PruneInv
      <3>6. PlanInv'
        BY <2>1, <3>1 DEF RetentionInv, PlanInv
      <3> QED BY <3>3, <3>4, <3>5, <3>6 DEF RetentionInv
    <2> QED BY <1>9, <2>2, <2>3 DEF UnlinkContent
  <1>10. CASE UnlinkMetadata(p)
    <2>1. /\ UNCHANGED <<now, writer, content, backup, faults>> /\ old.at = "half"
          /\ meta' = [meta EXCEPT ![old.current] = 0]
      BY <1>10 DEF UnlinkMetadata
    <2>2. /\ old.current \in Artifacts /\ writer[old.current] = "done"
          /\ old.current \notin content
      BY <1>0, <2>1 DEF RetentionInv, PruneInv
    <2>3. /\ meta'[old.current] = 0
          /\ \A a \in Artifacts : a # old.current => meta'[a] = meta[a]
          /\ meta' \in [Artifacts -> 0 .. MaxTime + DetailedDays]
      BY <1>0, <2>1, <2>2 DEF RetentionInv, TypeOK
    <2>4. /\ pruner'[p].at = "choosing" /\ pruner'[p].now = old.now
          /\ pruner'[p].plan = old.plan /\ pruner'[p].todo = old.todo \ {old.current}
          /\ pruner'[p].current = 0 /\ pruner'[p] \in Records
          /\ \A q \in Pruners : q # p => pruner'[q] = pruner[q]
      BY <1>0, <1>10 DEF UnlinkMetadata, Set
    <2>5. pruner' \in [Pruners -> Records]
      BY <1>0, <1>10, <2>4 DEF UnlinkMetadata, Set
    <2>6. TypeOK'
      BY <2>1, <2>3, <2>4, <2>5 DEF RetentionInv, TypeOK
    <2>7. WriterInv' /\ ContentHasMetadata'
      BY <2>1, <2>2, <2>3, <2>6 DEF RetentionInv, WriterInv, ContentHasMetadata, TypeOK
    <2>8. PruneInv'
      <3>1. \A q \in Pruners : /\ pruner'[q].todo \subseteq pruner[q].todo
                               /\ pruner[q].todo \subseteq Artifacts
        BY <1>0, <2>4
      <3>2. \A a \in Artifacts : meta[a] <= now => meta'[a] <= now
        BY <1>0, <2>2, <2>3
      <3> QED BY <2>1, <2>4, <3>1, <3>2 DEF RetentionInv, PruneInv
    <2>9. PlanInv'
      BY <2>1, <2>4 DEF RetentionInv, PlanInv
    <2> QED BY <2>6, <2>7, <2>8, <2>9 DEF RetentionInv
  <1> QED BY <1>1, <1>2, <1>3, <1>4, <1>5, <1>6, <1>7, <1>8, <1>9, <1>10 DEF PruneStep

(* No content is removed before its metadata says so, nor a whole backup in its days. *)
LEMMA DeletionStep ==
  ASSUME RetentionInv, [Next]_vars
  PROVE  /\ \A a \in content \ content' : meta[a] # 0 /\ meta[a] <= now
         /\ \A b \in Backups : backup[b].state = "whole" /\ backup'[b].state = "gone" =>
               backup[b].mtime < now - BackupDays
  <1>1. CASE Tick \/ UNCHANGED vars
    BY <1>1 DEF Tick, vars
  <1>2. CASE \E a \in Artifacts : WriteStep(a)
    BY <1>2 DEF WriteStep, PublishMetadata, PublishContent, ContentFails, LoseWriter
  <1>3. CASE \E b \in Backups : BackupStep(b)
    <2>1. PICK b \in Backups : BackupStep(b)
      BY <1>3
    <2>2. backup[b].state \in {"new", "copying"} /\ UNCHANGED content
      BY <2>1 DEF BackupStep, CreateBackup, CompleteBackup, BreakBackup
    <2>3. \A c \in Backups : c # b => backup'[c] = backup[c]
      BY <2>1 DEF BackupStep, CreateBackup, CompleteBackup, BreakBackup, SetBackup,
                  RetentionInv, TypeOK
    <2> QED BY <2>2, <2>3
  <1>4. ASSUME NEW p \in Pruners, UnlinkBackup(p)
        PROVE  /\ content' = content
               /\ \A b \in Backups : backup'[b] # backup[b] =>
                                        backup[b].mtime < now - BackupDays
    <2>1. PICK f \in pruner[p].plan :
             backup' = [backup EXCEPT ![f.backup].state = "gone"] \/ UNCHANGED backup
      BY <1>4 DEF UnlinkBackup
    <2>2. backup[f.backup].mtime < now - BackupDays
      BY DEF RetentionInv, PlanInv
    <2>3. \A b \in Backups : b # f.backup => backup'[b] = backup[b]
      BY <2>1 DEF RetentionInv, TypeOK
    <2> QED BY <1>4, <2>2, <2>3 DEF UnlinkBackup
  <1>5. ASSUME NEW p \in Pruners, UnlinkContent(p)
        PROVE  backup' = backup /\ \A a \in content \ content' : meta[a] # 0 /\ meta[a] <= now
    BY <1>5 DEF UnlinkContent, RetentionInv, PruneInv, ContentHasMetadata
  <1>6. ASSUME NEW p \in Pruners,
               StartPrune(p) \/ PruneFails(p) \/ PruneStep(p), ~UnlinkBackup(p), ~UnlinkContent(p)
        PROVE  UNCHANGED <<content, backup>>
    BY <1>6 DEF StartPrune, PruneFails, PruneStep, Preview, CheckBackups, ListExpired,
                CheckArtifact, UnlinkMetadata, EndPrune
  <1> QED BY <1>1, <1>2, <1>3, <1>4, <1>5, <1>6 DEF Next

(* RetentionInv is inductive. *)
LEMMA RetentionInvariant == Spec => []RetentionInv
  <1>1. RetentionInv /\ [Next]_vars => RetentionInv'
    <2>1. ASSUME RetentionInv, UNCHANGED vars PROVE RetentionInv'
      BY <2>1 DEF vars, RetentionInv, TypeOK, WriterInv, PruneInv, PlanInv, ContentHasMetadata
    <2> QED BY <2>1, TickStep, WriteStepKeeps, BackupStepKeeps, PruneStepKeeps DEF Next
  <1> QED BY <1>1, RetentionInit, PTL DEF Spec

(* Every variable keeps its type, and a prune holds an artifact only while it deletes it. *)
THEOREM RetentionTypeCorrect == Spec => []TypeOK
  BY RetentionInvariant, PTL DEF RetentionInv

(* However writes and prunes overlap, fail or are lost, the metadata that retention goes
   by outlives the content: prune_expired loses track of no file but the content that
   _write stranded by taking the metadata back after the content was linked. *)
THEOREM ArtifactsStayReachable == Spec => []ContentHasMetadata
  BY RetentionInvariant, PTL DEF RetentionInv

(* No prune, however stale its plan or its list, deletes content that no metadata says
   has expired or a whole backup that is not past its days. *)
THEOREM NothingDeletedEarly == Spec => NoEarlyDeletion
  <1>1. RetentionInv /\ [Next]_vars =>
          [/\ \A a \in content \ content' : meta[a] # 0 /\ meta[a] <= now
           /\ \A b \in Backups : backup[b].state = "whole" /\ backup'[b].state = "gone" =>
                 backup[b].mtime < now - BackupDays]_vars
    BY DeletionStep
  <1> QED BY <1>1, RetentionInvariant, PTL DEF Spec, NoEarlyDeletion

(* What a prune still has to delete covers what was due when it began. *)
DueBackups ==
    \A p \in Pruners : \A b \in Backups :
        pruner[p].at # "idle" /\ Exists(b) /\ backup[b].mtime < pruner[p].now - BackupDays =>
            /\ pruner[p].at \in {"planned", "checking", "unlinking"}
            /\ \E f \in pruner[p].plan : f.backup = b

DueArtifacts ==
    \A p \in Pruners :
        /\ pruner[p].at \in {"choosing", "checked", "half", "done"} =>
              \A a \in Artifacts : meta[a] # 0 /\ meta[a] <= pruner[p].now => a \in pruner[p].todo
        /\ pruner[p].at = "done" => pruner[p].todo = {}

(* Time passes, artifacts and backups are made: none of it was due before. *)
LEMMA OthersAreLater ==
  ASSUME RetentionInv, DueBackups, DueArtifacts,
         \/ Tick \/ UNCHANGED vars
         \/ \E a \in Artifacts : WriteStep(a)
         \/ \E b \in Backups : BackupStep(b)
  PROVE  DueBackups' /\ DueArtifacts'
  <1> USE RetentionAssumption
  <1>1. CASE Tick \/ UNCHANGED vars
    BY <1>1 DEF Tick, vars, DueBackups, DueArtifacts, Exists
  <1>2. ASSUME NEW a \in Artifacts, WriteStep(a) PROVE DueBackups' /\ DueArtifacts'
    <2>1. /\ UNCHANGED <<backup, pruner>>
          /\ \A q \in Artifacts : meta'[q] = meta[q] \/ meta'[q] = 0 \/ meta'[q] = now + DetailedDays
      BY <1>2 DEF WriteStep, PublishMetadata, PublishContent, ContentFails, LoseWriter,
                  RetentionInv, TypeOK
    <2>2. \A p \in Pruners : pruner[p].now <= now /\ pruner[p].now \in Nat /\ now \in Nat
      BY DEF RetentionInv, PruneInv, TypeOK
    <2> QED BY <2>1, <2>2 DEF DueBackups, DueArtifacts, Exists
  <1>3. ASSUME NEW b \in Backups, BackupStep(b) PROVE DueBackups' /\ DueArtifacts'
    <2>1. UNCHANGED <<meta, pruner>> /\ \A c \in Backups : c # b => backup'[c] = backup[c]
      BY <1>3 DEF BackupStep, CreateBackup, CompleteBackup, BreakBackup, SetBackup,
                  RetentionInv, TypeOK
    <2>2. \/ backup'[b].mtime = now
          \/ backup[b].state = "copying" /\ backup'[b].mtime = backup[b].mtime
      <3>1. ASSUME \/ SetBackup(b, "copying") \/ SetBackup(b, "whole")
                   \/ SetBackup(b, "gone") \/ SetBackup(b, "broken")
            PROVE  backup'[b].mtime = now
        BY <3>1 DEF SetBackup, RetentionInv, TypeOK
      <3>2. ASSUME backup' = [backup EXCEPT ![b].state = "broken"]
            PROVE  backup'[b].mtime = backup[b].mtime
        BY <3>2 DEF RetentionInv, TypeOK
      <3>3. \/ SetBackup(b, "copying") \/ SetBackup(b, "whole")
            \/ SetBackup(b, "gone") \/ SetBackup(b, "broken")
            \/ backup[b].state = "copying" /\ backup' = [backup EXCEPT ![b].state = "broken"]
        BY <1>3 DEF BackupStep, CreateBackup, CompleteBackup, BreakBackup
      <3> QED BY <3>1, <3>2, <3>3
    <2>3. \A p \in Pruners : pruner[p].now <= now /\ pruner[p].now \in Nat /\ now \in Nat
      BY DEF RetentionInv, PruneInv, TypeOK
    <2> QED BY <2>1, <2>2, <2>3 DEF DueBackups, DueArtifacts, Exists
  <1> QED BY <1>1, <1>2, <1>3

(* A prune takes off its lists only what it has deleted. *)
LEMMA PruneStepCovers ==
  ASSUME RetentionInv, DueBackups, DueArtifacts,
         NEW p \in Pruners, StartPrune(p) \/ PruneStep(p) \/ PruneFails(p)
  PROVE  DueBackups' /\ DueArtifacts'
  <1> USE RetentionAssumption
  <1> DEFINE old == pruner[p]
  <1>0. \A q \in Pruners : q # p => pruner'[q] = pruner[q]
    BY DEF StartPrune, PruneStep, PruneFails, Preview, CheckBackups, UnlinkBackup, ListExpired,
           CheckArtifact, UnlinkContent, UnlinkMetadata, EndPrune, Goto, Raise, Set,
           RetentionInv, TypeOK
  <1>1. ASSUME UNCHANGED <<meta, backup>>, Raise(p) PROVE DueBackups' /\ DueArtifacts'
    <2>1. pruner'[p].at = "idle"
      BY <1>1 DEF Raise, Set, NoPrune, RetentionInv, TypeOK
    <2> QED BY <1>0, <1>1, <2>1 DEF DueBackups, DueArtifacts, Exists
  <1>2. CASE StartPrune(p)
    <2>1. /\ pruner'[p] = [at |-> "planned", now |-> now, plan |-> Plan, todo |-> {}, current |-> 0]
          /\ UNCHANGED <<meta, backup>>
      BY <1>2 DEF StartPrune, Set, RetentionInv, TypeOK
    <2>2. \A b \in Backups : Exists(b) /\ backup[b].mtime < now - BackupDays =>
                                \E f \in Plan : f.backup = b
      <3> TAKE b \in Backups
      <3> HAVE Exists(b) /\ backup[b].mtime < now - BackupDays
      <3> DEFINE f == [backup |-> b, mtime |-> backup[b].mtime]
      <3>1. f \in Plan
        BY DEF Plan
      <3> QED BY <3>1
    <2> QED BY <1>0, <2>1, <2>2 DEF DueBackups, DueArtifacts, Exists
  <1>3. CASE Preview(p) \/ (CheckBackups(p) /\ ~Raise(p))
    <2>1. /\ pruner'[p].at \in {"checking", "unlinking"} /\ pruner'[p].now = old.now
          /\ pruner'[p].plan = old.plan /\ pruner'[p].todo = old.todo
          /\ old.at \in {"planned", "checking"} /\ UNCHANGED <<meta, backup>>
      BY <1>3 DEF Preview, CheckBackups, Goto, Set, RetentionInv, TypeOK
    <2> QED BY <1>0, <2>1 DEF DueBackups, DueArtifacts, Exists
  <1>4. CASE UnlinkBackup(p) /\ ~Raise(p)
    <2>1. PICK f \in old.plan : /\ backup' = [backup EXCEPT ![f.backup].state = "gone"]
                                 /\ Set(p, [old EXCEPT !.plan = @ \ {f}])
      BY <1>4 DEF UnlinkBackup
    <2>2. /\ pruner'[p].at = old.at /\ pruner'[p].now = old.now
          /\ pruner'[p].plan = old.plan \ {f} /\ pruner'[p].todo = old.todo
      BY <2>1 DEF Set, RetentionInv, TypeOK
    <2>3. /\ f.backup \in Backups /\ UNCHANGED meta
          /\ old.at = "unlinking"
      BY <1>4 DEF UnlinkBackup, RetentionInv, TypeOK
    <2>4. /\ backup'[f.backup].state = "gone"
          /\ \A b \in Backups : b # f.backup => backup'[b] = backup[b]
      BY <2>1, <2>3 DEF RetentionInv, TypeOK
    <2> QED BY <1>0, <2>2, <2>3, <2>4 DEF DueBackups, DueArtifacts, Exists
  <1>5. CASE ListExpired(p)
    <2>1. /\ pruner'[p].at = "choosing" /\ pruner'[p].now = old.now
          /\ pruner'[p].plan = old.plan /\ pruner'[p].todo = Expired(old.now)
          /\ old.at = "unlinking" /\ old.plan = {} /\ UNCHANGED <<meta, backup>>
      BY <1>5 DEF ListExpired, Set, RetentionInv, TypeOK
    <2> QED BY <1>0, <2>1 DEF DueBackups, DueArtifacts, Exists, Expired
  <1>6. CASE (CheckArtifact(p) \/ UnlinkContent(p)) /\ ~Raise(p)
    <2>1. /\ pruner'[p].at \in {"checked", "half"} /\ pruner'[p].now = old.now
          /\ pruner'[p].plan = old.plan /\ pruner'[p].todo = old.todo
          /\ old.at \in {"choosing", "checked"} /\ UNCHANGED <<meta, backup>>
      <3>1. CASE CheckArtifact(p)
        <4>1. PICK a \in old.todo : Set(p, [old EXCEPT !.at = "checked", !.current = a])
          BY <1>6, <3>1 DEF CheckArtifact
        <4> QED BY <3>1, <4>1 DEF CheckArtifact, Set, RetentionInv, TypeOK
      <3>2. CASE UnlinkContent(p)
        <4>1. Goto(p, "half")
          BY <1>6, <3>2 DEF UnlinkContent
        <4> QED BY <3>2, <4>1 DEF UnlinkContent, Goto, Set, RetentionInv, TypeOK
      <3> QED BY <1>6, <3>1, <3>2
    <2> QED BY <1>0, <2>1 DEF DueBackups, DueArtifacts, Exists
  <1>7. CASE UnlinkMetadata(p)
    <2>1. /\ pruner'[p].at = "choosing" /\ pruner'[p].now = old.now
          /\ pruner'[p].plan = old.plan /\ pruner'[p].todo = old.todo \ {old.current}
          /\ old.at = "half" /\ UNCHANGED backup
          /\ meta' = [meta EXCEPT ![old.current] = 0]
      BY <1>7 DEF UnlinkMetadata, Set, RetentionInv, TypeOK
    <2>2. /\ \A a \in Artifacts : meta'[a] = meta[a] \/ meta'[a] = 0
          /\ old.current \in Artifacts => meta'[old.current] = 0
      BY <2>1 DEF RetentionInv, TypeOK
    <2> QED BY <1>0, <2>1, <2>2 DEF DueBackups, DueArtifacts, Exists
  <1>8. CASE EndPrune(p)
    <2>1. /\ pruner'[p].at = "done" /\ pruner'[p].now = old.now
          /\ pruner'[p].plan = old.plan /\ pruner'[p].todo = old.todo
          /\ old.at = "choosing" /\ old.todo = {} /\ UNCHANGED <<meta, backup>>
      BY <1>8 DEF EndPrune, Goto, Set, RetentionInv, TypeOK
    <2> QED BY <1>0, <2>1 DEF DueBackups, DueArtifacts, Exists
  <1>9. CASE PruneFails(p)
    BY <1>1, <1>9 DEF PruneFails
  <1>10. CASE (CheckBackups(p) \/ UnlinkBackup(p) \/ CheckArtifact(p) \/ UnlinkContent(p)) /\ Raise(p)
    <2>1. CASE UNCHANGED <<meta, backup>>
      BY <1>1, <1>10, <2>1
    <2>2. CASE UnlinkBackup(p) /\ Raise(p)
      <3>1. pruner'[p].at = "idle" /\ pruner[p].at = "unlinking" /\ UNCHANGED meta
        BY <2>2 DEF UnlinkBackup, Raise, Set, NoPrune, RetentionInv, TypeOK
      <3>2. ASSUME NEW f \in old.plan, Set(p, [old EXCEPT !.plan = @ \ {f}]) PROVE FALSE
        BY <3>1, <3>2 DEF Set, RetentionInv, TypeOK
      <3> QED BY <1>1, <2>2, <3>1, <3>2 DEF UnlinkBackup
    <2> QED BY <1>10, <2>1, <2>2 DEF CheckBackups, CheckArtifact, UnlinkContent
  <1> QED BY <1>2, <1>3, <1>4, <1>5, <1>6, <1>7, <1>8, <1>9, <1>10 DEF PruneStep

(* A prune that ends well has deleted every backup and every artifact that was due when
   it began, although others wrote and pruned meanwhile. *)
THEOREM SuccessLeavesNothing == Spec => []SuccessIsComplete
  <1>1. Init => DueBackups /\ DueArtifacts
    BY DEF Init, NoPrune, DueBackups, DueArtifacts, Exists
  <1>2. RetentionInv /\ DueBackups /\ DueArtifacts /\ [Next]_vars => DueBackups' /\ DueArtifacts'
    BY OthersAreLater, PruneStepCovers DEF Next
  <1>3. RetentionInv /\ DueBackups /\ DueArtifacts => SuccessIsComplete
    <2> SUFFICES ASSUME RetentionInv, DueBackups, DueArtifacts,
                        NEW p \in Pruners, pruner[p].at = "done"
                 PROVE  /\ Expired(pruner[p].now) = {}
                        /\ \A b \in Backups : Exists(b) =>
                              backup[b].mtime >= pruner[p].now - BackupDays
      BY DEF SuccessIsComplete
    <2>1. Expired(pruner[p].now) = {}
      BY DEF DueArtifacts, Expired
    <2>2. pruner[p].now \in Int /\ BackupDays \in Int /\ \A b \in Backups : backup[b].mtime \in Int
      BY RetentionAssumption DEF RetentionInv, TypeOK
    <2> QED BY <2>1, <2>2 DEF DueBackups
  <1> QED BY <1>1, <1>2, <1>3, RetentionInvariant, PTL DEF Spec
=============================================================================
