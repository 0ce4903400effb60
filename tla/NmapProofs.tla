----------------------------- MODULE NmapProofs -----------------------------
(***************************************************************************)
(* Safety of the two nmap components: the launcher, for any number of      *)
(* launches, helpers and losses; the importer, for any number of files,    *)
(* passes, contents and faults.                                            *)
(***************************************************************************)
EXTENDS NmapScan, NmapImport, FiniteSetTheorems, SequenceTheorems, TLAPS

(***************************************************************************)
(* The launcher (nmap_scan.py).                                            *)
(***************************************************************************)

(* Whoever scans holds the lock, and whoever holds it is still at work. *)
LockInv ==
    \A l \in Launchers :
        /\ InScan(l) => lock = l
        /\ lock = l => InScan(l) \/ pc[l] = "finishing"

(* With no launcher lost, a script's own process runs only while its launcher waits. *)
ScriptInv ==
    losses = 0 => \A l \in Launchers : Leader \in group[l] => pc[l] \in {"waiting", "terminating"}

(* A launch's row follows its place. *)
LaunchRowInv ==
    \A l \in Launchers :
        /\ pc[l] \in {"idle", "locked", "refused"} => row[l] = "absent"
        /\ pc[l] \in {"launching", "waiting", "terminating", "finishing"} => row[l] = "running"

ScanInv == ScanTypeOK /\ LockInv /\ ScriptInv /\ LaunchRowInv

(* Every step of a launch or of its script keeps the invariant. *)
LEMMA ScanStep ==
  ASSUME ScanInv, NEW l \in Launchers,
         TryLock(l) \/ LaunchStep(l) \/ LoseLauncher(l) \/ Spawn(l) \/ Exit(l)
  PROVE  ScanInv'
  <1> USE ScanAssumption DEF ScanInv, ScanTypeOK, LockInv, ScriptInv, LaunchRowInv, InScan, Goto,
          Unlock, Over, Final
  <1>1. CASE TryLock(l)
    BY <1>1 DEF TryLock
  <1>2. CASE StartRun(l)
    BY <1>2 DEF StartRun
  <1>3. CASE Launch(l)
    BY <1>3 DEF Launch
  <1>4. CASE LaunchFails(l)
    BY <1>4 DEF LaunchFails
  <1>5. CASE ScriptExited(l)
    BY <1>5 DEF ScriptExited
  <1>6. CASE Timeout(l)
    BY <1>6 DEF Timeout
  <1>7. CASE LeaderStopped(l)
    BY <1>7 DEF LeaderStopped
  <1>8. CASE KillGroup(l)
    BY <1>8 DEF KillGroup
  <1>9. CASE FinishRun(l)
    BY <1>9 DEF FinishRun
  <1>10. CASE LoseLauncher(l)
    BY <1>10 DEF LoseLauncher
  <1>11. CASE Spawn(l)
    BY <1>11 DEF Spawn
  <1>12. CASE Exit(l)
    BY <1>12 DEF Exit
  <1> QED BY <1>1, <1>2, <1>3, <1>4, <1>5, <1>6, <1>7, <1>8, <1>9, <1>10, <1>11, <1>12
          DEF LaunchStep

(* The launcher's invariant. *)
LEMMA ScanInvariant == ScanSpec => []ScanInv
  <1>1. ScanInit => ScanInv
    BY ScanAssumption DEF ScanInit, ScanInv, ScanTypeOK, LockInv, ScriptInv, LaunchRowInv, InScan,
       Final, Over
  <1>2. ScanInv /\ [ScanNext]_scanVars => ScanInv'
    <2> SUFFICES ASSUME ScanInv, [ScanNext]_scanVars PROVE ScanInv'
      OBVIOUS
    <2>1. CASE UNCHANGED scanVars
      BY <2>1 DEF scanVars, ScanInv, ScanTypeOK, LockInv, ScriptInv, LaunchRowInv, InScan
    <2> QED BY <2>1, ScanStep DEF ScanNext
  <1> QED BY <1>1, <1>2, PTL DEF ScanSpec

(* One launcher at a time is between taking the lock and recording its end, and with no
   launcher lost one script at a time runs, for any number of launchers. *)
THEOREM OneScanAtATime == ScanSpec => []OneScan
  <1>1. ScanInv => OneScan
    <2> SUFFICES ASSUME ScanInv PROVE OneScan
      OBVIOUS
    <2>1. OneLauncher
      BY ScanAssumption DEF ScanInv, ScanTypeOK, LockInv, OneLauncher, InScan, Over
    <2>2. OneScript
      BY DEF ScanInv, LockInv, ScriptInv, OneScript, InScan
    <2> QED BY <2>1, <2>2 DEF ScanInv, OneScan
  <1> QED BY <1>1, ScanInvariant, PTL

(* Launches, refused and lost ones included, insert and close their rows as the run ledger
   promises. *)
THEOREM ScanImplementsLedger == ScanSpec => LedgerSpec
  <1>1. ScanInit => Ledger!Init
    BY DEF ScanInit, Ledger!Init
  <1>2. ScanInv /\ [ScanNext]_scanVars => [Ledger!Next]_(Ledger!vars)
    <2> SUFFICES ASSUME ScanInv, [ScanNext]_scanVars PROVE [Ledger!Next]_(Ledger!vars)
      OBVIOUS
    <2>1. CASE UNCHANGED scanVars
      BY <2>1 DEF scanVars, Ledger!vars
    <2>2. ASSUME NEW l \in Launchers, StartRun(l) PROVE [Ledger!Next]_(Ledger!vars)
      BY <2>2 DEF StartRun, ScanInv, LaunchRowInv, Ledger!Next, Ledger!StartRun, Ledger!vars
    <2>3. ASSUME NEW l \in Launchers, FinishRun(l) PROVE [Ledger!Next]_(Ledger!vars)
      <3>1. status[l] \in Ledger!Final /\ row[l] = "running"
        BY <2>3 DEF FinishRun, ScanInv, ScanTypeOK, LaunchRowInv, Final, Ledger!Final
      <3> QED BY <2>3, <3>1 DEF FinishRun, Ledger!Next, Ledger!FinishRun, Ledger!vars
    <2>4. ASSUME NEW l \in Launchers,
                 \/ TryLock(l) \/ Launch(l) \/ LaunchFails(l) \/ ScriptExited(l) \/ Timeout(l)
                 \/ LeaderStopped(l) \/ KillGroup(l) \/ LoseLauncher(l) \/ Spawn(l) \/ Exit(l)
          PROVE  [Ledger!Next]_(Ledger!vars)
      BY <2>4 DEF TryLock, Launch, LaunchFails, ScriptExited, Timeout, LeaderStopped, KillGroup,
                  LoseLauncher, Spawn, Exit, Ledger!vars
    <2> QED BY <2>1, <2>2, <2>3, <2>4 DEF ScanNext, LaunchStep
  <1> QED BY <1>1, <1>2, ScanInvariant, PTL DEF ScanSpec, LedgerSpec, Ledger!Spec

(***************************************************************************)
(* The importer (nmap_import.py).                                          *)
(***************************************************************************)

(* What a pass r has learned of its file, although the file grows underneath it: the file
   was settled when it was opened, digest and parse read contents it has had, in that
   order, and only what was hashed, parsed and unchanged at both ends is persisted. *)
PassSound(r) ==
    /\ \A p \in r.todo : Content(p) > 0
    /\ r.at \notin {"idle", "choosing"} =>
          r.path \in Paths /\ Content(r.path) > 0 /\ r.current - r.before >= Stability
    /\ r.at \in {"parsing", "verifying", "persisting"} => r.digest \in 1 .. Content(r.path)
    /\ r.at \in {"verifying", "persisting"} => r.scan \in r.digest .. Content(r.path)
    /\ r.at = "persisting" =>
          /\ r.scan = r.digest /\ Stages[r.path][r.digest] = "complete"
          /\ writes[r.path][r.digest] = r.before

PassesSound == \A i \in Importers : PassSound(pass[i])

(* The script writes no more contents than it has, and every row of the artifacts table is
   of a content its file has had. *)
RowsOfContents ==
    /\ \A p \in Paths : Content(p) <= Len(Stages[p])
    /\ \A a \in artifacts : a.digest \in 1 .. Content(a.path)
    /\ IsFiniteSet(artifacts)

ImportInv == ImportsSound /\ PassesSound /\ RowsOfContents

(* A key of the imports: a path and one of the contents its file can have. *)
LEMMA DigestKeys ==
  ASSUME NEW p, NEW d
  PROVE  <<p, d>> \in Digests <=> p \in Paths /\ d \in 1 .. Len(Stages[p])
  BY ImportAssumption DEF Digests

(* A pass's part of the type invariant. *)
PassTyped(r) ==
    /\ r \in [at : {"idle", "choosing", "reading", "parsing", "verifying", "persisting"},
              todo : SUBSET Paths, current : 0 .. MaxTime, path : Paths \cup {0},
              before : 0 .. MaxTime, digest : Nat, scan : Nat]
    /\ r.at \in {"idle", "choosing"} => r.path = 0 /\ r.digest = 0 /\ r.scan = 0

(* The passes after a step that only sets importer i's. *)
LEMMA PassesKept ==
  ASSUME TypeOK, PassesSound, NEW i \in Importers, NEW r, Set(i, r), PassTyped(r), PassSound(r),
         UNCHANGED writes
  PROVE  /\ PassesSound'
         /\ pass' \in [Importers ->
                [at : {"idle", "choosing", "reading", "parsing", "verifying", "persisting"},
                 todo : SUBSET Paths, current : 0 .. MaxTime, path : Paths \cup {0},
                 before : 0 .. MaxTime, digest : Nat, scan : Nat]]
         /\ \A j \in Importers : pass'[j].at \in {"idle", "choosing"} =>
                pass'[j].path = 0 /\ pass'[j].digest = 0 /\ pass'[j].scan = 0
  <1>1. ASSUME NEW j \in Importers PROVE PassSound(pass[j])'
    <2>1. CASE j = i
      BY <2>1 DEF TypeOK, Set, PassSound, Content
    <2>2. CASE j # i
      BY <2>2 DEF TypeOK, Set, PassSound, PassesSound, Content
    <2> QED BY <2>1, <2>2
  <1>2. PassesSound'
    BY <1>1 DEF PassesSound
  <1> QED BY <1>2 DEF TypeOK, Set, PassTyped

(* A pass that leaves its file keeps its list alone. *)
LEMMA SkipSound ==
  ASSUME TypeOK, PassesSound, NEW i \in Importers, Skip(i)
  PROVE  \E r : Set(i, r) /\ PassTyped(r) /\ PassSound(r)
  <1> DEFINE r == [pass[i] EXCEPT !.at = "choosing", !.path = 0, !.before = 0, !.digest = 0,
                                  !.scan = 0]
  <1>1. PassSound(r)
    BY DEF PassesSound, PassSound, TypeOK
  <1>2. PassTyped(pass[i]) /\ 0 \in 0 .. MaxTime
    BY ImportAssumption DEF PassTyped, TypeOK
  <1>3. PassTyped(r)
    BY <1>2 DEF PassTyped
  <1> QED BY <1>1, <1>3 DEF Skip

(* A step that changes nothing but importer i's pass, to a sound one, keeps the invariant. *)
LEMMA ReadKeeps ==
  ASSUME ImportInv, NEW i \in Importers, NEW r, Set(i, r), PassTyped(r), PassSound(r),
         UNCHANGED <<now, writes, artifacts, imports, prunes>>, faults' \in 0 .. MaxFaults
  PROVE  ImportInv'
  <1>1. TypeOK' /\ PassesSound'
    BY PassesKept DEF ImportInv, ImportsSound, TypeOK
  <1>2. (ImportsWhole /\ ImportsSettled /\ OneImportPerRow /\ RowsOfContents)'
    BY DEF ImportInv, ImportsSound, ImportsWhole, ImportsSettled, OneImportPerRow, RowsOfContents,
           Content
  <1> QED BY <1>1, <1>2 DEF ImportInv, ImportsSound

(* The reads of a pass, its end and its death. *)
LEMMA PassReads ==
  ASSUME ImportInv, NEW i \in Importers,
         \/ StartPass(i) \/ OpenCandidate(i) \/ ReadDigest(i) \/ Parse(i) \/ Verify(i)
         \/ PersistFails(i) \/ EndPass(i) \/ Kill(i)
  PROVE  ImportInv'
  <1>0. TypeOK /\ PassesSound /\ PassSound(pass[i]) /\ RowsOfContents
    BY DEF ImportInv, ImportsSound, PassesSound
  <1>n. PassTyped(NoPass) /\ PassSound(NoPass)
    BY ImportAssumption DEF PassTyped, PassSound, NoPass
  <1>s. ASSUME Skip(i), UNCHANGED <<now, writes, artifacts, imports, prunes>>,
               faults' \in 0 .. MaxFaults
        PROVE  ImportInv'
    BY <1>0, <1>s, SkipSound, ReadKeeps
  <1>f. faults \in 0 .. MaxFaults /\ (faults < MaxFaults => faults + 1 \in 0 .. MaxFaults)
    BY <1>0, ImportAssumption DEF TypeOK
  <1>t. PassTyped(pass[i])
    BY <1>0 DEF TypeOK, PassTyped
  <1>1. CASE StartPass(i)
    <2> DEFINE r == [NoPass EXCEPT !.at = "choosing", !.current = now,
                                   !.todo = {p \in Paths : Content(p) > 0}]
    <2>1. now \in 0 .. MaxTime
      BY <1>0 DEF TypeOK
    <2>2. r.at = "choosing" /\ r.todo = {p \in Paths : Content(p) > 0}
      BY DEF NoPass
    <2>3. PassTyped(r)
      BY <1>n, <2>1 DEF PassTyped, NoPass
    <2>4. PassSound(r)
      BY <2>2 DEF PassSound
    <2> QED BY <1>1, <2>3, <2>4, <1>f, ReadKeeps DEF StartPass
  <1>2. CASE OpenCandidate(i)
    <2>1. PICK p \in pass[i].todo :
             \/ Set(i, [pass[i] EXCEPT !.todo = @ \ {p}])
             \/ /\ pass[i].current - Mtime(p) >= Stability
                /\ Set(i, [pass[i] EXCEPT !.todo = @ \ {p}, !.at = "reading", !.path = p,
                                          !.before = Mtime(p)])
      BY <1>2 DEF OpenCandidate
    <2> DEFINE r1 == [pass[i] EXCEPT !.todo = @ \ {p}]
               r2 == [pass[i] EXCEPT !.todo = @ \ {p}, !.at = "reading", !.path = p,
                                     !.before = Mtime(p)]
    <2>2. pass[i].at = "choosing" /\ UNCHANGED <<now, writes, artifacts, imports, prunes, faults>>
      BY <1>2 DEF OpenCandidate
    <2>3. PassTyped(r1) /\ PassSound(r1)
      BY <2>2, <1>t, <1>0 DEF PassTyped, PassSound
    <2>4. p \in Paths /\ Content(p) > 0 /\ Mtime(p) \in 0 .. MaxTime
      <3>1. p \in Paths /\ Content(p) > 0
        BY <1>t, <1>0 DEF PassTyped, PassSound
      <3>2. writes[p] \in Seq(0 .. MaxTime)
        BY <3>1, <1>0 DEF TypeOK
      <3>3. Len(writes[p]) \in 1 .. Len(writes[p])
        BY <3>1, <3>2 DEF Content
      <3>4. writes[p][Len(writes[p])] \in 0 .. MaxTime
        BY <3>2, <3>3, ElementOfSeq
      <3> QED BY <3>1, <3>4 DEF Mtime, Content
    <2>5. PassTyped(r2)
      BY <2>2, <2>4, <1>t DEF PassTyped
    <2>6. ASSUME pass[i].current - Mtime(p) >= Stability PROVE PassSound(r2)
      BY <2>2, <2>4, <2>6, <1>t, <1>0 DEF PassTyped, PassSound
    <2> QED BY <2>1, <2>2, <2>3, <2>5, <2>6, <1>f, ReadKeeps
  <1>3. CASE ReadDigest(i)
    <2> DEFINE r == [pass[i] EXCEPT !.at = "parsing", !.digest = Content(pass[i].path)]
    <2>1. Content(pass[i].path) \in Nat
      BY <1>3, <1>0 DEF ReadDigest, PassSound, TypeOK, Content
    <2>2. PassTyped(r)
      BY <2>1, <1>t DEF PassTyped
    <2>3. PassSound(r)
      BY <1>3, <2>1, <1>t, <1>0 DEF ReadDigest, PassTyped, PassSound
    <2> QED BY <1>3, <2>2, <2>3, <1>s, <1>f, ReadKeeps DEF ReadDigest
  <1>4. CASE Parse(i)
    <2> DEFINE r == [pass[i] EXCEPT !.at = "verifying", !.scan = Content(pass[i].path)]
    <2>1. Content(pass[i].path) \in Nat
      BY <1>4, <1>0 DEF Parse, PassSound, TypeOK, Content
    <2>2. PassTyped(r)
      BY <2>1, <1>t DEF PassTyped
    <2>3. PassSound(r)
      BY <1>4, <2>1, <1>t, <1>0 DEF Parse, PassTyped, PassSound
    <2> QED BY <1>4, <2>2, <2>3, <1>s, <1>f, ReadKeeps DEF Parse
  <1>5. CASE Verify(i)
    <2> DEFINE p == pass[i].path
               r == [pass[i] EXCEPT !.at = "persisting"]
    <2>1. Content(p) \in Nat
      BY <1>5, <1>0 DEF Verify, PassSound, TypeOK, Content
    <2>2. PassTyped(r)
      BY <1>t DEF PassTyped
    <2>3. ASSUME Content(p) = pass[i].digest, Mtime(p) = pass[i].before, Finished(i)
          PROVE  PassSound(r)
      <3>1. pass[i].scan = pass[i].digest
        BY <1>5, <2>1, <2>3, <1>t, <1>0 DEF Verify, PassTyped, PassSound
      <3>2. /\ writes[p][pass[i].digest] = pass[i].before
            /\ Stages[p][pass[i].digest] = "complete"
        BY <2>3, <3>1 DEF Mtime, Finished
      <3> QED BY <1>5, <3>1, <3>2, <1>t, <1>0 DEF Verify, PassTyped, PassSound
    <2> QED BY <1>5, <2>2, <2>3, <1>s, <1>f, ReadKeeps DEF Verify
  <1>6. CASE PersistFails(i)
    BY <1>6, <1>s, <1>f DEF PersistFails
  <1>7. CASE EndPass(i)
    BY <1>7, <1>n, <1>f, ReadKeeps DEF EndPass
  <1>8. CASE Kill(i)
    BY <1>8, <1>n, <1>f, ReadKeeps DEF Kill
  <1> QED BY <1>1, <1>2, <1>3, <1>4, <1>5, <1>6, <1>7, <1>8

(* The scan script only appends to the contents a file has had. *)
LEMMA WriteKeeps ==
  ASSUME ImportInv, NEW p \in Paths, Write(p)
  PROVE  ImportInv'
  <1>0. TypeOK /\ PassesSound /\ RowsOfContents /\ now \in 0 .. MaxTime
    BY DEF ImportInv, ImportsSound, TypeOK
  <1>1. writes' \in [Paths -> Seq(0 .. MaxTime)]
    BY <1>0 DEF TypeOK, Write
  <1>2. ASSUME NEW q \in Paths
        PROVE  /\ Content(q)' \in Nat /\ Content(q) \in Nat
               /\ Content(q) <= Content(q)' /\ Content(q)' <= Len(Stages[q])
               /\ \A d \in 1 .. Content(q) : writes'[q][d] = writes[q][d]
    <2>1. writes[q] \in Seq(0 .. MaxTime) /\ Len(writes[q]) <= Len(Stages[q])
      BY <1>0 DEF TypeOK, RowsOfContents, Content
    <2>2. CASE q = p
      <3>1. writes'[q] = Append(writes[q], now) /\ Len(writes[q]) < Len(Stages[q])
        BY <2>2, <1>0 DEF Write, TypeOK, Content
      <3>2. Len(Stages[q]) \in Nat
        BY ImportAssumption
      <3>3. /\ Len(writes'[q]) = Len(writes[q]) + 1
            /\ \A d \in 1 .. Len(writes[q]) : writes'[q][d] = writes[q][d]
        BY <3>1, <2>1, <1>0, AppendProperties
      <3> QED BY <2>1, <3>1, <3>2, <3>3, LenProperties DEF Content
    <2>3. CASE q # p
      <3>1. writes'[q] = writes[q]
        BY <2>3, <1>0 DEF Write, TypeOK
      <3> QED BY <2>1, <3>1, LenProperties DEF Content
    <2> QED BY <2>2, <2>3
  <1>3. UNCHANGED <<now, pass, artifacts, imports, prunes, faults>>
    BY DEF Write
  <1>4. TypeOK'
    BY <1>0, <1>1, <1>3 DEF TypeOK
  <1>5. PassesSound'
    <2> SUFFICES ASSUME NEW i \in Importers PROVE PassSound(pass[i])'
      BY DEF PassesSound
    <2>1. PassTyped(pass[i]) /\ PassSound(pass[i])
      BY <1>0 DEF TypeOK, PassTyped, PassesSound
    <2> QED BY <1>2, <1>3, <2>1 DEF PassSound, PassTyped
  <1>6. RowsOfContents' /\ ImportsSettled'
    <2>1. \A a \in artifacts : a.path \in Paths /\ a.digest \in 1 .. Content(a.path)
      BY <1>0 DEF TypeOK, RowsOfContents
    <2> QED BY <1>0, <1>2, <1>3, <2>1 DEF RowsOfContents, ImportsSettled, ImportInv, ImportsSound
  <1> QED BY <1>3, <1>4, <1>5, <1>6
          DEF ImportInv, ImportsSound, ImportsWhole, OneImportPerRow

(* Retention counts every row it deletes. *)
LEMMA PruneKeeps ==
  ASSUME ImportInv, Prune
  PROVE  ImportInv'
  <1> DEFINE Kept(d) == {a \in artifacts' : <<a.path, a.digest>> = d}
             Gone(d) == {a \in artifacts \ artifacts' : <<a.path, a.digest>> = d}
             Held(d) == {a \in artifacts : <<a.path, a.digest>> = d}
  <1>0. TypeOK /\ RowsOfContents /\ OneImportPerRow
    BY DEF ImportInv, ImportsSound
  <1>1. /\ artifacts' \subseteq artifacts /\ UNCHANGED <<now, writes, pass, imports, faults>>
        /\ prunes' = [d \in Digests |-> prunes[d] + Cardinality(Gone(d))]
    BY DEF Prune
  <1>2. ASSUME NEW d \in Digests
        PROVE  /\ Cardinality(Gone(d)) \in Nat /\ Cardinality(Kept(d)) \in Nat
               /\ Cardinality(Held(d)) = Cardinality(Gone(d)) + Cardinality(Kept(d))
    <2>1. IsFiniteSet(Held(d)) /\ IsFiniteSet(Gone(d)) /\ IsFiniteSet(Kept(d))
      BY <1>0, <1>1, FS_Subset DEF RowsOfContents
    <2>2. Held(d) = Gone(d) \cup Kept(d) /\ Gone(d) \cap Kept(d) = {}
      BY <1>1
    <2>3. Cardinality({}) = 0
      BY FS_EmptySet
    <2>4. Cardinality(Held(d)) = Cardinality(Gone(d)) + Cardinality(Kept(d)) - 0
      BY <2>1, <2>2, <2>3, FS_Union
    <2>5. Cardinality(Gone(d)) \in Nat /\ Cardinality(Kept(d)) \in Nat
      BY <2>1, FS_CardinalityType
    <2> QED BY <2>4, <2>5
  <1>3. prunes' \in [Digests -> Nat]
    <2>1. \A d \in Digests : prunes[d] \in Nat /\ Cardinality(Gone(d)) \in Nat
      BY <1>0, <1>2 DEF TypeOK
    <2> QED BY <1>1, <2>1
  <1>4. TypeOK'
    BY <1>0, <1>1, <1>3 DEF TypeOK
  <1>5. OneImportPerRow'
    <2> SUFFICES ASSUME NEW d \in Digests
                 PROVE  imports'[d] = prunes'[d] + Cardinality(Kept(d))
      BY DEF OneImportPerRow
    <2>1. imports[d] = prunes[d] + Cardinality(Held(d)) /\ prunes[d] \in Nat
      BY <1>0 DEF OneImportPerRow, TypeOK
    <2>2. prunes'[d] = prunes[d] + Cardinality(Gone(d)) /\ imports'[d] = imports[d]
      BY <1>1
    <2> HIDE DEF Kept, Gone, Held
    <2> QED BY <2>1, <2>2, <1>2
  <1>6. RowsOfContents'
    BY <1>0, <1>1, FS_Subset DEF RowsOfContents, Content
  <1>7. PassesSound' /\ ImportsWhole' /\ ImportsSettled'
    BY <1>1 DEF ImportInv, ImportsSound, PassesSound, PassSound, ImportsWhole, ImportsSettled,
                Content
  <1> QED BY <1>4, <1>5, <1>6, <1>7 DEF ImportInv, ImportsSound

(* The transaction that imports counts one import for the one row it inserts. *)
LEMMA PersistKeeps ==
  ASSUME ImportInv, NEW i \in Importers, Persist(i)
  PROVE  ImportInv'
  <1> DEFINE Held(d) == {a \in artifacts : <<a.path, a.digest>> = d}
             key == <<pass[i].path, pass[i].digest>>
  <1>0. /\ TypeOK /\ PassesSound /\ RowsOfContents /\ OneImportPerRow
        /\ PassSound(pass[i]) /\ PassTyped(pass[i])
    BY DEF ImportInv, ImportsSound, PassesSound, TypeOK, PassTyped
  <1>1. PICK r : Set(i, r) /\ PassTyped(r) /\ PassSound(r)
    BY <1>0, SkipSound DEF Persist
  <1>2. CASE UNCHANGED <<artifacts, imports>>
    BY <1>0, <1>1, <1>2, ReadKeeps DEF Persist, TypeOK
  <1>3. CASE /\ ~Known(pass[i].path, pass[i].digest)
             /\ artifacts' = artifacts \cup {Row(i)}
             /\ imports' = [imports EXCEPT ![key] = @ + 1]
    <2>0. UNCHANGED <<now, writes, prunes, faults>> /\ pass[i].at = "persisting"
      BY DEF Persist
    <2>1. /\ pass[i].path \in Paths /\ pass[i].digest \in 1 .. Content(pass[i].path)
          /\ pass[i].scan = pass[i].digest
          /\ Stages[pass[i].path][pass[i].digest] = "complete"
          /\ pass[i].current - writes[pass[i].path][pass[i].digest] >= Stability
      BY <2>0, <1>0 DEF PassSound
    <2>2. key \in Digests
      <3>1. Content(pass[i].path) <= Len(Stages[pass[i].path])
        BY <2>1, <1>0 DEF RowsOfContents
      <3>2. Content(pass[i].path) \in Nat /\ Len(Stages[pass[i].path]) \in Nat
        BY <2>1, <1>0, ImportAssumption, LenProperties DEF TypeOK, Content
      <3>3. pass[i].digest \in 1 .. Len(Stages[pass[i].path])
        BY <2>1, <3>1, <3>2
      <3> QED BY <2>1, <3>3, DigestKeys
    <2>3. /\ Row(i).path = pass[i].path /\ Row(i).digest = pass[i].digest
          /\ Row(i).scan = pass[i].scan /\ Row(i).imported_at = pass[i].current
          /\ Row(i) \in [path : Paths, digest : Nat, scan : Nat, imported_at : 0 .. MaxTime]
      BY <2>1, <1>0 DEF Row, PassTyped
    <2>4. TypeOK' /\ PassesSound'
      <3>1. UNCHANGED <<now, writes, prunes, faults>>
        BY <2>0
      <3>2. imports' \in [Digests -> Nat]
        BY <1>0, <1>3, <2>2 DEF TypeOK
      <3>3. artifacts' \subseteq [path : Paths, digest : Nat, scan : Nat, imported_at : 0 .. MaxTime]
        BY <1>0, <1>3, <2>3 DEF TypeOK
      <3> QED BY <1>0, <1>1, <3>1, <3>2, <3>3, PassesKept DEF TypeOK
    <2>5. ImportsWhole' /\ ImportsSettled'
      BY <1>3, <2>0, <2>1, <2>3 DEF ImportInv, ImportsSound, ImportsWhole, ImportsSettled
    <2>6. RowsOfContents'
      <3>1. IsFiniteSet(artifacts')
        BY <1>0, <1>3, FS_AddElement DEF RowsOfContents
      <3> QED BY <1>0, <1>3, <2>0, <2>1, <2>3, <3>1 DEF RowsOfContents, Content
    <2>7. OneImportPerRow'
      <3> SUFFICES ASSUME NEW d \in Digests
                   PROVE  imports'[d] = prunes'[d] + Cardinality(Held(d)')
        BY DEF OneImportPerRow
      <3>1. imports[d] = prunes[d] + Cardinality(Held(d)) /\ prunes[d] \in Nat /\ prunes' = prunes
        BY <1>0, <2>0 DEF OneImportPerRow, TypeOK
      <3>2. CASE d = key
        <4>1. Held(d) = {} /\ Held(d)' = {Row(i)}
          BY <3>2, <1>3, <2>3 DEF Known
        <4>2. Cardinality(Held(d)) = 0 /\ Cardinality(Held(d)') = 1
          BY <4>1, FS_EmptySet, FS_Singleton
        <4>3. imports'[d] = imports[d] + 1
          BY <3>2, <1>3, <1>0 DEF TypeOK
        <4> HIDE DEF Held, key
        <4> QED BY <3>1, <4>2, <4>3
      <3>3. CASE d # key
        <4>1. Held(d)' = Held(d)
          BY <3>3, <1>3, <2>3
        <4>2. imports'[d] = imports[d]
          BY <3>3, <1>3, <1>0 DEF TypeOK
        <4> QED BY <3>1, <4>1, <4>2
      <3> QED BY <3>2, <3>3
    <2> QED BY <2>4, <2>5, <2>6, <2>7 DEF ImportInv, ImportsSound
  <1> QED BY <1>2, <1>3 DEF Persist

(* Whatever overlaps, is killed, fails or is pruned, the importer's rows are of whole scans
   that had settled, and each was imported once for as long as its row exists. *)
THEOREM ImporterSound == Spec => []ImportsSound
  <1>1. Init => ImportInv
    <2> SUFFICES ASSUME Init PROVE ImportInv
      OBVIOUS
    <2>1. TypeOK
      BY ImportAssumption DEF Init, TypeOK, NoPass
    <2>2. PassesSound
      BY DEF Init, PassesSound, PassSound, NoPass
    <2>3. RowsOfContents
      <3>1. \A p \in Paths : Len(Stages[p]) \in Nat
        BY ImportAssumption
      <3> QED BY <3>1, FS_EmptySet DEF Init, RowsOfContents, Content
    <2>4. OneImportPerRow
      <3>1. \A d : {a \in artifacts : <<a.path, a.digest>> = d} = {}
        BY DEF Init
      <3> QED BY <3>1, FS_EmptySet DEF Init, OneImportPerRow
    <2> QED BY <2>1, <2>2, <2>3, <2>4
            DEF Init, ImportInv, ImportsSound, ImportsWhole, ImportsSettled
  <1>2. ImportInv /\ [Next]_vars => ImportInv'
    <2> SUFFICES ASSUME ImportInv, [Next]_vars PROVE ImportInv'
      OBVIOUS
    <2>1. CASE UNCHANGED vars
      BY <2>1 DEF vars, ImportInv, ImportsSound, TypeOK, ImportsWhole, ImportsSettled,
                  OneImportPerRow, PassesSound, PassSound, RowsOfContents, Content
    <2>2. CASE Tick
      <3>1. now' \in 0 .. MaxTime
        BY <2>2, ImportAssumption DEF Tick, ImportInv, ImportsSound, TypeOK
      <3> QED BY <2>2, <3>1 DEF Tick, ImportInv, ImportsSound, TypeOK, ImportsWhole,
                  ImportsSettled, OneImportPerRow, PassesSound, PassSound, RowsOfContents, Content
    <2> QED BY <2>1, <2>2, WriteKeeps, PruneKeeps, PassReads, PersistKeeps DEF Next, Step
  <1>3. ImportInv => ImportsSound
    BY DEF ImportInv
  <1> QED BY <1>1, <1>2, <1>3, PTL DEF Spec

(* What the database's unique index on path and digest says: one row for each. *)
RowsUnique ==
    \A a, b \in artifacts : a.path = b.path /\ a.digest = b.digest => a = b

(* The README's "Each path/digest pair imports once" holds of every path and digest whose
   row retention has never deleted. *)
THEOREM ImportedOnceUnlessPruned ==
    Spec => [](\A d \in Digests : prunes[d] = 0 => imports[d] <= 1)
  <1> DEFINE Once == \A d \in Digests : prunes[d] = 0 => imports[d] <= 1
  <1>1. Init => RowsUnique
    BY DEF Init, RowsUnique
  <1>2. RowsUnique /\ [Next]_vars => RowsUnique'
    <2> SUFFICES ASSUME RowsUnique, [Next]_vars PROVE RowsUnique'
      OBVIOUS
    <2>1. CASE artifacts' \subseteq artifacts
      BY <2>1 DEF RowsUnique
    <2>2. ASSUME NEW i \in Importers, Persist(i) PROVE RowsUnique'
      BY <2>2 DEF Persist, Known, Row, RowsUnique
    <2>3. ASSUME NEW i \in Importers,
                 \/ StartPass(i) \/ OpenCandidate(i) \/ ReadDigest(i) \/ Parse(i) \/ Verify(i)
                 \/ EndPass(i) \/ PersistFails(i) \/ Kill(i)
          PROVE  artifacts' \subseteq artifacts
      BY <2>3 DEF StartPass, OpenCandidate, ReadDigest, Parse, Verify, EndPass, PersistFails, Kill
    <2>4. (Tick \/ Prune \/ UNCHANGED vars \/ \E p \in Paths : Write(p))
             => artifacts' \subseteq artifacts
      BY DEF vars, Tick, Prune, Write
    <2> QED BY <2>1, <2>2, <2>3, <2>4 DEF Next, Step
  <1>3. ImportsSound /\ RowsUnique => Once
    <2> SUFFICES ASSUME ImportsSound, RowsUnique, NEW d \in Digests, prunes[d] = 0
                 PROVE  imports[d] <= 1
      OBVIOUS
    <2> DEFINE held == {a \in artifacts : <<a.path, a.digest>> = d}
    <2>1. imports[d] = 0 + Cardinality(held)
      BY DEF ImportsSound, OneImportPerRow
    <2>2. CASE held = {}
      BY <2>1, <2>2, FS_EmptySet
    <2>3. CASE held # {}
      <3>1. PICK a \in held : TRUE
        BY <2>3
      <3>2. held = {a}
        BY <3>1 DEF RowsUnique
      <3>3. Cardinality(held) = 1
        BY <3>2, FS_Singleton
      <3> HIDE DEF held
      <3> QED BY <2>1, <3>3
    <2> QED BY <2>2, <2>3
  <1> HIDE DEF Once
  <1>4. Spec => []Once
    BY <1>1, <1>2, <1>3, ImporterSound, PTL DEF Spec
  <1> QED BY <1>4 DEF Once
=============================================================================
