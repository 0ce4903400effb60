-------------------------- MODULE ReportingProofs --------------------------
(***************************************************************************)
(* Proofs about Reporting, for any runs and rows, any number of operators  *)
(* and of invocations: what a report claims to cover it shows, its         *)
(* sections agree, and a recorded document stays.                          *)
(***************************************************************************)
EXTENDS Reporting, FiniteSetTheorems, TLAPS

(* The position of a section in the order of the statements. *)
Idx(s) == CHOOSE j \in DOMAIN Sections : Sections[j] = s

AtWork == SectionNames \union {"render"}
Holding == {"write_docx", "open_json", "write_json", "validate", "record", "undo_docx"}
Publishing == Holding \union {"open_docx", "undo_json"}
Resting == {"idle", "done", "failed", "left", "crashed"}

SectionSet == {"runs", "device", "details", "reuse", "targets", "fact", "unifi_site",
                    "unifi_entity", "unifi_relation", "ad_domain", "ad_entity", "ad_trust"}

(* The sections in their order. *)
LEMMA SectionsAt ==
    /\ DOMAIN Sections = 1..12 /\ Len(Sections) = 12
    /\ Sections[1] = "runs" /\ Sections[2] = "device" /\ Sections[3] = "details"
    /\ Sections[4] = "reuse" /\ Sections[5] = "targets" /\ Sections[6] = "fact"
    /\ Sections[7] = "unifi_site" /\ Sections[8] = "unifi_entity"
    /\ Sections[9] = "unifi_relation" /\ Sections[10] = "ad_domain"
    /\ Sections[11] = "ad_entity" /\ Sections[12] = "ad_trust"
    /\ \A j \in 1..12 : j \in {1, 2, 3, 4, 5, 6, 7, 8, 9, 10, 11, 12}
BY DEF Sections

LEMMA SectionList == SectionNames = SectionSet
BY SectionsAt DEF SectionNames, SectionSet

LEMMA SectionOrder ==
    /\ Idx("runs") = 1 /\ Idx("device") = 2 /\ Idx("details") = 3 /\ Idx("reuse") = 4
    /\ Idx("targets") = 5 /\ Idx("fact") = 6 /\ Idx("unifi_site") = 7
    /\ Idx("unifi_entity") = 8 /\ Idx("unifi_relation") = 9 /\ Idx("ad_domain") = 10
    /\ Idx("ad_entity") = 11 /\ Idx("ad_trust") = 12
<1>1. \A i, j \in 1..12 : Sections[i] = Sections[j] => i = j
  BY SectionsAt
<1>2. \A i \in 1..12 : Idx(Sections[i]) = i
  BY <1>1, SectionsAt DEF Idx
<1>3. QED
  BY <1>2, SectionsAt

(* The place after each section. *)
LEMMA Afters ==
    /\ After("runs") = "device" /\ After("device") = "details" /\ After("details") = "reuse"
    /\ After("reuse") = "targets" /\ After("targets") = "fact"
    /\ After("fact") = "unifi_site" /\ After("unifi_site") = "unifi_entity"
    /\ After("unifi_entity") = "unifi_relation" /\ After("unifi_relation") = "ad_domain"
    /\ After("ad_domain") = "ad_entity" /\ After("ad_entity") = "ad_trust"
    /\ After("ad_trust") = "render"
<1>1. \A s : After(s) = IF Idx(s) = Len(Sections) THEN "render" ELSE Sections[Idx(s) + 1]
  BY DEF After, Idx
<1>2. QED
  BY <1>1, SectionsAt, SectionOrder

-----------------------------------------------------------------------------
(* Publication.  An invocation is named by its process and the number of   *)
(* invocations left to it; it holds the DOCX from the moment it has opened *)
(* it until it is recorded or gives up, and no later one has its name.     *)
Ids == (Generators \X Nat) \union { << "nobody", 0 >> }

FileTypes ==
    /\ pc \in [Generators -> AtWork \union Publishing \union Resting]
    /\ runsLeft \in [Generators -> Nat]
    /\ docx \in [by : Ids, whole : BOOLEAN] /\ json \in [by : Ids, whole : BOOLEAN]

NamesInv ==
    /\ << "nobody", 0 >> \notin history
    /\ \A g \in Generators : \A n \in Nat : n < runsLeft[g] =>
          << g, n >> \notin history /\ docx.by # << g, n >> /\ json.by # << g, n >>
    /\ \A g \in Generators : Me(g) \in history => pc[g] = "done"

HoldInv ==
    \A g \in Generators : pc[g] \in Holding =>
        docx.by = Me(g) /\ (pc[g] # "write_docx" => docx.whole)

ClearInv ==
    \A g \in Generators :
        /\ pc[g] \in AtWork \union {"open_docx", "undo_json", "failed", "idle"} =>
              docx.by # Me(g)
        /\ pc[g] \in AtWork \union {"open_docx", "write_docx", "open_json", "failed", "idle"} =>
              json.by # Me(g)

StaysInv == \A id \in history \ taken : docx = [by |-> id, whole |-> TRUE]

FileInv == FileTypes /\ NamesInv /\ HoldInv /\ ClearInv /\ StaysInv

(* A section is followed by a section or by rendering. *)
LEMMA AfterPlaces == \A s \in SectionNames : After(s) \in AtWork
BY SectionList, Afters DEF SectionSet, AtWork

(* Two invocations under way are not the same. *)
LEMMA NamesDiffer ==
    ASSUME NEW g \in Generators, NEW h \in Generators, Me(g) = Me(h)
    PROVE  g = h
BY DEF Me

(* What NoFile stands for is nobody's. *)
LEMMA NoFileIsNobodys ==
    /\ NoFile.by = << "nobody", 0 >> /\ NoFile.whole = FALSE
    /\ NoFile \in [by : Ids, whole : BOOLEAN]
    /\ \A g \in Generators : \A n : NoFile.by # << g, n >>
BY InvocationsAssumption DEF NoFile, Ids

LEMMA MeInIds == FileTypes => \A g \in Generators : Me(g) \in Ids
BY DEF FileTypes, Me, Ids

LEMMA FileInit == Init => FileInv
<1> SUFFICES ASSUME Init PROVE FileInv
  OBVIOUS
<1>1. /\ runsLeft \in [Generators -> Nat] /\ pc = [g \in Generators |-> "idle"]
      /\ docx = NoFile /\ json = NoFile /\ history = {}
  BY InvocationsAssumption DEF Init
<1>2. FileTypes
  BY <1>1, NoFileIsNobodys DEF FileTypes, Resting
<1>3. NamesInv
  BY <1>1, NoFileIsNobodys DEF NamesInv
<1>4. HoldInv
  BY <1>1 DEF HoldInv, Holding
<1>5. ClearInv /\ StaysInv
  BY <1>1, NoFileIsNobodys DEF ClearInv, StaysInv, Me
<1>6. QED
  BY <1>2, <1>3, <1>4, <1>5 DEF FileInv

(* A step of the collectors, or one that leaves the files alone: reading,   *)
(* rendering, validating, or being killed.                                  *)
LEMMA FilesAlone ==
    ASSUME FileInv, UNCHANGED << runsLeft, docx, json, history, taken >>,
           pc' \in [Generators -> AtWork \union Publishing \union Resting],
           \A g \in Generators :
              \/ pc'[g] = pc[g]
              \/ pc[g] \in AtWork /\ pc'[g] \in AtWork \union {"open_docx", "failed"}
              \/ pc[g] = "validate" /\ pc'[g] \in {"record", "undo_docx"}
              \/ pc[g] \notin Resting /\ pc'[g] = "crashed"
    PROVE  FileInv'
<1> USE SectionList DEF FileInv, AtWork, Holding, Resting, SectionSet
<1>1. \A g \in Generators : Me(g)' = Me(g)
  BY DEF Me
<1>2. FileTypes'
  BY DEF FileTypes
<1>3. NamesInv'
  BY <1>1 DEF NamesInv, Me
<1>4. HoldInv'
  BY <1>1 DEF HoldInv
<1>5. ClearInv'
  BY <1>1 DEF ClearInv
<1>6. StaysInv'
  BY DEF StaysInv
<1>7. QED
  BY <1>2, <1>3, <1>4, <1>5, <1>6

(* A new invocation has a name that nothing bears yet. *)
LEMMA BeginFiles ==
    ASSUME FileInv, NEW g \in Generators, Begin(g)
    PROVE  FileInv'
<1> USE SectionList DEF FileInv, AtWork, Publishing, Holding, Resting, SectionSet
<1>1. /\ runsLeft[g] \in Nat /\ runsLeft[g] > 0
      /\ runsLeft' = [runsLeft EXCEPT ![g] = runsLeft[g] - 1]
      /\ UNCHANGED << docx, json, history, taken >>
      /\ \E next \in {"runs", "failed"} : pc' = [pc EXCEPT ![g] = next]
  <2>1. runsLeft[g] \in Nat
    BY DEF FileTypes
  <2>2. Sections[1] = "runs"
    BY SectionsAt
  <2>3. QED
    BY <2>1, <2>2 DEF Begin, fileVars
<1>2. /\ runsLeft'[g] \in Nat /\ runsLeft'[g] < runsLeft[g] /\ pc'[g] \in {"runs", "failed"}
      /\ runsLeft' \in [Generators -> Nat]
      /\ \A h \in Generators \ {g} : pc'[h] = pc[h] /\ runsLeft'[h] = runsLeft[h]
  BY <1>1 DEF FileTypes
<1>3. /\ Me(g)' = << g, runsLeft'[g] >>
      /\ \A h \in Generators \ {g} : Me(h)' = Me(h)
  BY <1>2 DEF Me
<1>4. Me(g)' \notin history /\ docx.by # Me(g)' /\ json.by # Me(g)'
  BY <1>2, <1>3 DEF NamesInv
<1>5. FileTypes'
  BY <1>1, <1>2 DEF FileTypes
<1>6. NamesInv'
  <2>1. \A h \in Generators : \A n \in Nat : n < runsLeft'[h] => n < runsLeft[h]
    BY <1>1, <1>2
  <2>2. QED
    BY <1>1, <1>2, <1>3, <1>4, <2>1 DEF NamesInv
<1>7. HoldInv'
  BY <1>1, <1>2, <1>3 DEF HoldInv
<1>8. ClearInv'
  BY <1>1, <1>2, <1>3, <1>4 DEF ClearInv
<1>9. StaysInv'
  BY <1>1 DEF StaysInv
<1>10. QED
  BY <1>5, <1>6, <1>7, <1>8, <1>9

LEMMA OpenDocxFiles ==
    ASSUME FileInv, NEW g \in Generators, OpenDocx(g)
    PROVE  FileInv'
<1> USE SectionList DEF FileInv, AtWork, Publishing, Holding, Resting, SectionSet, dbVars, fileVars
<1>1. /\ \A h \in Generators \ {g} : Me(h)' = Me(h) /\ pc'[h] = pc[h] /\ Me(h) # Me(g)'
      /\ FileTypes
  BY NamesDiffer DEF OpenDocx, Goto, Me, FileTypes
<1>2. FileTypes'
  <2>1. [by |-> Me(g), whole |-> FALSE] \in [by : Ids, whole : BOOLEAN]
    BY <1>1, MeInIds
  <2>2. QED
    BY <1>1, <2>1 DEF OpenDocx, Goto, FileTypes
<1>3. NamesInv'
  BY <1>1, NoFileIsNobodys DEF OpenDocx, Goto, NamesInv, FileTypes, Me
<1>4. HoldInv'
  BY <1>1, NoFileIsNobodys DEF OpenDocx, Goto, HoldInv, FileTypes, Me
<1>5. ClearInv'
  BY <1>1, NoFileIsNobodys DEF OpenDocx, Goto, ClearInv, FileTypes, Me
<1>6. StaysInv'
  BY <1>1, NoFileIsNobodys DEF OpenDocx, Goto, StaysInv, FileTypes, NamesInv, HoldInv
<1>7. QED
  BY <1>2, <1>3, <1>4, <1>5, <1>6

LEMMA WriteDocxFiles ==
    ASSUME FileInv, NEW g \in Generators, WriteDocx(g)
    PROVE  FileInv'
<1> USE SectionList DEF FileInv, AtWork, Publishing, Holding, Resting, SectionSet, dbVars, fileVars
<1>1. /\ \A h \in Generators \ {g} : Me(h)' = Me(h) /\ pc'[h] = pc[h] /\ Me(h) # Me(g)'
      /\ FileTypes
  BY NamesDiffer DEF WriteDocx, Goto, Me, FileTypes
<1>2. FileTypes'
  BY <1>1, NoFileIsNobodys, MeInIds DEF WriteDocx, Goto, FileTypes
<1>3. NamesInv'
  BY <1>1, NoFileIsNobodys DEF WriteDocx, Goto, NamesInv, FileTypes, Me
<1>4. HoldInv'
  BY <1>1, NoFileIsNobodys DEF WriteDocx, Goto, HoldInv, FileTypes, Me
<1>5. ClearInv'
  BY <1>1, NoFileIsNobodys DEF WriteDocx, Goto, ClearInv, FileTypes, Me
<1>6. StaysInv'
  BY <1>1, NoFileIsNobodys DEF WriteDocx, Goto, StaysInv, FileTypes, NamesInv, HoldInv
<1>7. QED
  BY <1>2, <1>3, <1>4, <1>5, <1>6

LEMMA OpenJsonFiles ==
    ASSUME FileInv, NEW g \in Generators, OpenJson(g)
    PROVE  FileInv'
<1> USE SectionList DEF FileInv, AtWork, Publishing, Holding, Resting, SectionSet, dbVars, fileVars
<1>1. /\ \A h \in Generators \ {g} : Me(h)' = Me(h) /\ pc'[h] = pc[h] /\ Me(h) # Me(g)'
      /\ FileTypes
  BY NamesDiffer DEF OpenJson, Goto, Me, FileTypes
<1>2. FileTypes'
  <2>1. [by |-> Me(g), whole |-> FALSE] \in [by : Ids, whole : BOOLEAN]
    BY <1>1, MeInIds
  <2>2. QED
    BY <1>1, <2>1 DEF OpenJson, Goto, FileTypes
<1>3. NamesInv'
  BY <1>1, NoFileIsNobodys DEF OpenJson, Goto, NamesInv, FileTypes, Me
<1>4. HoldInv'
  BY <1>1, NoFileIsNobodys DEF OpenJson, Goto, HoldInv, FileTypes, Me
<1>5. ClearInv'
  BY <1>1, NoFileIsNobodys DEF OpenJson, Goto, ClearInv, FileTypes, Me
<1>6. StaysInv'
  BY <1>1, NoFileIsNobodys DEF OpenJson, Goto, StaysInv, FileTypes, NamesInv, HoldInv
<1>7. QED
  BY <1>2, <1>3, <1>4, <1>5, <1>6

LEMMA WriteJsonFiles ==
    ASSUME FileInv, NEW g \in Generators, WriteJson(g)
    PROVE  FileInv'
<1> USE SectionList DEF FileInv, AtWork, Publishing, Holding, Resting, SectionSet, dbVars, fileVars
<1>1. /\ \A h \in Generators \ {g} : Me(h)' = Me(h) /\ pc'[h] = pc[h] /\ Me(h) # Me(g)'
      /\ FileTypes
  BY NamesDiffer DEF WriteJson, Goto, Me, FileTypes
<1>2. FileTypes'
  BY <1>1, NoFileIsNobodys, MeInIds DEF WriteJson, Goto, FileTypes
<1>3. NamesInv'
  BY <1>1, NoFileIsNobodys DEF WriteJson, Goto, NamesInv, FileTypes, Me
<1>4. HoldInv'
  BY <1>1, NoFileIsNobodys DEF WriteJson, Goto, HoldInv, FileTypes, Me
<1>5. ClearInv'
  BY <1>1, NoFileIsNobodys DEF WriteJson, Goto, ClearInv, FileTypes, Me
<1>6. StaysInv'
  BY <1>1, NoFileIsNobodys DEF WriteJson, Goto, StaysInv, FileTypes, NamesInv, HoldInv
<1>7. QED
  BY <1>2, <1>3, <1>4, <1>5, <1>6

LEMMA RecordFiles ==
    ASSUME FileInv, NEW g \in Generators, Record(g)
    PROVE  FileInv'
<1> USE SectionList DEF FileInv, AtWork, Publishing, Holding, Resting, SectionSet, dbVars, fileVars
<1>1. /\ \A h \in Generators \ {g} : Me(h)' = Me(h) /\ pc'[h] = pc[h] /\ Me(h) # Me(g)'
      /\ FileTypes
  BY NamesDiffer DEF Record, Goto, Me, FileTypes
<1>2. FileTypes'
  BY <1>1, NoFileIsNobodys, MeInIds DEF Record, Goto, FileTypes
<1>3. NamesInv'
  BY <1>1, NoFileIsNobodys DEF Record, Goto, NamesInv, FileTypes, Me
<1>4. HoldInv'
  BY <1>1, NoFileIsNobodys DEF Record, Goto, HoldInv, FileTypes, Me
<1>5. ClearInv'
  BY <1>1, NoFileIsNobodys DEF Record, Goto, ClearInv, FileTypes, Me
<1>6. StaysInv'
  BY <1>1, NoFileIsNobodys DEF Record, Goto, StaysInv, FileTypes, NamesInv, HoldInv
<1>7. QED
  BY <1>2, <1>3, <1>4, <1>5, <1>6

LEMMA UndoDocxFiles ==
    ASSUME FileInv, NEW g \in Generators, UndoDocx(g)
    PROVE  FileInv'
<1> USE SectionList DEF FileInv, AtWork, Publishing, Holding, Resting, SectionSet, dbVars, fileVars
<1>1. /\ \A h \in Generators \ {g} : Me(h)' = Me(h) /\ pc'[h] = pc[h] /\ Me(h) # Me(g)'
      /\ FileTypes
  BY NamesDiffer DEF UndoDocx, Goto, Me, FileTypes
<1>2. FileTypes'
  BY <1>1, NoFileIsNobodys, MeInIds DEF UndoDocx, Goto, FileTypes
<1>3. NamesInv'
  BY <1>1, NoFileIsNobodys DEF UndoDocx, Goto, NamesInv, FileTypes, Me
<1>4. HoldInv'
  BY <1>1, NoFileIsNobodys DEF UndoDocx, Goto, HoldInv, FileTypes, Me
<1>5. ClearInv'
  BY <1>1, NoFileIsNobodys DEF UndoDocx, Goto, ClearInv, FileTypes, Me
<1>6. StaysInv'
  BY <1>1, NoFileIsNobodys DEF UndoDocx, Goto, StaysInv, FileTypes, NamesInv, HoldInv
<1>7. QED
  BY <1>2, <1>3, <1>4, <1>5, <1>6

LEMMA UndoJsonFiles ==
    ASSUME FileInv, NEW g \in Generators, UndoJson(g)
    PROVE  FileInv'
<1> USE SectionList DEF FileInv, AtWork, Publishing, Holding, Resting, SectionSet, dbVars, fileVars
<1>1. /\ \A h \in Generators \ {g} : Me(h)' = Me(h) /\ pc'[h] = pc[h] /\ Me(h) # Me(g)'
      /\ FileTypes
  BY NamesDiffer DEF UndoJson, Goto, Me, FileTypes
<1>2. FileTypes'
  BY <1>1, NoFileIsNobodys, MeInIds DEF UndoJson, Goto, FileTypes
<1>3. NamesInv'
  BY <1>1, NoFileIsNobodys DEF UndoJson, Goto, NamesInv, FileTypes, Me
<1>4. HoldInv'
  BY <1>1, NoFileIsNobodys DEF UndoJson, Goto, HoldInv, FileTypes, Me
<1>5. ClearInv'
  BY <1>1, NoFileIsNobodys DEF UndoJson, Goto, ClearInv, FileTypes, Me
<1>6. StaysInv'
  BY <1>1, NoFileIsNobodys DEF UndoJson, Goto, StaysInv, FileTypes, NamesInv, HoldInv
<1>7. QED
  BY <1>2, <1>3, <1>4, <1>5, <1>6

LEMMA TakeDocxFiles ==
    ASSUME FileInv, TakeDocx
    PROVE  FileInv'
<1> USE DEF FileInv, TakeDocx
<1>1. \A g \in Generators : Me(g)' = Me(g)
  BY DEF Me
<1>2. FileTypes'
  BY NoFileIsNobodys DEF FileTypes
<1>3. NamesInv'
  BY <1>1, NoFileIsNobodys DEF NamesInv
<1>4. \A g \in Generators : pc[g] \notin Holding
  BY DEF HoldInv, NamesInv, Holding
<1>5. HoldInv'
  BY <1>4 DEF HoldInv
<1>6. ClearInv'
  BY <1>1, NoFileIsNobodys DEF ClearInv, Me
<1>7. StaysInv'
  BY DEF StaysInv
<1>8. QED
  BY <1>2, <1>3, <1>5, <1>6, <1>7

(* Every step keeps the account of the files. *)
LEMMA FileStep == FileInv /\ [Next]_vars => FileInv'
<1> SUFFICES ASSUME FileInv, [Next]_vars PROVE FileInv'
  OBVIOUS
<1>1. pc \in [Generators -> AtWork \union Publishing \union Resting]
  BY DEF FileInv, FileTypes
<1>2. CASE UNCHANGED << runsLeft, pc, docx, json, history, taken >>
  BY <1>1, <1>2, FilesAlone
<1>3. ASSUME NEW r \in Runs, StartRun(r) \/ Store(r) \/ FinishRun(r) \/ Prune(r)
      PROVE  FileInv'
  BY <1>2, <1>3 DEF StartRun, Store, FinishRun, Prune, fileVars
<1>4. ASSUME NEW g \in Generators, Generate(g) PROVE FileInv'
  <2>1. CASE ReadSection(g) \/ EndLoop(g)
    <3>1. pc[g] \in SectionNames /\ pc' = [pc EXCEPT ![g] = After(pc[g])]
      BY <2>1, SectionList DEF ReadSection, EndLoop, Proceed, LoopOver, SectionSet
    <3>2. UNCHANGED << runsLeft, docx, json, history, taken >>
      BY <2>1 DEF ReadSection, EndLoop, fileVars
    <3>3. QED
      BY <1>1, <3>1, <3>2, AfterPlaces, FilesAlone DEF AtWork
  <2>2. CASE ReadEach(g)
    BY <1>2, <2>2 DEF ReadEach, fileVars
  <2>3. CASE Render(g) \/ Validate(g) \/ Crash(g)
    <3>1. UNCHANGED << runsLeft, docx, json, history, taken >>
      BY <2>3 DEF Render, Validate, Crash, fileVars
    <3>2. \E next \in {"open_docx", "failed", "record", "undo_docx", "crashed"} :
             /\ pc' = [pc EXCEPT ![g] = next]
             /\ \/ pc[g] = "render" /\ next \in {"open_docx", "failed"}
                \/ pc[g] = "validate" /\ next \in {"record", "undo_docx"}
                \/ pc[g] \notin Resting /\ next = "crashed"
      BY <2>3 DEF Render, Validate, Crash, Goto, Resting
    <3>3. QED
      BY <1>1, <3>1, <3>2, FilesAlone DEF AtWork, Publishing, Holding, Resting
  <2>4. QED
    BY <1>4, <2>1, <2>2, <2>3, BeginFiles, OpenDocxFiles, WriteDocxFiles, OpenJsonFiles,
       WriteJsonFiles, RecordFiles, UndoDocxFiles, UndoJsonFiles DEF Generate
<1>5. CASE TakeDocx
  BY <1>5, TakeDocxFiles
<1>6. QED
  BY <1>2, <1>3, <1>4, <1>5 DEF Next, vars

(* The DOCX of a recorded report stays, whole, until the operator takes it,*)
(* and an invocation that fails leaves neither file behind, however many   *)
(* operators generate reports on the same day and whatever is killed       *)
(* (_publish and the rollbacks of generate_reports).                       *)
THEOREM RecordedDocxIsKept == Spec => []RecordedDocxStays
<1>1. FileInv => RecordedDocxStays
  BY SectionList DEF FileInv, ClearInv, StaysInv, RecordedDocxStays, Accounted
<1>2. QED
  BY <1>1, FileInit, FileStep, PTL DEF Spec

-----------------------------------------------------------------------------
(* Reading.  What the database holds of a run, and what a model that is    *)
(* under way has of it: p is the place of the invocation, t what is left   *)
(* of its loop, m its model, R and S the rows and the status of the runs.  *)
Universe == UNION { AllRows(r) : r \in Runs }

DbInv ==
    /\ status \in [Runs -> {"idle", "running", "succeeded", "failed"}]
    /\ stored \in [Runs -> Nat]
    /\ rows \subseteq Universe
    /\ \A r \in Runs : stored[r] <= Len(Stores[r])
    /\ \A r \in Runs : status[r] = "succeeded" => stored[r] = Len(Stores[r])
    /\ \A r \in Runs : \A i \in 1..stored[r] : \A x \in Stores[r][i] :
          x.table \notin Prunable => x \in rows

(* The sections that have been read at a place. *)
Behind(p) == { s \in SectionNames : p = "render" \/ (p \in SectionNames /\ Idx(s) < Idx(p)) }

Loops == {"details", "unifi_entity", "ad_entity"}

(* The kinds of rows that a loop over devices reads. *)
OfDevice == {"alias", "device_fact", "service"}

(* The sections that are a table. *)
Whole == {"device", "fact", "unifi_site", "unifi_relation", "ad_domain", "ad_trust"}

Shape(p, t, m) ==
    /\ DOMAIN m = SectionNames
    /\ p \notin AtWork => m = Empty
    /\ p \in AtWork => \A s \in SectionNames \ Behind(p) : s # p \/ s \notin Loops => m[s] = {}
    /\ p \in Loops => t \subseteq { x.value : x \in m[LoopOver[p]] }
    /\ \A s \in Whole : \A x \in m[s] : x.table = s
    /\ \A s \in Loops : \A x \in m[s] : x.table \in LoopReads[s]

Covered(m, r, s, R) ==
    \A x \in AllRows(r) \intersect R :
        /\ s \in Whole /\ x.table = s => x \in m[s]
        /\ s \in Loops /\ x.table \in LoopReads[s] => x \in m[s]

Coverage(p, t, m, R, S) ==
    "runs" \in Behind(p) => \A r \in Runs : << r, "succeeded" >> \in m["runs"] =>
        /\ S[r] = "succeeded"
        /\ \A s \in Behind(p) : Covered(m, r, s, R)
        /\ p \in Loops => \A x \in AllRows(r) \intersect R :
              x.table \in LoopReads[p] => x \in m[p] \/ x.of \in t

Aliases(m) == { x \in m["details"] : x.table = "alias" }

(* Two aliases that say the same of two devices. *)
Doubled(a, b) == a.kind = b.kind /\ a.value = b.value /\ a.of # b.of

Agreement(p, m, R) ==
    /\ Aliases(m) \subseteq R
    /\ "reuse" \in Behind(p) => \A a, b \in Aliases(m) :
          Doubled(a, b) => (<< a.kind, a.value >> \in m["reuse"] <=> a.kind \in Reusable)
    /\ "targets" \in Behind(p) =>
          /\ \A a \in Aliases(m) : a.kind = "ipv4" => a \in m["targets"]
          /\ m["targets"] \subseteq Universe

Sound(p, t, m, R, S) ==
    Shape(p, t, m) /\ (p \in AtWork => Coverage(p, t, m, R, S) /\ Agreement(p, m, R))

SoundInv ==
    /\ DOMAIN todo = Generators /\ DOMAIN model = Generators
    /\ \A g \in Generators : Sound(pc[g], todo[g], model[g], rows, status)

ReportInv == FileInv /\ DbInv /\ SoundInv

(* The order of the sections, as far as the invariant goes by it. *)
LEMMA BehindAfter ==
    ASSUME NEW p \in SectionNames
    PROVE  /\ Behind(After(p)) = Behind(p) \union {p} /\ p \notin Behind(p)
           /\ After(p) \in AtWork /\ After(p) \notin Behind(p) \union {p}
<1> USE SectionList, SectionOrder, Afters DEF Behind, AtWork, SectionSet
<1>1. CASE p = "runs"
  BY <1>1
<1>2. CASE p = "device"
  BY <1>2
<1>3. CASE p = "details"
  BY <1>3
<1>4. CASE p = "reuse"
  BY <1>4
<1>5. CASE p = "targets"
  BY <1>5
<1>6. CASE p = "fact"
  BY <1>6
<1>7. CASE p = "unifi_site"
  BY <1>7
<1>8. CASE p = "unifi_entity"
  BY <1>8
<1>9. CASE p = "unifi_relation"
  BY <1>9
<1>10. CASE p = "ad_domain"
  BY <1>10
<1>11. CASE p = "ad_entity"
  BY <1>11
<1>12. CASE p = "ad_trust"
  BY <1>12
<1>13. QED
  BY <1>1, <1>2, <1>3, <1>4, <1>5, <1>6, <1>7, <1>8, <1>9, <1>10, <1>11, <1>12

LEMMA BehindPlaces ==
    /\ Behind("runs") = {} /\ Behind("render") = SectionNames
    /\ \A p : Behind(p) \subseteq SectionNames
    /\ "unifi_site" \in Behind("unifi_entity") /\ "ad_domain" \in Behind("ad_entity")
    /\ "device" \in Behind("details") /\ "unifi_entity" \notin Behind("unifi_site")
    /\ "ad_entity" \notin Behind("ad_domain")
    /\ \A p \in SectionNames \ {"runs"} : "runs" \in Behind(p)
    /\ \A p \in Loops : LoopOver[p] \in Behind(p)
BY SectionList, SectionOrder DEF Behind, SectionSet, Loops, LoopOver

LEMMA LoopFacts ==
    /\ DOMAIN LoopOver = Loops /\ Loops \subseteq SectionNames /\ Whole \subseteq SectionNames
    /\ LoopOver["details"] = "device" /\ LoopOver["unifi_entity"] = "unifi_site"
    /\ LoopOver["ad_entity"] = "ad_domain"
    /\ LoopReads["details"] = OfDevice
    /\ LoopReads["unifi_entity"] = {"unifi_entity"} /\ LoopReads["ad_entity"] = {"ad_entity"}
    /\ \A p \in SectionNames : After(p) \in Loops =>
          p = LoopOver[After(p)] /\ p \in Whole \ Prunable
    /\ \A p \in Loops : After(p) \notin Loops
    /\ \A p \in Loops : \A t \in LoopReads[p] : t \in DOMAIN Owners /\ Owners[t] = LoopOver[p]
BY SectionList, Afters DEF LoopOver, LoopReads, Loops, SectionSet, Whole, Prunable, Owners, OfDevice

(* A run that has succeeded has all its rows in the database, but for the  *)
(* observations retention has deleted.                                     *)
LEMMA SucceededRows ==
    ASSUME DbInv, NEW r \in Runs, status[r] = "succeeded", NEW x \in AllRows(r),
           x.table \notin Prunable
    PROVE  x \in rows
<1>1. PICK i \in DOMAIN Stores[r] : x \in Stores[r][i]
  BY DEF AllRows
<1>2. i \in 1..stored[r]
  BY StoresAssumption DEF DbInv
<1>3. QED
  BY <1>1, <1>2 DEF DbInv

(* A step of the collectors is sound for a model under way: it takes no    *)
(* row away but observations, and adds none to a run that has succeeded.   *)
LEMMA DbSound ==
    ASSUME NEW p, NEW t, NEW m, NEW R, NEW S, NEW R2, NEW S2, Sound(p, t, m, R, S),
           \A r \in Runs : S[r] = "succeeded" =>
              S2[r] = "succeeded" /\ AllRows(r) \intersect R2 \subseteq R,
           \A x \in R : x.table \notin Prunable => x \in R2
    PROVE  Sound(p, t, m, R2, S2)
<1>1. Shape(p, t, m)
  BY DEF Sound
<1>2. ASSUME p \in AtWork PROVE Coverage(p, t, m, R2, S2)
  <2>1. Coverage(p, t, m, R, S)
    BY <1>2 DEF Sound
  <2>2. QED
    BY <2>1 DEF Coverage, Covered
<1>3. ASSUME p \in AtWork PROVE Agreement(p, m, R2)
  <2>1. Agreement(p, m, R)
    BY <1>3 DEF Sound
  <2>2. Aliases(m) \subseteq R2
    BY <2>1 DEF Agreement, Aliases, Prunable
  <2>3. QED
    BY <2>1, <2>2 DEF Agreement
<1>4. QED
  BY <1>1, <1>2, <1>3 DEF Sound

(* What a section that is one statement reads. *)
LEMMA ReadOnceIs ==
    /\ ReadOnce("runs") = { << r, status[r] >> : r \in { s \in Runs : status[s] # "idle" } }
    /\ ReadOnce("reuse") = { << x.kind, x.value >> : x \in { a \in Table("alias") :
                               /\ a.kind \in Reusable
                               /\ \E b \in Table("alias") :
                                     b.kind = a.kind /\ b.value = a.value /\ b.of # a.of } }
    /\ ReadOnce("targets") = { a \in Table("alias") : a.kind = "ipv4" }
    /\ \A s \in Whole : ReadOnce(s) = Table(s)
BY DEF ReadOnce, Whole

(* Reading a section. *)
LEMMA ReadSound ==
    ASSUME DbInv, NEW p \in SectionNames \ Loops, NEW t, NEW m, NEW t2, NEW m2,
           Sound(p, t, m, rows, status),
           m2 = [m EXCEPT ![p] = ReadOnce(p)],
           t2 = IF After(p) \in DOMAIN LoopOver
                THEN { x.value : x \in m2[LoopOver[After(p)]] } ELSE {}
    PROVE  Sound(After(p), t2, m2, rows, status)
<1> DEFINE q == After(p)
<1>1. /\ Behind(q) = Behind(p) \union {p} /\ p \notin Behind(p)
      /\ q \in AtWork /\ q \notin Behind(p) \union {p}
  BY BehindAfter
<1>2. /\ Shape(p, t, m) /\ Coverage(p, t, m, rows, status) /\ Agreement(p, m, rows)
  BY DEF Sound, AtWork
<1>3. /\ DOMAIN m2 = SectionNames /\ m2[p] = ReadOnce(p)
      /\ \A s \in SectionNames : s # p => m2[s] = m[s]
  BY <1>2 DEF Shape
<1>4. \A s \in SectionNames \ Behind(p) : s # p => m2[s] = {}
  BY <1>2, <1>3 DEF Shape, AtWork
<1>5. t2 = IF q \in Loops THEN { x.value : x \in m2[LoopOver[q]] } ELSE {}
  BY LoopFacts
<1>6. q \in Loops => p = LoopOver[q] /\ p \in Whole \ Prunable
  BY LoopFacts
<1> HIDE DEF q
<1>7. Shape(q, t2, m2)
  <2>1. \A s \in Whole : \A x \in m2[s] : x.table = s
    <3>1. SUFFICES ASSUME NEW s \in Whole PROVE \A x \in m2[s] : x.table = s
      OBVIOUS
    <3>2. CASE s = p
      BY <1>3, <3>2, ReadOnceIs DEF Table
    <3>3. CASE s # p
      BY <1>2, <1>3, <3>3, LoopFacts DEF Shape
    <3>4. QED
      BY <3>2, <3>3
  <2>2. \A s \in Loops : m2[s] = m[s]
    BY <1>3, LoopFacts
  <2>3. QED
    BY <1>1, <1>2, <1>3, <1>4, <1>5, <2>1, <2>2 DEF Shape
<1>8. Coverage(q, t2, m2, rows, status)
  <2>1. CASE p = "runs"
    <3>1. q = "device"
      BY <2>1, Afters DEF q
    <3>2. Behind(q) = {"runs"}
      BY <1>1, <2>1, BehindPlaces
    <3>3. \A r \in Runs : << r, "succeeded" >> \in m2["runs"] => status[r] = "succeeded"
      BY <1>3, <2>1, ReadOnceIs
    <3>4. QED
      BY <3>1, <3>2, <3>3 DEF Coverage, Covered, Whole, Loops
  <2>2. CASE p # "runs"
    <3>1. SUFFICES ASSUME NEW r \in Runs, << r, "succeeded" >> \in m2["runs"]
                   PROVE  /\ status[r] = "succeeded"
                          /\ \A s \in Behind(q) : Covered(m2, r, s, rows)
                          /\ q \in Loops => \A x \in AllRows(r) \intersect rows :
                                x.table \in LoopReads[q] => x \in m2[q] \/ x.of \in t2
      BY DEF Coverage
    <3>2. "runs" \in Behind(p) /\ m2["runs"] = m["runs"]
      BY <1>3, <2>2, BehindPlaces
    <3>3. status[r] = "succeeded" /\ \A s \in Behind(p) : Covered(m, r, s, rows)
      BY <1>2, <3>1, <3>2 DEF Coverage
    <3>4. \A s \in Behind(p) : Covered(m2, r, s, rows)
      <4>1. TAKE s \in Behind(p)
      <4>2. m2[s] = m[s]
        BY <1>1, <1>3, BehindPlaces
      <4>3. QED
        BY <3>3, <4>2 DEF Covered
    <3>5. Covered(m2, r, p, rows)
      BY <1>3, ReadOnceIs DEF Covered, Table
    <3>6. ASSUME q \in Loops, NEW x \in AllRows(r) \intersect rows, x.table \in LoopReads[q]
          PROVE  x.of \in t2
      <4>1. x.table \in DOMAIN Owners /\ Owners[x.table] = p
        BY <1>6, <3>6, LoopFacts
      <4>2. PICK y \in AllRows(r) : y.table = p /\ y.value = x.of
        BY <3>6, <4>1, StoresAssumption
      <4>3. y \in rows
        BY <1>6, <3>3, <3>6, <4>2, SucceededRows
      <4>4. y \in m2[p]
        BY <1>3, <1>6, <3>6, <4>2, <4>3, ReadOnceIs DEF Table
      <4>5. QED
        BY <1>5, <1>6, <3>6, <4>2, <4>4
    <3>7. QED
      BY <1>1, <3>3, <3>4, <3>5, <3>6
  <2>3. QED
    BY <2>1, <2>2
<1>9. Agreement(q, m2, rows)
  <2>1. m2["details"] = m["details"] /\ Aliases(m2) = Aliases(m)
    BY <1>3, SectionList DEF Loops, Aliases, SectionSet
  <2>2. Aliases(m2) \subseteq Table("alias")
    BY <1>2, <2>1 DEF Agreement, Aliases, Table
  <2>3. Aliases(m2) \subseteq rows
    BY <2>2 DEF Table
  <2>4. "reuse" \in Behind(q) => \A a, b \in Aliases(m2) :
           Doubled(a, b) => (<< a.kind, a.value >> \in m2["reuse"] <=> a.kind \in Reusable)
    <3>1. CASE p = "reuse"
      <4>1. SUFFICES ASSUME NEW a \in Aliases(m2), NEW b \in Aliases(m2), Doubled(a, b)
                     PROVE  << a.kind, a.value >> \in ReadOnce("reuse") <=> a.kind \in Reusable
        BY <1>3, <3>1
      <4>2. a \in Table("alias") /\ b \in Table("alias")
        BY <2>2
      <4>3. QED
        BY <4>1, <4>2, ReadOnceIs DEF Doubled
    <3>2. CASE p # "reuse"
      <4>1. "reuse" \in Behind(q) => "reuse" \in Behind(p)
        BY <1>1, <3>2
      <4>2. m2["reuse"] = m["reuse"]
        BY <1>3, <3>2, SectionList DEF SectionSet
      <4>3. QED
        BY <1>2, <2>1, <4>1, <4>2 DEF Agreement
    <3>3. QED
      BY <3>1, <3>2
  <2>5. "targets" \in Behind(q) =>
           /\ \A a \in Aliases(m2) : a.kind = "ipv4" => a \in m2["targets"]
           /\ m2["targets"] \subseteq Universe
    <3>1. CASE p = "targets"
      BY <1>3, <2>2, <3>1, ReadOnceIs DEF Table, DbInv
    <3>2. CASE p # "targets"
      BY <1>1, <1>2, <1>3, <2>1, <3>2, SectionList DEF Agreement, SectionSet
    <3>3. QED
      BY <3>1, <3>2
  <2>6. QED
    BY <2>3, <2>4, <2>5 DEF Agreement
<1>10. QED
  BY <1>7, <1>8, <1>9 DEF Sound, q

(* A turn of a loop. *)
LEMMA EachSound ==
    ASSUME NEW p \in Loops, NEW t, NEW m, NEW R, NEW S, NEW d \in t, NEW read, NEW m2,
           Sound(p, t, m, R, S),
           read = { x \in R : x.table \in LoopReads[p] /\ x.of = d },
           m2 = [m EXCEPT ![p] = m[p] \union read]
    PROVE  Sound(p, t \ {d}, m2, R, S)
<1>1. p \in SectionNames /\ p \in AtWork
  BY LoopFacts DEF AtWork
<1>2. Shape(p, t, m) /\ Coverage(p, t, m, R, S) /\ Agreement(p, m, R)
  BY <1>1 DEF Sound
<1>3. /\ DOMAIN m2 = SectionNames /\ m2[p] = m[p] \union read
      /\ \A s \in SectionNames : s # p => m2[s] = m[s]
  BY <1>1, <1>2 DEF Shape
<1>4. p \notin Behind(p) /\ LoopOver[p] \in SectionNames /\ LoopOver[p] # p
  BY <1>1, BehindAfter, BehindPlaces
<1>5. Shape(p, t \ {d}, m2)
  <2>1. \A s \in Whole : m2[s] = m[s]
    BY <1>3, LoopFacts DEF Whole, Loops
  <2>2. \A s \in Loops : \A x \in m2[s] : x.table \in LoopReads[s]
    <3>1. SUFFICES ASSUME NEW s \in Loops PROVE \A x \in m2[s] : x.table \in LoopReads[s]
      OBVIOUS
    <3>2. CASE s = p
      BY <1>2, <1>3, <3>2 DEF Shape
    <3>3. CASE s # p
      BY <1>2, <1>3, <3>3, LoopFacts DEF Shape
    <3>4. QED
      BY <3>2, <3>3
  <2>3. QED
    BY <1>1, <1>2, <1>3, <1>4, <2>1, <2>2 DEF Shape
<1>6. Coverage(p, t \ {d}, m2, R, S)
  <2>1. SUFFICES ASSUME NEW r \in Runs, << r, "succeeded" >> \in m2["runs"],
                        "runs" \in Behind(p)
                 PROVE  /\ S[r] = "succeeded"
                        /\ \A s \in Behind(p) : Covered(m2, r, s, R)
                        /\ \A x \in AllRows(r) \intersect R :
                              x.table \in LoopReads[p] => x \in m2[p] \/ x.of \in t \ {d}
    BY DEF Coverage
  <2>2. \A s \in Behind(p) : m2[s] = m[s]
    BY <1>3, <1>4, BehindPlaces
  <2>3. /\ S[r] = "succeeded" /\ \A s \in Behind(p) : Covered(m, r, s, R)
        /\ \A x \in AllRows(r) \intersect R : x.table \in LoopReads[p] => x \in m[p] \/ x.of \in t
    BY <1>2, <2>1, <2>2 DEF Coverage
  <2>4. \A s \in Behind(p) : Covered(m2, r, s, R)
    BY <2>2, <2>3 DEF Covered
  <2>5. QED
    BY <1>3, <2>3, <2>4
<1>7. Agreement(p, m2, R)
  <2>1. /\ "reuse" \in Behind(p) => p # "details"
        /\ "targets" \in Behind(p) => p # "details"
    BY SectionList, SectionOrder DEF Behind, SectionSet
  <2>2. {"details", "reuse", "targets"} \subseteq SectionNames /\ p \notin {"reuse", "targets"}
    BY SectionList DEF SectionSet, Loops
  <2>3. Aliases(m2) \subseteq R
    <3>1. CASE p = "details"
      BY <1>2, <1>3, <3>1 DEF Agreement, Aliases
    <3>2. CASE p # "details"
      BY <1>2, <1>3, <2>2, <3>2 DEF Agreement, Aliases
    <3>3. QED
      BY <3>1, <3>2
  <2>4. p # "details" => Aliases(m2) = Aliases(m)
    BY <1>3, <2>2 DEF Aliases
  <2>5. m2["reuse"] = m["reuse"] /\ m2["targets"] = m["targets"]
    BY <1>3, <2>2
  <2>6. QED
    BY <1>2, <2>1, <2>3, <2>4, <2>5 DEF Agreement
<1>8. QED
  BY <1>5, <1>6, <1>7 DEF Sound

(* The end of a loop: nothing is left to be read. *)
LEMMA EndSound ==
    ASSUME NEW p \in Loops, NEW m, NEW R, NEW S, Sound(p, {}, m, R, S)
    PROVE  Sound(After(p), {}, m, R, S)
<1>1. p \in SectionNames /\ p \in AtWork
  BY LoopFacts DEF AtWork
<1>2. Shape(p, {}, m) /\ Coverage(p, {}, m, R, S) /\ Agreement(p, m, R)
  BY <1>1 DEF Sound
<1>3. /\ Behind(After(p)) = Behind(p) \union {p} /\ p \notin Behind(p)
      /\ After(p) \in AtWork /\ After(p) \notin Behind(p) \union {p} /\ After(p) \notin Loops
  BY <1>1, BehindAfter, LoopFacts
<1>4. Shape(After(p), {}, m)
  BY <1>1, <1>2, <1>3 DEF Shape
<1>5. "runs" \in Behind(p)
  BY <1>1, BehindPlaces DEF Loops
<1>6. Coverage(After(p), {}, m, R, S)
  <2>1. p \notin Whole
    BY DEF Loops, Whole
  <2>2. QED
    BY <1>2, <1>3, <1>5, <2>1 DEF Coverage, Covered
<1>7. Agreement(After(p), m, R)
  BY <1>2, <1>3 DEF Agreement, Loops
<1>8. QED
  BY <1>4, <1>6, <1>7 DEF Sound

(* Before the first statement, and when the model has been given up. *)
LEMMA EmptySound ==
    ASSUME NEW p, NEW t, NEW R, NEW S, p = "runs" \/ p \notin AtWork
    PROVE  Sound(p, t, Empty, R, S)
<1>1. DOMAIN Empty = SectionNames /\ \A s \in SectionNames : Empty[s] = {}
  BY DEF Empty
<1>2. p \notin Loops
  BY LoopFacts DEF Loops, AtWork
<1>3. Shape(p, t, Empty)
  BY <1>1, <1>2, LoopFacts DEF Shape
<1>4. p = "runs" => Coverage(p, t, Empty, R, S) /\ Agreement(p, Empty, R)
  BY <1>1, BehindPlaces, SectionList DEF Coverage, Agreement, Aliases, SectionSet
<1>5. QED
  BY <1>3, <1>4 DEF Sound

(* What the steps of the collectors keep of the database. *)
LEMMA DbInit == Init => DbInv
<1> SUFFICES ASSUME Init PROVE DbInv
  OBVIOUS
<1>1. PICK earlier \in SUBSET Runs :
         /\ status = [r \in Runs |-> IF r \in earlier THEN "succeeded" ELSE "idle"]
         /\ stored = [r \in Runs |-> IF r \in earlier THEN Len(Stores[r]) ELSE 0]
         /\ rows = UNION { AllRows(r) : r \in earlier }
  BY DEF Init
<1>2. \A r \in Runs : Len(Stores[r]) \in Nat /\ DOMAIN Stores[r] = 1..Len(Stores[r])
  BY StoresAssumption
<1>3. status \in [Runs -> {"idle", "running", "succeeded", "failed"}] /\ stored \in [Runs -> Nat]
  BY <1>1, <1>2
<1>4. rows \subseteq Universe
  BY <1>1 DEF Universe
<1>5. \A r \in Runs : /\ stored[r] <= Len(Stores[r])
                      /\ status[r] = "succeeded" => stored[r] = Len(Stores[r])
  BY <1>1, <1>2
<1>6. \A r \in Runs : \A i \in 1..stored[r] : \A x \in Stores[r][i] :
         x.table \notin Prunable => x \in rows
  BY <1>1, <1>2 DEF AllRows
<1>7. QED
  BY <1>3, <1>4, <1>5, <1>6 DEF DbInv

LEMMA DbStep ==
    ASSUME DbInv, NEW r \in Runs, StartRun(r) \/ Store(r) \/ FinishRun(r) \/ Prune(r)
    PROVE  /\ DbInv'
           /\ \A s \in Runs : status[s] = "succeeded" =>
                 status'[s] = "succeeded" /\ AllRows(s) \intersect rows' \subseteq rows
           /\ \A x \in rows : x.table \notin Prunable => x \in rows'
<1>1. \A s \in Runs : Len(Stores[s]) \in Nat /\ DOMAIN Stores[s] = 1..Len(Stores[s])
  BY StoresAssumption
<1>2. CASE StartRun(r) \/ FinishRun(r)
  <2>1. UNCHANGED << stored, rows >>
    BY <1>2 DEF StartRun, FinishRun
  <2>2. PICK v \in {"running", "succeeded", "failed"} :
           /\ status' = [status EXCEPT ![r] = v]
           /\ status[r] # "succeeded"
           /\ v = "succeeded" => stored[r] = Len(Stores[r])
    BY <1>2 DEF StartRun, FinishRun
  <2>3. QED
    BY <2>1, <2>2 DEF DbInv
<1>3. CASE Store(r)
  <2>1. /\ status[r] = "running" /\ UNCHANGED status /\ stored[r] < Len(Stores[r])
        /\ stored' = [stored EXCEPT ![r] = stored[r] + 1]
        /\ rows' = rows \union Stores[r][stored[r] + 1]
    BY <1>3 DEF Store
  <2>2. stored[r] \in Nat /\ stored[r] + 1 \in DOMAIN Stores[r]
    BY <1>1, <2>1 DEF DbInv
  <2>3. Stores[r][stored[r] + 1] \subseteq AllRows(r)
    BY <2>2 DEF AllRows
  <2>4. \A s \in Runs : status[s] = "succeeded" => AllRows(s) \intersect rows' \subseteq rows
    <3>1. SUFFICES ASSUME NEW s \in Runs, status[s] = "succeeded",
                          NEW x \in AllRows(s), x \in Stores[r][stored[r] + 1]
                   PROVE  x \in rows
      BY <2>1
    <3>2. s # r /\ x \in AllRows(r)
      BY <2>1, <2>3, <3>1
    <3>3. x.table \notin Prunable
      BY <3>1, <3>2, StoresAssumption
    <3>4. QED
      BY <3>1, <3>3, SucceededRows
  <2>5. DbInv'
    <3>1. stored' \in [Runs -> Nat] /\ rows' \subseteq Universe
      BY <2>1, <2>2, <2>3 DEF DbInv, Universe
    <3>2. \A s \in Runs : stored'[s] <= Len(Stores[s])
      BY <1>1, <2>1, <2>2 DEF DbInv
    <3>3. \A s \in Runs : status'[s] = "succeeded" => stored'[s] = Len(Stores[s])
      BY <2>1 DEF DbInv
    <3>4. \A s \in Runs : \A i \in 1..stored'[s] : \A x \in Stores[s][i] :
             x.table \notin Prunable => x \in rows'
      <4>1. SUFFICES ASSUME NEW s \in Runs, NEW i \in 1..stored'[s], NEW x \in Stores[s][i],
                            x.table \notin Prunable
                     PROVE  x \in rows'
        OBVIOUS
      <4>2. i \in 1..stored[s] \/ (s = r /\ i = stored[r] + 1)
        BY <2>1, <2>2 DEF DbInv
      <4>3. QED
        BY <2>1, <4>1, <4>2 DEF DbInv
    <3>5. QED
      BY <2>1, <3>1, <3>2, <3>3, <3>4 DEF DbInv
  <2>6. QED
    BY <2>1, <2>4, <2>5
<1>4. CASE Prune(r)
  <2>1. /\ UNCHANGED << status, stored >>
        /\ rows' = { x \in rows : x \notin AllRows(r) \/ x.table \notin Prunable }
    BY <1>4 DEF Prune
  <2>2. QED
    BY <2>1 DEF DbInv
<1>5. QED
  BY <1>2, <1>3, <1>4

LEMMA SoundInit == Init => SoundInv
<1> SUFFICES ASSUME Init PROVE SoundInv
  OBVIOUS
<1>1. /\ pc = [g \in Generators |-> "idle"] /\ todo = [g \in Generators |-> {}]
      /\ model = [g \in Generators |-> Empty]
  BY DEF Init
<1>2. "idle" \notin AtWork
  BY SectionList DEF AtWork, SectionSet
<1>3. QED
  BY <1>1, <1>2, EmptySound DEF SoundInv

(* A step of one invocation leaves the models of the others alone. *)
LEMMA OneGenerator ==
    ASSUME ReportInv, NEW g \in Generators, UNCHANGED << rows, status >>,
           DOMAIN todo' = Generators, DOMAIN model' = Generators,
           \A h \in Generators \ {g} :
              pc'[h] = pc[h] /\ todo'[h] = todo[h] /\ model'[h] = model[h],
           Sound(pc'[g], todo'[g], model'[g], rows, status)
    PROVE  SoundInv'
BY DEF ReportInv, SoundInv

LEMMA GenerateSound ==
    ASSUME ReportInv, NEW g \in Generators, Generate(g)
    PROVE  DbInv' /\ SoundInv'
<1>1. /\ pc \in [Generators -> AtWork \union Publishing \union Resting]
      /\ DOMAIN todo = Generators /\ DOMAIN model = Generators
      /\ Sound(pc[g], todo[g], model[g], rows, status) /\ DbInv
  BY DEF ReportInv, FileInv, FileTypes, SoundInv
<1>2. UNCHANGED << status, stored, rows >>
  BY DEF Generate, Begin, ReadSection, ReadEach, EndLoop, Render, OpenDocx, WriteDocx, OpenJson,
         WriteJson, Validate, Record, UndoDocx, UndoJson, Crash, dbVars
<1>3. DbInv'
  BY <1>1, <1>2 DEF DbInv
<1>4. AtWork \intersect (Publishing \union Resting) = {}
  BY SectionList DEF AtWork, SectionSet, Publishing, Holding, Resting
<1>5. pc[g] \notin AtWork => model[g] = Empty
  BY <1>1 DEF Sound, Shape
<1>6. CASE Begin(g)
  <2>1. \E next \in {"runs", "failed"} : pc' = [pc EXCEPT ![g] = next]
    BY <1>6, SectionsAt DEF Begin
  <2>2. model'[g] = Empty /\ UNCHANGED << todo, model >>
    BY <1>4, <1>5, <1>6 DEF Begin, Resting
  <2>3. pc'[g] = "runs" \/ pc'[g] \notin AtWork
    BY <1>1, <1>4, <2>1 DEF Resting
  <2>4. \A h \in Generators \ {g} : pc'[h] = pc[h]
    BY <1>1, <2>1
  <2>5. QED
    BY <1>1, <1>2, <1>3, <2>2, <2>3, <2>4, EmptySound, OneGenerator
<1>7. CASE ReadSection(g)
  <2> DEFINE m2 == [model[g] EXCEPT ![pc[g]] = ReadOnce(pc[g])]
             t2 == IF After(pc[g]) \in DOMAIN LoopOver
                   THEN { x.value : x \in m2[LoopOver[After(pc[g])]] } ELSE {}
  <2>1. pc[g] \in SectionNames \ Loops
    BY <1>7, LoopFacts DEF ReadSection
  <2>2. /\ model' = [model EXCEPT ![g] = m2] /\ todo' = [todo EXCEPT ![g] = t2]
        /\ pc' = [pc EXCEPT ![g] = After(pc[g])]
    BY <1>7 DEF ReadSection, Proceed
  <2>3. Sound(After(pc[g]), t2, m2, rows, status)
    BY <1>1, <2>1, ReadSound
  <2> HIDE DEF m2, t2
  <2>4. QED
    BY <1>1, <1>2, <1>3, <2>2, <2>3, OneGenerator
<1>8. CASE ReadEach(g)
  <2> DEFINE d == NextOf(todo[g])
             read == DetailRows(pc[g], d)
             m2 == [model[g] EXCEPT ![pc[g]] = model[g][pc[g]] \union read]
  <2>1. pc[g] \in Loops /\ d \in todo[g] /\ UNCHANGED pc
    BY <1>8, LoopFacts DEF ReadEach, NextOf
  <2>2. model' = [model EXCEPT ![g] = m2]
    BY <1>8 DEF ReadEach
  <2>3. todo' = [todo EXCEPT ![g] = todo[g] \ {d}]
    BY <1>8 DEF ReadEach
  <2>4. Sound(pc[g], todo[g] \ {d}, m2, rows, status)
    BY <1>1, <2>1, EachSound DEF DetailRows
  <2> HIDE DEF d, read, m2
  <2>5. QED
    BY <1>1, <1>2, <1>3, <2>1, <2>2, <2>3, <2>4, OneGenerator
<1>9. CASE EndLoop(g)
  <2>1. pc[g] \in Loops /\ todo[g] = {} /\ After(pc[g]) \notin DOMAIN LoopOver
    BY <1>9, LoopFacts DEF EndLoop
  <2>2. /\ pc' = [pc EXCEPT ![g] = After(pc[g])] /\ todo' = [todo EXCEPT ![g] = {}]
        /\ UNCHANGED model
    BY <1>9, <2>1 DEF EndLoop, Proceed
  <2>3. Sound(After(pc[g]), {}, model[g], rows, status)
    BY <1>1, <2>1, EndSound
  <2>4. QED
    BY <1>1, <1>2, <1>3, <2>2, <2>3, OneGenerator
<1>10. CASE Render(g) \/ Crash(g)
  <2>1. /\ model' = [model EXCEPT ![g] = Empty]
        /\ todo' \in {todo, [todo EXCEPT ![g] = {}]}
        /\ \E next \in {"open_docx", "failed", "crashed"} : pc' = [pc EXCEPT ![g] = next]
    BY <1>10 DEF Render, Crash, Goto
  <2>2. pc'[g] \notin AtWork
    BY <1>1, <1>4, <2>1 DEF Publishing, Resting
  <2>3. Sound(pc'[g], todo'[g], Empty, rows, status)
    BY <2>2, EmptySound
  <2>4. QED
    BY <1>1, <1>2, <1>3, <2>1, <2>3, OneGenerator
<1>11. CASE \/ OpenDocx(g) \/ WriteDocx(g) \/ OpenJson(g) \/ WriteJson(g) \/ Validate(g)
            \/ Record(g) \/ UndoDocx(g) \/ UndoJson(g)
  <2>1. /\ UNCHANGED << todo, model >> /\ pc[g] \in Publishing
        /\ \E next \in Publishing \union Resting : pc' = [pc EXCEPT ![g] = next]
    BY <1>11 DEF OpenDocx, WriteDocx, OpenJson, WriteJson, Validate, Record, UndoDocx, UndoJson,
                 Goto, Publishing, Holding, Resting
  <2>2. pc'[g] \notin AtWork /\ pc[g] \notin AtWork
    BY <1>1, <1>4, <2>1
  <2>3. Sound(pc'[g], todo'[g], model'[g], rows, status)
    BY <1>5, <2>1, <2>2, EmptySound
  <2>4. QED
    BY <1>1, <1>2, <1>3, <2>1, <2>3, OneGenerator
<1>12. QED
  BY <1>6, <1>7, <1>8, <1>9, <1>10, <1>11 DEF Generate

(* The inductive invariant of report generation beside the collectors. *)
THEOREM ReportInvariant == Spec => []ReportInv
<1>1. Init => ReportInv
  BY FileInit, DbInit, SoundInit DEF ReportInv
<1>2. ReportInv /\ [Next]_vars => ReportInv'
  <2> SUFFICES ASSUME ReportInv, [Next]_vars PROVE ReportInv'
    OBVIOUS
  <2>1. FileInv'
    BY FileStep DEF ReportInv
  <2>2. CASE UNCHANGED << status, stored, rows, pc, todo, model >>
    BY <2>1, <2>2 DEF ReportInv, DbInv, SoundInv
  <2>3. ASSUME NEW r \in Runs, StartRun(r) \/ Store(r) \/ FinishRun(r) \/ Prune(r)
        PROVE  ReportInv'
    <3>1. UNCHANGED << pc, todo, model >>
      BY <2>3 DEF StartRun, Store, FinishRun, Prune
    <3>2. /\ DbInv'
          /\ \A s \in Runs : status[s] = "succeeded" =>
                status'[s] = "succeeded" /\ AllRows(s) \intersect rows' \subseteq rows
          /\ \A x \in rows : x.table \notin Prunable => x \in rows'
      BY <2>3, DbStep DEF ReportInv
    <3>3. \A g \in Generators : Sound(pc[g], todo[g], model[g], rows', status')
      BY <3>2, DbSound DEF ReportInv, SoundInv
    <3>4. SoundInv'
      BY <3>1, <3>3 DEF ReportInv, SoundInv
    <3>5. QED
      BY <2>1, <3>2, <3>4 DEF ReportInv
  <2>4. ASSUME NEW g \in Generators, Generate(g) PROVE ReportInv'
    BY <2>1, <2>4, GenerateSound DEF ReportInv
  <2>5. CASE TakeDocx
    BY <2>2, <2>5 DEF TakeDocx, dbVars
  <2>6. QED
    BY <2>2, <2>3, <2>4, <2>5 DEF Next, vars
<1>3. QED
  BY <1>1, <1>2, PTL DEF Spec

(* A report that lists a run as succeeded shows every row that run stored  *)
(* and retention has left, except the rows it has no place for, however    *)
(* the collectors' transactions and the statements of build_report_model   *)
(* interleave.                                                             *)
THEOREM CoverageIsHonest == Spec => []CoverageHonest
<1>1. ReportInv => CoverageHonest
  <2> SUFFICES ASSUME ReportInv, NEW g \in Generators, NEW r \in Runs, pc[g] = "render",
                      << r, "succeeded" >> \in model[g]["runs"],
                      NEW x \in AllRows(r) \intersect rows
               PROVE  x \in Shown(model[g]) <=> ~LeftOut(x)
    BY DEF CoverageHonest
  <2> DEFINE m == model[g]
  <2>1. Sound("render", todo[g], m, rows, status) /\ DbInv
    BY DEF ReportInv, SoundInv
  <2>2. Coverage("render", todo[g], m, rows, status) /\ Shape("render", todo[g], m)
    BY <2>1 DEF Sound, AtWork
  <2> HIDE DEF m
  <2>3. "runs" \in SectionNames /\ Behind("render") = SectionNames
    BY SectionList, BehindPlaces DEF SectionSet
  <2>4. status[r] = "succeeded" /\ \A s \in SectionNames : Covered(m, r, s, rows)
    BY <2>2, <2>3 DEF Coverage, m
  <2>5. /\ \A s \in Whole : \A y \in AllRows(r) \intersect rows : y.table = s => y \in m[s]
        /\ \A s \in Loops : \A y \in AllRows(r) \intersect rows : y.table \in LoopReads[s] => y \in m[s]
    BY <2>4, LoopFacts DEF Covered
  <2>6. x \in Shown(m) => ~LeftOut(x)
    <3>1. /\ \A s \in Whole : x \in m[s] => x.table = s
          /\ \A s \in Loops : x \in m[s] => x.table \in LoopReads[s]
      BY <2>2 DEF Shape
    <3>2. x \in m["fact"] /\ x.kind = "mapped" => ~LeftOut(x)
      BY <3>1 DEF Whole, LeftOut
    <3>3. x \in m["details"] \union m["unifi_entity"] \union m["ad_entity"] => ~LeftOut(x)
      BY <3>1, LoopFacts DEF Loops, OfDevice, LeftOut
    <3>4. \A s \in Whole \ {"fact"} : x \in m[s] => ~LeftOut(x)
      BY <3>1 DEF Whole, LeftOut
    <3>5. QED
      BY <3>2, <3>3, <3>4 DEF Shown, InfrastructureRecords, UnifiRelations, Whole
  <2>7. ~LeftOut(x) => x \in Shown(m)
    <3>1. SUFFICES ASSUME ~LeftOut(x) PROVE x \in Shown(m)
      OBVIOUS
    <3>2. x.table \in Tables
      BY StoresAssumption
    <3>3. CASE x.table \in OfDevice
      BY <2>5, <3>3, LoopFacts DEF Shown, Loops
    <3>4. CASE x.table = "unifi_relation"
      <4>1. "unifi_relation" \in DOMAIN Owners /\ Owners["unifi_relation"] = "unifi_entity"
        BY DEF Owners
      <4>2. PICK y \in AllRows(r) : y.table = "unifi_entity" /\ y.value = x.of
        BY <3>4, <4>1, StoresAssumption
      <4>3. y \in rows
        BY <2>1, <2>4, <4>2, SucceededRows DEF Prunable
      <4>4. y \in m["unifi_entity"] /\ x \in m["unifi_relation"]
        BY <2>5, <3>4, <4>2, <4>3, LoopFacts DEF Loops, Whole
      <4>5. QED
        BY <4>2, <4>4 DEF Shown, UnifiRelations
    <3>5. CASE x.table \in {"unifi_entity", "ad_entity"}
      BY <2>5, <3>5, LoopFacts DEF Shown, Loops
    <3>6. CASE x.table = "fact"
      BY <2>5, <3>1, <3>6 DEF Shown, InfrastructureRecords, LeftOut, Whole
    <3>7. CASE x.table \in {"device", "unifi_site", "ad_domain", "ad_trust"}
      BY <2>5, <3>7 DEF Shown, Whole
    <3>8. QED
      BY <3>1, <3>2, <3>3, <3>4, <3>5, <3>6, <3>7 DEF Tables, OfDevice, LeftOut
  <2>8. QED
    BY <2>6, <2>7 DEF m
<1>2. QED
  BY <1>1, ReportInvariant, PTL

(* The sections of one report agree although each reads a later state of   *)
(* the database than the one before: an address or a hostname on two       *)
(* devices is listed as a conflict, a MAC is not, and a fact is attributed *)
(* only to the one device the report shows with that address.              *)
THEOREM SectionsDoAgree == Spec => []SectionsAgree
<1>1. ReportInv => SectionsAgree
  <2> SUFFICES ASSUME ReportInv, NEW g \in Generators, pc[g] = "render", NEW m, m = model[g]
               PROVE
                 /\ \A a, b \in Aliases(m) :
                       Doubled(a, b) => (<< a.kind, a.value >> \in m["reuse"] <=> a.kind \in Reusable)
                 /\ \A x \in m["fact"], a \in Aliases(m) :
                       a.kind = "ipv4" /\ a.value = x.of => DeviceKey(m, x.of) \subseteq {a.of}
    BY DEF SectionsAgree, Aliases, Doubled
  <2>1. Agreement("render", m, rows)
    BY DEF ReportInv, SoundInv, Sound, AtWork
  <2>2. Behind("render") = SectionNames /\ {"reuse", "targets"} \subseteq SectionNames
    BY SectionList, BehindPlaces DEF SectionSet
  <2>3. /\ \A a, b \in Aliases(m) :
              Doubled(a, b) => (<< a.kind, a.value >> \in m["reuse"] <=> a.kind \in Reusable)
        /\ \A a \in Aliases(m) : a.kind = "ipv4" => a \in m["targets"]
        /\ m["targets"] \subseteq Universe
    BY <2>1, <2>2 DEF Agreement
  <2>4. ASSUME NEW x \in m["fact"], NEW a \in Aliases(m), a.kind = "ipv4", a.value = x.of
        PROVE  DeviceKey(m, x.of) \subseteq {a.of}
    <3> DEFINE held == { y \in m["targets"] : y.value = x.of }
               holders == { y.of : y \in held }
    <3>1. a.of \in holders
      BY <2>3, <2>4
    <3>2. IsFiniteSet(holders)
      <4>1. IsFiniteSet(Universe)
        BY StoresAssumption DEF Universe
      <4>2. IsFiniteSet(held)
        BY <2>3, <4>1, FS_Subset
      <4> DEFINE owner == [y \in held |-> y.of]
      <4>3. owner \in Surjection(held, holders)
        BY DEF Surjection
      <4> HIDE DEF held, holders, owner
      <4>4. QED
        BY <4>2, <4>3, FS_Surjection
    <3>3. DeviceKey(m, x.of) = IF Cardinality(holders) = 1 THEN holders ELSE {}
      BY DEF DeviceKey
    <3> HIDE DEF holders
    <3>4. CASE Cardinality(holders) = 1
      <4>1. PICK y : holders = {y}
        BY <3>2, <3>4, FS_Singleton
      <4>2. QED
        BY <3>1, <3>3, <3>4, <4>1
    <3>5. CASE Cardinality(holders) # 1
      BY <3>3, <3>5
    <3>6. QED
      BY <3>4, <3>5
  <2>5. QED
    BY <2>3, <2>4
<1>2. QED
  BY <1>1, ReportInvariant, PTL

=============================================================================
