----------------------------- MODULE Reporting -----------------------------
(***************************************************************************)
(* Report generation (reporting.py, infrastructure_reporting.py,           *)
(* platform_reporting.py, and report generate of cli.py) beside the        *)
(* collectors that go on storing.                                          *)
(*                                                                         *)
(* build_report_model reads the database in many statements, each of which *)
(* sees what is committed at that moment: the connection is in autocommit  *)
(* mode.  generate_reports then publishes a DOCX and a JSON file under one *)
(* name per customer, site and day, and records both.                      *)
(*                                                                         *)
(* A row is [table, kind, of, value]: an alias, a service or a device_fact *)
(* is of a device, a fact (an snmp.* or ssh.* observation) is of the       *)
(* address it was collected from, an entity of its site or domain, a       *)
(* relation of its local entity.  An alias has its alias_kind; a fact is   *)
(* "mapped" or "unmapped": unmapped is an SNMP fact that _snmp_record has  *)
(* no section for, or a bridge port or status without the learned MAC it   *)
(* goes with.  An "unread" row is an observation that no statement of the  *)
(* report selects: the script output of a service, the root and the domain *)
(* object of a directory, a domain controller candidate, passive evidence. *)
(* What the rows say beyond that, the notes on coverage beside them, and   *)
(* how the document is laid out, are left out.                             *)
(***************************************************************************)
EXTENDS Integers, FiniteSets, Sequences

CONSTANTS
    Runs,         \* collector runs
    Stores,       \* the sets of rows each of them commits, in order
    Generators,   \* processes running "report generate"
    Invocations   \* how often each may be run, as functions of Generators

VARIABLES
    status,   \* status[r]: "idle", "running", "succeeded" or "failed"
    stored,   \* how many of its row sets run r has committed
    rows,     \* the committed rows
    runsLeft, \* runsLeft[g]: invocations of g to come
    pc,       \* pc[g]: "idle", a section, a step of publishing, or how it ended
    todo,     \* todo[g]: the devices, sites or domains whose rows are to be read
    model,    \* model[g]: what each section has read
    docx,     \* the file under the DOCX name of the day
    json,     \* the file under the JSON name
    history,  \* the invocations in report_history
    taken     \* those whose DOCX the operator has moved away to upload

vars == << status, stored, rows, runsLeft, pc, todo, model, docx, json, history, taken >>

dbVars == << status, stored, rows >>
fileVars == << docx, json, history, taken >>

(* The statements of build_report_model, in order, without the lists of    *)
(* collector errors that it copies beside them; "details", the entities of *)
(* a site and those of a domain are read in a loop.                        *)
Sections_coverageLast ==
    << "device", "details", "reuse", "targets", "fact", "unifi_site", "unifi_entity",
       "unifi_relation", "ad_domain", "ad_entity", "ad_trust", "runs" >>

Sections_targetsFirst ==
    << "runs", "targets", "device", "details", "reuse", "fact", "unifi_site", "unifi_entity",
       "unifi_relation", "ad_domain", "ad_entity", "ad_trust" >>

Sections ==
    << "runs", "device", "details", "reuse", "targets", "fact", "unifi_site", "unifi_entity",
       "unifi_relation", "ad_domain", "ad_entity", "ad_trust" >>

SectionNames == { Sections[i] : i \in DOMAIN Sections }

After(section) ==
    LET i == CHOOSE j \in DOMAIN Sections : Sections[j] = section
    IN  IF i = Len(Sections) THEN "render" ELSE Sections[i + 1]

NoFile == [by |-> << "nobody", 0 >>, whole |-> FALSE]

Empty == [s \in SectionNames |-> {}]

AllRows(r) == UNION { Stores[r][i] : i \in DOMAIN Stores[r] }

Tables == {"device", "alias", "service", "device_fact", "fact", "unread", "unifi_site",
           "unifi_entity", "unifi_relation", "ad_domain", "ad_entity", "ad_trust"}

(* The table a row's owner is in: a foreign key or, of a device's          *)
(* observation, its subject.                                               *)
Owners == [alias |-> "device", service |-> "device", device_fact |-> "device",
           unifi_entity |-> "unifi_site", unifi_relation |-> "unifi_entity",
           ad_entity |-> "ad_domain"]

(* Observations, which retention deletes.                                  *)
Prunable == {"device_fact", "fact", "unread", "ad_trust"}

(* A run stores the owner of each of its rows too, as the foreign keys ask,*)
(* and an observation belongs to the run that made it.                     *)
ASSUME StoresAssumption ==
    /\ \A r \in Runs : Len(Stores[r]) \in Nat /\ DOMAIN Stores[r] = 1..Len(Stores[r])
    /\ IsFiniteSet(UNION { AllRows(r) : r \in Runs })
    /\ \A r \in Runs : \A x \in AllRows(r) :
          /\ x.table \in Tables
          /\ x.table \in DOMAIN Owners =>
                \E y \in AllRows(r) : y.table = Owners[x.table] /\ y.value = x.of
          /\ x.table \in Prunable => \A s \in Runs \ {r} : x \notin AllRows(s)

ASSUME InvocationsAssumption ==
    /\ Invocations \subseteq [Generators -> Nat]
    /\ "nobody" \notin Generators

Init ==
    \E earlier \in SUBSET Runs :
        /\ status = [r \in Runs |-> IF r \in earlier THEN "succeeded" ELSE "idle"]
        /\ stored = [r \in Runs |-> IF r \in earlier THEN Len(Stores[r]) ELSE 0]
        /\ rows = UNION { AllRows(r) : r \in earlier }
        /\ runsLeft \in Invocations
        /\ pc = [g \in Generators |-> "idle"]
        /\ todo = [g \in Generators |-> {}]
        /\ model = [g \in Generators |-> Empty]
        /\ docx = NoFile
        /\ json = NoFile
        /\ history = {}
        /\ taken = {}

-----------------------------------------------------------------------------
(* The collectors: a run is started, commits its rows one transaction at a *)
(* time, and is finished after the last one, or fails.                     *)
StartRun(r) ==
    /\ status[r] = "idle"
    /\ status' = [status EXCEPT ![r] = "running"]
    /\ UNCHANGED << stored, rows, runsLeft, pc, todo, model, fileVars >>

Store(r) ==
    /\ status[r] = "running"
    /\ stored[r] < Len(Stores[r])
    /\ stored' = [stored EXCEPT ![r] = @ + 1]
    /\ rows' = rows \union Stores[r][stored[r] + 1]
    /\ UNCHANGED << status, runsLeft, pc, todo, model, fileVars >>

FinishRun(r) ==
    /\ status[r] = "running"
    /\ \E s \in {"succeeded", "failed"} :
           /\ s = "succeeded" => stored[r] = Len(Stores[r])
           /\ status' = [status EXCEPT ![r] = s]
    /\ UNCHANGED << stored, rows, runsLeft, pc, todo, model, fileVars >>

(* Retention deletes old observations.                                     *)
Prune(r) ==
    /\ status[r] \in {"succeeded", "failed"}
    /\ \E old \in AllRows(r) \intersect rows : old.table \in Prunable
    /\ rows' = { x \in rows : x \notin AllRows(r) \/ x.table \notin Prunable }
    /\ UNCHANGED << status, stored, runsLeft, pc, todo, model, fileVars >>

-----------------------------------------------------------------------------
(* report generate, up to the first statement of build_report_model: the   *)
(* disk guard, the deployment and the metadata may each refuse it.         *)
Begin(g) ==
    /\ pc[g] \in {"idle", "done", "failed", "left", "crashed"}
    /\ runsLeft[g] > 0
    /\ runsLeft' = [runsLeft EXCEPT ![g] = @ - 1]
    /\ \E next \in {Sections[1], "failed"} : pc' = [pc EXCEPT ![g] = next]
    /\ UNCHANGED << dbVars, todo, model, fileVars >>

Table(t) == { x \in rows : x.table = t }

(* The kinds of alias that _conflicts takes for reusable; a MAC address on *)
(* two devices is not looked for.                                          *)
Reusable == {"ipv4", "hostname"}

(* What the sections that are one statement each read: the runs; a whole   *)
(* table; the reusable aliases of two devices; the addresses that tell     *)
(* which device a fact was collected from.                                 *)
ReadOnce(section) ==
    CASE section = "runs" -> { << r, status[r] >> : r \in { s \in Runs : status[s] # "idle" } }
      [] section = "reuse" -> { << x.kind, x.value >> : x \in { a \in Table("alias") :
                                  /\ a.kind \in Reusable
                                  /\ \E b \in Table("alias") :
                                        b.kind = a.kind /\ b.value = a.value /\ b.of # a.of } }
      [] section = "targets" -> { a \in Table("alias") : a.kind = "ipv4" }
      [] OTHER -> Table(section)

(* The section whose rows a loop section goes through, and the tables it   *)
(* reads for each.                                                         *)
LoopOver == [details |-> "device", unifi_entity |-> "unifi_site", ad_entity |-> "ad_domain"]
LoopReads == [details |-> {"alias", "device_fact", "service"}, unifi_entity |-> {"unifi_entity"},
              ad_entity |-> {"ad_entity"}]

(* Go to the next section, with what it is to go through if it is a loop.  *)
Proceed(g, m) ==
    LET next == After(pc[g])
    IN  /\ pc' = [pc EXCEPT ![g] = next]
        /\ todo' = [todo EXCEPT ![g] = IF next \in DOMAIN LoopOver
                                       THEN { x.value : x \in m[LoopOver[next]] } ELSE {}]

ReadSection(g) ==
    /\ pc[g] \in SectionNames \ DOMAIN LoopOver
    /\ LET m == [model[g] EXCEPT ![pc[g]] = ReadOnce(pc[g])]
       IN  /\ model' = [model EXCEPT ![g] = m]
           /\ Proceed(g, m)
    /\ UNCHANGED << dbVars, runsLeft, fileVars >>

(* The loop's next device, site or domain, in the order of the query, and  *)
(* what the section reads for it.                                          *)
NextOf(rest) == CHOOSE x \in rest : TRUE

DetailRows(section, d) == { x \in rows : x.table \in LoopReads[section] /\ x.of = d }

(* One turn of the loop over devices, sites or domains.                    *)
ReadEach(g) ==
    /\ pc[g] \in DOMAIN LoopOver
    /\ todo[g] # {}
    /\ LET d == NextOf(todo[g])
       IN  /\ model' = [model EXCEPT ![g][pc[g]] = @ \union DetailRows(pc[g], d)]
           /\ todo' = [todo EXCEPT ![g] = @ \ {d}]
    /\ UNCHANGED << dbVars, runsLeft, pc, fileVars >>

EndLoop(g) ==
    /\ pc[g] \in DOMAIN LoopOver
    /\ todo[g] = {}
    /\ Proceed(g, model[g])
    /\ UNCHANGED << dbVars, runsLeft, model, fileVars >>

-----------------------------------------------------------------------------
(* build_infrastructure_model: a fact is attributed to the one device that *)
(* has its address, and to none if there are several.                      *)
DeviceKey(m, address) ==
    LET holders == { a.of : a \in { x \in m["targets"] : x.value = address } }
    IN  IF Cardinality(holders) = 1 THEN holders ELSE {}

(* What becomes of the facts that were read: an SNMP fact that has no      *)
(* section gets neither a record nor an entry under data_quality.          *)
InfrastructureRecords(m) == { x \in m["fact"] : x.kind = "mapped" }

(* _unifi_model: a relation whose local entity was not read is passed      *)
(* over.                                                                   *)
UnifiRelations(m) ==
    { x \in m["unifi_relation"] : \E e \in m["unifi_entity"] : e.value = x.of }

-----------------------------------------------------------------------------
(* generate_reports after the model is built.                              *)
Goto(g, next) == pc' = [pc EXCEPT ![g] = next]

Me(g) == << g, runsLeft[g] >>

(* The payloads and the output directory; the model is not needed again.   *)
Render(g) ==
    /\ pc[g] = "render"
    /\ model' = [model EXCEPT ![g] = Empty]
    /\ \E next \in {"open_docx", "failed"} : Goto(g, next)
    /\ UNCHANGED << dbVars, runsLeft, todo, fileVars >>

(* _publish opens a new file (O_EXCL), writes and syncs it, removes it if  *)
(* that fails, and closes it.  The close and the unlink may themselves     *)
(* raise: for the DOCX no handler is left then ("left").                   *)
OpenDocx_overwrite(g) ==
    /\ pc[g] = "open_docx"
    /\ docx' = [by |-> Me(g), whole |-> FALSE] /\ Goto(g, "write_docx")
    /\ UNCHANGED << dbVars, runsLeft, todo, model, json, history, taken >>

OpenDocx(g) ==
    /\ pc[g] = "open_docx"
    /\ \/ docx = NoFile /\ docx' = [by |-> Me(g), whole |-> FALSE] /\ Goto(g, "write_docx")
       \/ docx # NoFile /\ Goto(g, "failed") /\ UNCHANGED docx
    /\ UNCHANGED << dbVars, runsLeft, todo, model, json, history, taken >>

WriteDocx(g) ==
    /\ pc[g] = "write_docx"
    /\ \/ docx' = [docx EXCEPT !.whole = TRUE] /\ Goto(g, "open_json")
       \/ docx' = NoFile /\ Goto(g, "failed")
       \/ docx' \in {docx, [docx EXCEPT !.whole = TRUE]} /\ Goto(g, "left")
    /\ UNCHANGED << dbVars, runsLeft, todo, model, json, history, taken >>

OpenJson(g) ==
    /\ pc[g] = "open_json"
    /\ \/ json = NoFile /\ json' = [by |-> Me(g), whole |-> FALSE] /\ Goto(g, "write_json")
       \/ json # NoFile /\ Goto(g, "undo_docx") /\ UNCHANGED json
    /\ UNCHANGED << dbVars, runsLeft, todo, model, docx, history, taken >>

WriteJson(g) ==
    /\ pc[g] = "write_json"
    /\ \/ json' = [json EXCEPT !.whole = TRUE] /\ Goto(g, "validate")
       \/ json' \in {NoFile, json, [json EXCEPT !.whole = TRUE]} /\ Goto(g, "undo_docx")
    /\ UNCHANGED << dbVars, runsLeft, todo, model, docx, history, taken >>

(* validate_docx, on the file that was published.                          *)
Validate(g) ==
    /\ pc[g] = "validate"
    /\ \E next \in {"record", "undo_docx"} : Goto(g, next)
    /\ UNCHANGED << dbVars, runsLeft, todo, model, fileVars >>

(* Both rows of report_history, in one transaction.                        *)
Record(g) ==
    /\ pc[g] = "record"
    /\ \/ history' = history \union {Me(g)} /\ Goto(g, "done")
       \/ Goto(g, "undo_docx") /\ UNCHANGED history
    /\ UNCHANGED << dbVars, runsLeft, todo, model, docx, json, taken >>

(* The rollback removes both names, one after the other, and ends where an *)
(* unlink raises.                                                          *)
UndoDocx(g) ==
    /\ pc[g] = "undo_docx"
    /\ \/ docx' = NoFile /\ Goto(g, "undo_json")
       \/ Goto(g, "left") /\ UNCHANGED docx
    /\ UNCHANGED << dbVars, runsLeft, todo, model, json, history, taken >>

UndoJson(g) ==
    /\ pc[g] = "undo_json"
    /\ \/ json' = NoFile /\ Goto(g, "failed")
       \/ Goto(g, "left") /\ UNCHANGED json
    /\ UNCHANGED << dbVars, runsLeft, todo, model, docx, history, taken >>

(* The process is killed.                                                  *)
Crash(g) ==
    /\ pc[g] \notin {"idle", "done", "failed", "left", "crashed"}
    /\ Goto(g, "crashed")
    /\ model' = [model EXCEPT ![g] = Empty]
    /\ todo' = [todo EXCEPT ![g] = {}]
    /\ UNCHANGED << dbVars, runsLeft, fileVars >>

(* The operator moves the DOCX of a recorded report away.                  *)
TakeDocx ==
    /\ docx.by \in history
    /\ taken' = taken \union {docx.by}
    /\ docx' = NoFile
    /\ UNCHANGED << dbVars, runsLeft, pc, todo, model, json, history >>

Generate(g) ==
    \/ Begin(g) \/ ReadSection(g) \/ ReadEach(g) \/ EndLoop(g) \/ Render(g)
    \/ OpenDocx(g) \/ WriteDocx(g) \/ OpenJson(g) \/ WriteJson(g) \/ Validate(g) \/ Record(g)
    \/ UndoDocx(g) \/ UndoJson(g) \/ Crash(g)

Next ==
    \/ \E r \in Runs : StartRun(r) \/ Store(r) \/ FinishRun(r) \/ Prune(r)
    \/ \E g \in Generators : Generate(g)
    \/ TakeDocx

Spec == Init /\ [][Next]_vars

-----------------------------------------------------------------------------
(* The rows a finished model shows.                                        *)
Shown(m) ==
    m["device"] \union m["details"] \union InfrastructureRecords(m)
        \union m["unifi_site"] \union m["unifi_entity"] \union UnifiRelations(m)
        \union m["ad_domain"] \union m["ad_entity"] \union m["ad_trust"]

(* The rows a report has no place for.                                     *)
LeftOut(x) == x.table = "unread" \/ (x.table = "fact" /\ x.kind # "mapped")

(* A report that lists a run as succeeded shows what the run stored and    *)
(* retention has left, although the collectors stored rows between the     *)
(* statements that read them: build_report_model reads the runs first, and *)
(* a run is finished after its last transaction.  What it does not show is *)
(* exactly what it has no place for, which it drops without a word: SNMP   *)
(* facts that no section maps, and observations that no statement selects. *)
CoverageHonest ==
    \A g \in Generators, r \in Runs :
        pc[g] = "render" /\ << r, "succeeded" >> \in model[g]["runs"] =>
            \A x \in AllRows(r) \intersect rows : x \in Shown(model[g]) <=> ~LeftOut(x)

(* The sections of one report agree although each reads a later state than *)
(* the one before.  An alias the report shows on two devices is among its  *)
(* conflicts if it is an address or a hostname, and only then: a MAC shown *)
(* twice passes for none (_conflicts).  A fact is attributed to a device   *)
(* only if the report shows its address on no other                        *)
(* (build_infrastructure_model).                                           *)
SectionsAgree ==
    \A g \in Generators : pc[g] = "render" =>
        LET m == model[g]
            aliases == { x \in m["details"] : x.table = "alias" }
        IN  /\ \A a, b \in aliases :
                   a.kind = b.kind /\ a.value = b.value /\ a.of # b.of =>
                       (<< a.kind, a.value >> \in m["reuse"] <=> a.kind \in Reusable)
            /\ \A x \in m["fact"], a \in aliases :
                   a.kind = "ipv4" /\ a.value = x.of => DeviceKey(m, x.of) \subseteq {a.of}

(* Whoever holds a file: at work on it, recorded, killed, or left with it  *)
(* by a close or an unlink that raised.                                    *)
Accounted(file, g) ==
    file.by = Me(g) => pc[g] \notin {"failed", "idle"} \/ Me(g) \in history

(* The DOCX of a recorded report stays, whole, until the operator takes    *)
(* it, whatever other invocations of the same day do; and an invocation    *)
(* that fails leaves neither file behind, unless it is killed or closing   *)
(* or removing a file itself fails.  (_publish and the rollbacks of        *)
(* generate_reports.)                                                      *)
RecordedDocxStays ==
    /\ \A id \in history \ taken : docx = [by |-> id, whole |-> TRUE]
    /\ \A g \in Generators : Accounted(docx, g) /\ Accounted(json, g)
=============================================================================
