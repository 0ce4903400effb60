----------------------- MODULE SchedulerServiceProofs -----------------------
(***************************************************************************)
(* Safety of the scheduler service, its children and the recovery unit,    *)
(* for every configuration, number of migrations and number of faults.     *)
(***************************************************************************)
EXTENDS SchedulerService, WellFoundedInduction, TLAPS

(* The processes that open the database. *)
Openers == AllInvocations \union {RecoveryUnit}

(* A child process, and a process's progress in opening the database. *)
ChildRecord ==
    [st : {"idle", "queued", "cli", "open", "run", "hung", "term", "exited"},
     code : {"none", "refused", "failed", "ok", "timeout", "killed"},
     row : {"none", "running", "recovered"}]

OpenerRecord ==
    [st : {"closed", "opened", "migrating", "failed", "open"}, seen : SUBSET Nat, release : Nat]

(* Every variable that the proofs follow has its type. *)
SchedulerTypes ==
    /\ doc \in Documents
    /\ serve \in {"down", "check", "cycle", "wait", "ended"}
    /\ child \in [AllInvocations -> ChildRecord]
    /\ opener \in [Openers -> OpenerRecord]
    /\ release \in Nat /\ history \subseteq Nat

(* What an opener has seen of the history exists, and an open database has every table of
   the opener's release; a collector works only on an open database. *)
OpenersInv ==
    /\ history \subseteq created
    /\ \A p \in Openers :
          /\ opener[p].seen \subseteq created
          /\ opener[p].st = "open" => 1 .. opener[p].release \subseteq opener[p].seen

SchemaInv ==
    /\ OpenersInv
    /\ \A i \in AllInvocations : child[i].st \in {"run", "hung"} => opener[i].st = "open"

(* Until the recovery unit of a boot has been tried, no service is up and no child lives. *)
BootInv ==
    /\ \A i \in AllInvocations : child[i].row = "running" => Live(child[i])
    /\ recovery \in {"waiting", "running"} =>
          serve = "down" /\ \A i \in AllInvocations : ~Live(child[i])

(* Only a valid document's invocations become children. *)
ValidInv ==
    /\ serve \in {"check", "cycle", "wait"} => ValidateConfig(doc)
    /\ \A i \in AllInvocations : child[i].st # "idle" => ValidateConfig(doc)
    /\ \A i \in Children : child[i].code = "refused" => Unconfigured(i) \/ Unapproved(i)
    /\ \A i \in AllInvocations : child[i].st = "idle" => child[i].code = "none"

SchedulerInv == SchedulerTypes /\ SchemaInv /\ BootInv /\ ValidInv

(* An invocation is of one of the collectors' kinds. *)
LEMMA InvocationKinds ==
  ASSUME NEW d, NEW i \in BuildInvocations(d)
  PROVE  i.kind \in Kinds
  BY DEF BuildInvocations, Kinds

(* The recovery unit is no child; a configuration's children are invocations. *)
LEMMA RecoveryIsNoChild ==
  /\ RecoveryUnit \notin AllInvocations
  /\ doc \in Documents => Children \subseteq AllInvocations
  <1>1. RecoveryUnit.kind \notin Kinds
    BY DEF RecoveryUnit, Kinds
  <1>2. \A i \in AllInvocations : i.kind \in Kinds
    BY InvocationKinds DEF AllInvocations
  <1>3. doc \in Documents => Children \subseteq AllInvocations
    BY DEF AllInvocations, Children
  <1> QED BY <1>1, <1>2, <1>3

(* The next migration to apply is a number. *)
LEMMA NextVersion ==
  ASSUME NEW S \in SUBSET Nat, S # {}
  PROVE  DB!Min(S) \in S
  <1> DEFINE R == {ss \in Nat \X Nat : ss[1] < ss[2]}
  <1>1. IsWellFoundedOn(R, Nat)
    BY NatLessThanWellFounded DEF OpToRel
  <1> HIDE DEF R
  <1>2. PICK n \in S : \A m \in S : ~(<<m, n>> \in R)
    BY <1>1, WFMin
  <1>3. \A m \in S : n <= m
    <2> SUFFICES ASSUME NEW m \in S, m < n PROVE FALSE
      OBVIOUS
    <2>1. <<m, n>> \in Nat \X Nat /\ <<m, n>>[1] < <<m, n>>[2]
      OBVIOUS
    <2>2. <<m, n>> \in R
      BY <2>1 DEF R
    <2> QED BY <1>2, <2>2
  <1> QED BY <1>3 DEF DB!Min

(* The types after a step of the migrations. *)
LEMMA OpenTypes ==
  ASSUME SchedulerTypes, NEW p \in Openers, DB!OpenDatabase(p, release) \/ DB!OpenStep(p)
  PROVE  /\ history' \subseteq Nat
         /\ opener' \in [Openers -> OpenerRecord]
  <1> USE DEF OpenerRecord
  <1>0. /\ opener[p] \in OpenerRecord
        /\ history \subseteq Nat
    BY DEF SchedulerTypes
  <1>1. CASE DB!OpenDatabase(p, release)
    BY <1>1 DEF DB!OpenDatabase, SchedulerTypes
  <1>2. CASE DB!ReadHistory(p)
    <2>1. PICK st \in {"migrating", "failed"} :
             opener' = [opener EXCEPT ![p].st = st, ![p].seen = history]
      BY <1>2 DEF DB!ReadHistory
    <2> DEFINE r == [[opener[p] EXCEPT !.st = st] EXCEPT !.seen = history]
    <2>2. opener' = [opener EXCEPT ![p] = r]
      BY <2>1 DEF SchedulerTypes
    <2>3. r \in OpenerRecord
      BY <1>0
    <2> QED BY <2>2, <2>3, <1>2 DEF DB!ReadHistory, SchedulerTypes
  <1>3. CASE DB!Migrated(p)
    BY <1>3 DEF DB!Migrated, SchedulerTypes
  <1>4. CASE DB!ApplyOne(p)
    <2> DEFINE version == DB!Min(DB!Missing(p))
    <2>1. version \in Nat
      BY <1>0, <1>4, NextVersion DEF DB!ApplyOne, DB!Missing
    <2> HIDE DEF version
    <2>2. \/ /\ opener' = [opener EXCEPT ![p].st = "failed"]
             /\ UNCHANGED <<history, created>>
          \/ /\ history' = history \union {version}
             /\ opener' = [opener EXCEPT ![p].seen = @ \union {version}]
      BY <1>4 DEF DB!ApplyOne, version
    <2> QED BY <1>0, <2>1, <2>2 DEF SchedulerTypes
  <1> QED BY <1>1, <1>2, <1>3, <1>4 DEF DB!OpenStep

(* Every step keeps the types. *)
LEMMA TypesStep ==
  ASSUME SchedulerTypes, Next
  PROVE  SchedulerTypes'
  <1> USE DEF SchedulerTypes, ChildRecord, OpenerRecord, Idle
  <1>0. /\ RecoveryUnit \in Openers /\ Children \subseteq Openers
        /\ Children \subseteq AllInvocations
    BY RecoveryIsNoChild DEF Openers
  <1>1. CASE ServeStep
    BY <1>1 DEF ServeStep, StartService, BeginCycle, EndCycle, WaitInterval
  <1>2. CASE StartRecovery
    BY <1>0, <1>2, OpenTypes DEF StartRecovery
  <1>3. CASE RecoveryMigrate
    BY <1>0, <1>3, OpenTypes DEF RecoveryMigrate
  <1>4. CASE RecoverRuns
    <2>1. opener' \in [Openers -> OpenerRecord]
      BY <1>0, <1>4 DEF RecoverRuns, CloseDatabase, DB!Closed
    <2> QED BY <1>4, <2>1 DEF RecoverRuns
  <1>5. CASE RecoveryFails
    BY <1>0, <1>5 DEF RecoveryFails, CloseDatabase, DB!Closed
  <1>6. CASE Upgrade
    BY <1>6, BoundsAssumption DEF Upgrade
  <1>7. CASE Reboot
    BY <1>7 DEF Reboot, DB!Closed
  <1>8. ASSUME AllDie
        PROVE  /\ child' \in [AllInvocations -> ChildRecord]
               /\ opener' \in [Openers -> OpenerRecord]
    BY <1>8 DEF AllDie, DB!Closed
  <1>9. CASE StopService \/ KillService
    BY <1>8, <1>9 DEF StopService, KillService
  <1>10. ASSUME NEW i \in Children, ChildStep(i) \/ CliStorageFault(i) \/ LaunchFails(i)
         PROVE  SchedulerTypes'
    <2>0. i \in AllInvocations /\ i \in Openers
      BY <1>0
    <2>1. CASE LaunchFails(i)
      BY <1>8, <2>1 DEF LaunchFails
    <2>2. CASE Launch(i)
      BY <2>0, <2>2 DEF Launch
    <2>4. CASE CliMigrate(i)
      BY <2>0, <2>4, OpenTypes DEF CliMigrate
    <2>5. ASSUME NEW code \in {"refused", "failed", "ok", "timeout"}, Exit(i, code),
                 CloseDatabase(i) \/ UNCHANGED opener,
                 UNCHANGED <<doc, serve, history, release>>
          PROVE  SchedulerTypes'
      BY <2>0, <2>5 DEF Exit, CloseDatabase, DB!Closed
    <2>3. CASE CliStart(i)
      <3>1. CASE Exit(i, "refused") /\ UNCHANGED database
        <4>1. UNCHANGED <<doc, serve, history, release, opener>>
          BY <2>3, <3>1 DEF CliStart, database
        <4> QED BY <2>5, <3>1, <4>1
      <3>2. CASE DB!OpenDatabase(i, release) /\ child' = [child EXCEPT ![i].st = "open"]
        <4>1. /\ history' \subseteq Nat
              /\ opener' \in [Openers -> OpenerRecord]
          BY <2>0, <3>2, OpenTypes
        <4>2. child' \in [AllInvocations -> ChildRecord]
          BY <2>0, <3>2
        <4>3. UNCHANGED <<doc, serve, release>>
          BY <2>3 DEF CliStart
        <4> QED BY <4>1, <4>2, <4>3
      <3> QED BY <2>3, <3>1, <3>2 DEF CliStart
    <2>6. CASE CliOpenFailed(i) \/ CliFinish(i) \/ CliStorageFault(i) \/ ReapChild(i)
      BY <2>5, <2>6 DEF CliOpenFailed, CliFinish, CliStorageFault, ReapChild
    <2>7. CASE CliStartRun(i)
      <3>1. ASSUME NEW st \in {"run", "hung"},
                   child' = [child EXCEPT ![i].st = st, ![i].row = "running"]
            PROVE  child' \in [AllInvocations -> ChildRecord]
        <4> DEFINE c == [[child[i] EXCEPT !.st = st] EXCEPT !.row = "running"]
        <4>1. child' = [child EXCEPT ![i] = c]
          BY <2>0, <3>1
        <4>2. c \in ChildRecord
          BY <2>0
        <4> QED BY <4>1, <4>2
      <3> QED BY <2>5, <2>7, <3>1 DEF CliStartRun
    <2>8. CASE TimeoutChild(i)
      BY <2>0, <2>8 DEF TimeoutChild, CloseDatabase, DB!Closed
    <2> QED BY <1>10, <2>1, <2>2, <2>3, <2>4, <2>6, <2>7, <2>8 DEF ChildStep
  <1> QED BY <1>1, <1>2, <1>3, <1>4, <1>5, <1>6, <1>7, <1>9, <1>10 DEF Next, RecoveryWork

(* A step of one opener keeps it, and touches no other opener. *)
LEMMA OpenKeepsSchema ==
  ASSUME SchedulerTypes, OpenersInv, NEW p \in Openers,
         DB!OpenDatabase(p, release) \/ DB!OpenStep(p)
  PROVE  /\ OpenersInv' /\ opener[p].st # "open"
         /\ \A q \in Openers : q # p => opener'[q] = opener[q]
  <1> USE DEF SchedulerTypes, OpenersInv, OpenerRecord
  <1>1. CASE DB!OpenDatabase(p, release)
    BY <1>1 DEF DB!OpenDatabase
  <1>2. CASE DB!ReadHistory(p)
    <2>1. PICK st \in {"migrating", "failed"} :
             opener' = [opener EXCEPT ![p].st = st, ![p].seen = history]
      BY <1>2 DEF DB!ReadHistory
    <2>2. opener'[p].st # "open" /\ opener'[p].seen = history
      BY <2>1
    <2>3. \A q \in Openers : q # p => opener'[q] = opener[q]
      BY <2>1
    <2> QED BY <1>2, <2>2, <2>3 DEF DB!ReadHistory
  <1>3. CASE DB!Migrated(p)
    BY <1>3 DEF DB!Migrated, DB!Missing
  <1>4. CASE DB!ApplyOne(p)
    <2> DEFINE version == DB!Min(DB!Missing(p))
    <2>1. opener[p].st = "migrating"
      BY <1>4 DEF DB!ApplyOne
    <2>2. \/ /\ opener' = [opener EXCEPT ![p].st = "failed"]
             /\ UNCHANGED <<history, created>>
          \/ /\ history' = history \union {version} /\ created' = created \union {version}
             /\ opener' = [opener EXCEPT ![p].seen = @ \union {version}]
      BY <1>4 DEF DB!ApplyOne
    <2> HIDE DEF version
    <2> QED BY <2>1, <2>2
  <1> QED BY <1>1, <1>2, <1>3, <1>4 DEF DB!OpenStep

(* Closing a connection keeps it too. *)
LEMMA CloseKeepsSchema ==
  ASSUME SchedulerTypes, OpenersInv, UNCHANGED <<history, created>>,
         NEW P \in SUBSET Openers,
         opener' = [q \in Openers |-> IF q \in P THEN DB!Closed ELSE opener[q]]
  PROVE  OpenersInv'
  BY DEF SchedulerTypes, OpenersInv, DB!Closed

(* What a child's step does to its own process, and that it does it to no other. *)
LEMMA ChildStepEffect ==
  ASSUME SchedulerTypes, OpenersInv, NEW i \in Children, ChildStep(i) \/ CliStorageFault(i)
  PROVE  /\ OpenersInv' /\ UNCHANGED <<doc, serve, recovery>>
         /\ \A j \in AllInvocations : j # i => child'[j] = child[j]
         /\ \A p \in Openers : p # i => opener'[p] = opener[p]
         /\ child'[i].st \in {"run", "hung"} => opener[i].st = "open" /\ opener' = opener
         /\ child'[i].row = "running" => Live(child'[i])
         /\ child'[i].row = "recovered" => child[i].row = "recovered"
         /\ child[i].st # "idle" /\ child'[i].st # "idle"
         /\ child'[i].code = "refused" =>
               child[i].code = "refused" \/ Unconfigured(i) \/ Unapproved(i)
         /\ serve = "cycle" \/ Live(child[i])
  <1>0. i \in AllInvocations /\ i \in Openers
    BY RecoveryIsNoChild DEF SchedulerTypes, Openers
  <1> USE DEF SchedulerTypes, ChildRecord, Live
  <1>1. CASE Launch(i)
    BY <1>0, <1>1 DEF Launch, OpenersInv
  <1>2. CASE CliStart(i) \/ CliMigrate(i)
    <2>1. CASE CliMigrate(i)
      <3>1. OpenersInv' /\ \A p \in Openers : p # i => opener'[p] = opener[p]
        BY <1>0, <2>1, OpenKeepsSchema DEF CliMigrate
      <3> QED BY <1>0, <2>1, <3>1 DEF CliMigrate
    <2>2. CASE Exit(i, "refused") /\ UNCHANGED database /\ CliStart(i)
      BY <1>0, <2>2 DEF CliStart, Exit, database, OpenersInv
    <2>3. CASE /\ CliStart(i) /\ DB!OpenDatabase(i, release)
               /\ child' = [child EXCEPT ![i].st = "open"]
      <3>1. OpenersInv' /\ \A p \in Openers : p # i => opener'[p] = opener[p]
        BY <1>0, <2>3, OpenKeepsSchema
      <3>2. /\ \A j \in AllInvocations : j # i => child'[j] = child[j]
            /\ child'[i].st = "open" /\ child'[i].row = child[i].row
        BY <1>0, <2>3
      <3> QED BY <2>3, <3>1, <3>2 DEF CliStart
    <2> QED BY <1>2, <2>1, <2>2, <2>3 DEF CliStart
  <1>3. CASE CliOpenFailed(i) \/ CliFinish(i) \/ CliStorageFault(i) \/ ReapChild(i)
    <2>1. PICK code \in {"failed", "ok", "timeout"} : Exit(i, code)
      BY <1>3 DEF CliOpenFailed, CliFinish, CliStorageFault, ReapChild
    <2>2. UNCHANGED <<history, created, doc, serve, recovery>> /\ Live(child[i])
      BY <1>3 DEF CliOpenFailed, CliFinish, CliStorageFault, ReapChild
    <2>3. CloseDatabase(i) \/ UNCHANGED opener
      BY <1>3 DEF CliOpenFailed, CliFinish, CliStorageFault, ReapChild
    <2>4. OpenersInv' /\ \A p \in Openers : p # i => opener'[p] = opener[p]
      BY <1>0, <2>2, <2>3 DEF OpenersInv, CloseDatabase, DB!Closed
    <2> QED BY <1>0, <2>1, <2>2, <2>4 DEF Exit
  <1>4. CASE CliStartRun(i)
    <2>1. UNCHANGED <<history, created, doc, serve, recovery>> /\ Live(child[i])
      BY <1>4 DEF CliStartRun
    <2>2. CASE Unapproved(i) /\ Exit(i, "refused") /\ CloseDatabase(i)
      BY <1>0, <2>1, <2>2 DEF Exit, OpenersInv, CloseDatabase, DB!Closed
    <2>3. ASSUME NEW st \in {"run", "hung"}, UNCHANGED opener,
                 child' = [child EXCEPT ![i].st = st, ![i].row = "running"]
          PROVE  /\ \A j \in AllInvocations : j # i => child'[j] = child[j]
                 /\ child'[i].st = st /\ child'[i].row = "running"
                 /\ child'[i].code = child[i].code
      BY <1>0, <2>3
    <2>4. opener[i].st = "open"
      BY <1>4 DEF CliStartRun
    <2> QED BY <1>4, <2>1, <2>2, <2>3, <2>4 DEF CliStartRun, OpenersInv
  <1>5. CASE TimeoutChild(i)
    <2>1. OpenersInv' /\ \A p \in Openers : p # i => opener'[p] = opener[p]
      BY <1>0, <1>5 DEF TimeoutChild, OpenersInv, CloseDatabase, DB!Closed
    <2> QED BY <1>0, <1>5, <2>1 DEF TimeoutChild
  <1> QED BY <1>1, <1>2, <1>3, <1>4, <1>5 DEF ChildStep

(* A kill of the service's control group. *)
LEMMA AllDieEffect ==
  ASSUME SchedulerTypes, OpenersInv, AllDie, UNCHANGED <<history, created>>
  PROVE  /\ OpenersInv'
         /\ \A i \in AllInvocations :
               /\ (~Live(child'[i]) /\ child'[i].row # "recovered") \/ child'[i] = child[i]
               /\ child'[i] = child[i] => ~Live(child[i])
               /\ child'[i] # child[i] => child[i].st # "idle" /\ child'[i].st # "idle"
               /\ child'[i] # child[i] => child'[i].code = "killed" /\ child'[i].row = "none"
  <1>1. OpenersInv'
    BY DEF AllDie, DB!Closed, SchedulerTypes, OpenersInv
  <1> QED BY <1>1 DEF AllDie, Live

(* The schema invariant is inductive. *)
LEMMA SchemaStep ==
  ASSUME SchedulerTypes, SchemaInv, Next
  PROVE  SchemaInv'
  <1> USE DEF SchemaInv
  <1>0. /\ RecoveryUnit \in Openers /\ RecoveryUnit \notin AllInvocations
        /\ Children \subseteq AllInvocations /\ AllInvocations \subseteq Openers
    BY RecoveryIsNoChild DEF SchedulerTypes, Openers
  <1>1. CASE ServeStep
    BY <1>1 DEF ServeStep, StartService, BeginCycle, EndCycle, WaitInterval, Idle, OpenersInv
  <1>2. CASE StartRecovery \/ RecoveryMigrate
    <2>1. DB!OpenDatabase(RecoveryUnit, release) \/ DB!OpenStep(RecoveryUnit)
      BY <1>2 DEF StartRecovery, RecoveryMigrate
    <2>2. OpenersInv' /\ \A q \in Openers : q # RecoveryUnit => opener'[q] = opener[q]
      BY <1>0, <2>1, OpenKeepsSchema
    <2> QED BY <1>0, <1>2, <2>2 DEF StartRecovery, RecoveryMigrate
  <1>3. CASE RecoverRuns \/ RecoveryFails
    <2>1. /\ \A i \in AllInvocations : child'[i].st = child[i].st
          /\ CloseDatabase(RecoveryUnit) /\ UNCHANGED <<history, created>>
      BY <1>3 DEF RecoverRuns, RecoveryFails, SchedulerTypes, ChildRecord
    <2>2. OpenersInv' /\ \A q \in Openers : q # RecoveryUnit => opener'[q] = opener[q]
      BY <1>0, <2>1 DEF OpenersInv, CloseDatabase, DB!Closed, SchedulerTypes
    <2> QED BY <1>0, <2>1, <2>2
  <1>4. CASE Upgrade
    BY <1>4 DEF Upgrade, OpenersInv
  <1>5. CASE Reboot
    BY <1>5 DEF Reboot, OpenersInv, DB!Closed, Idle, SchedulerTypes
  <1>6. CASE StopService \/ KillService \/ \E i \in Children : LaunchFails(i)
    <2>1. AllDie /\ UNCHANGED <<history, created>>
      BY <1>6 DEF StopService, KillService, LaunchFails
    <2>2. OpenersInv' /\ \A i \in AllInvocations : ~Live(child'[i])
      BY <2>1, AllDieEffect
    <2> QED BY <2>2 DEF Live
  <1>7. ASSUME NEW i \in Children, ChildStep(i) \/ CliStorageFault(i) PROVE SchemaInv'
    <2>1. ASSUME NEW j \in AllInvocations, child'[j].st \in {"run", "hung"}
          PROVE  opener'[j].st = "open"
      <3>1. CASE j = i
        BY <1>7, <2>1, <3>1, ChildStepEffect
      <3>2. CASE j # i
        BY <1>0, <1>7, <2>1, <3>2, ChildStepEffect
      <3> QED BY <3>1, <3>2
    <2> QED BY <1>7, <2>1, ChildStepEffect
  <1> QED BY <1>1, <1>2, <1>3, <1>4, <1>5, <1>6, <1>7 DEF Next, RecoveryWork

(* So is what holds between a boot and its recovery. *)
LEMMA BootStep ==
  ASSUME SchedulerTypes, SchemaInv, BootInv, Next
  PROVE  BootInv'
  <1> USE DEF BootInv
  <1>0. Children \subseteq AllInvocations
    BY RecoveryIsNoChild DEF SchedulerTypes
  <1>1. CASE ServeStep
    BY <1>1 DEF ServeStep, StartService, BeginCycle, EndCycle, WaitInterval, Idle, Live
  <1>2. CASE StartRecovery \/ RecoveryMigrate \/ RecoveryFails \/ Upgrade
    BY <1>2 DEF StartRecovery, RecoveryMigrate, RecoveryFails, Upgrade
  <1>3. CASE RecoverRuns
    <2>1. \A i \in AllInvocations : child'[i].st = child[i].st
                                    /\ (child'[i].row = "running" => child[i].row = "running")
      BY <1>3 DEF RecoverRuns, SchedulerTypes, ChildRecord
    <2> QED BY <1>3, <2>1 DEF RecoverRuns, Live
  <1>4. CASE Reboot
    BY <1>4 DEF Reboot, Idle, Live
  <1>5. CASE StopService \/ KillService \/ \E i \in Children : LaunchFails(i)
    <2>1. /\ AllDie /\ UNCHANGED <<history, created, recovery>>
          /\ recovery \notin {"waiting", "running"}
      BY <1>5 DEF StopService, KillService, LaunchFails
    <2>2. \A i \in AllInvocations : /\ ~Live(child'[i])
                                    /\ child'[i] = child[i] \/ child'[i].row = "none"
      BY <2>1, AllDieEffect DEF SchemaInv
    <2> QED BY <2>1, <2>2
  <1>6. ASSUME NEW i \in Children, ChildStep(i) \/ CliStorageFault(i) PROVE BootInv'
    <2>1. recovery \notin {"waiting", "running"}
      BY <1>0, <1>6, ChildStepEffect DEF SchemaInv
    <2>2. \A j \in AllInvocations : child'[j].row = "running" => Live(child'[j])
      BY <1>6, ChildStepEffect DEF SchemaInv
    <2> QED BY <1>6, <2>1, <2>2, ChildStepEffect DEF SchemaInv
  <1> QED BY <1>1, <1>2, <1>3, <1>4, <1>5, <1>6 DEF Next, RecoveryWork

(* And what became of the validated document's invocations. *)
LEMMA ValidStep ==
  ASSUME SchedulerTypes, SchemaInv, ValidInv, Next
  PROVE  ValidInv'
  <1> DEFINE Refusable(i) == Unconfigured(i) \/ Unapproved(i)
  <1>0. /\ doc' = doc /\ Children' = Children /\ Children \subseteq AllInvocations
        /\ \A i : Refusable(i)' <=> Refusable(i)
    <2>1. doc' = doc
      BY DEF Next, ServeStep, StartService, BeginCycle, EndCycle, WaitInterval, StartRecovery,
             RecoveryWork, RecoveryMigrate, RecoverRuns, RecoveryFails, Reboot, Upgrade,
             StopService, KillService, ChildStep, Launch, CliStart, CliMigrate, CliOpenFailed,
             CliStartRun, CliFinish, TimeoutChild, ReapChild, CliStorageFault, LaunchFails
    <2> QED BY <2>1, RecoveryIsNoChild DEF SchedulerTypes, Children, Unconfigured, Unapproved,
               DomainRefused, SnmpUnconfigured, SshUnconfigured, AdUnconfigured
  <1> HIDE DEF Refusable
  <1>i. ValidInv <=>
          /\ serve \in {"check", "cycle", "wait"} => ValidateConfig(doc)
          /\ \A i \in AllInvocations : child[i].st # "idle" => ValidateConfig(doc)
          /\ \A i \in Children : child[i].code = "refused" => Refusable(i)
          /\ \A i \in AllInvocations : child[i].st = "idle" => child[i].code = "none"
    BY DEF ValidInv, Refusable
  <1>j. ASSUME serve' \in {"check", "cycle", "wait"} => ValidateConfig(doc),
               \A i \in AllInvocations : child'[i].st # "idle" => ValidateConfig(doc),
               \A i \in Children : child'[i].code = "refused" => Refusable(i),
               \A i \in AllInvocations : child'[i].st = "idle" => child'[i].code = "none"
        PROVE  ValidInv'
    BY <1>0, <1>j DEF ValidInv, Refusable
  <1>1. CASE ServeStep
    <2>1. CASE BeginCycle
      BY <1>0, <1>i, <1>j, <2>1 DEF BeginCycle, Idle
    <2>2. CASE StartService \/ EndCycle \/ WaitInterval
      BY <1>i, <1>j, <2>2 DEF StartService, EndCycle, WaitInterval
    <2> QED BY <1>1, <2>1, <2>2 DEF ServeStep
  <1>2. CASE StartRecovery \/ RecoveryMigrate \/ RecoveryFails \/ Upgrade
    BY <1>i, <1>j, <1>2 DEF StartRecovery, RecoveryMigrate, RecoveryFails, Upgrade
  <1>3. CASE RecoverRuns
    <2>1. \A i \in AllInvocations : child'[i].st = child[i].st /\ child'[i].code = child[i].code
      BY <1>3 DEF RecoverRuns, SchedulerTypes, ChildRecord
    <2>2. serve' = serve
      BY <1>3 DEF RecoverRuns
    <2> QED BY <1>0, <1>i, <1>j, <2>1, <2>2
  <1>4. CASE Reboot
    BY <1>0, <1>i, <1>j, <1>4 DEF Reboot, Idle
  <1>5. CASE StopService \/ KillService \/ \E i \in Children : LaunchFails(i)
    <2>1. /\ AllDie /\ UNCHANGED <<history, created>>
          /\ serve' = serve \/ serve' \in {"ended", "down"}
      BY <1>5 DEF StopService, KillService, LaunchFails
    <2>2. ASSUME NEW i \in AllInvocations, child'[i] # child[i]
          PROVE  child[i].st # "idle" /\ child'[i].st # "idle" /\ child'[i].code = "killed"
      BY <2>1, <2>2, AllDieEffect DEF SchemaInv
    <2> QED BY <1>0, <1>i, <1>j, <2>1, <2>2
  <1>6. ASSUME NEW i \in Children, ChildStep(i) \/ CliStorageFault(i) PROVE ValidInv'
    <2>1. /\ serve' = serve /\ \A j \in AllInvocations : j # i => child'[j] = child[j]
          /\ child[i].st # "idle" /\ child'[i].st # "idle"
          /\ child'[i].code = "refused" => child[i].code = "refused" \/ Refusable(i)
      BY <1>6, ChildStepEffect DEF SchemaInv, Refusable
    <2> QED BY <1>0, <1>i, <1>j, <2>1
  <1> QED BY <1>1, <1>2, <1>3, <1>4, <1>5, <1>6 DEF Next, RecoveryWork

(* The invariant of the service, its children, the database and the recovery unit. *)
LEMMA SchedulerInvariant == Spec => []SchedulerInv
  <1>1. Init => SchedulerInv
    <2> SUFFICES ASSUME Init PROVE SchedulerInv
      OBVIOUS
    <2>1. SchedulerTypes
      BY BoundsAssumption
         DEF Init, SchedulerTypes, Openers, ChildRecord, OpenerRecord, Idle, DB!Closed
    <2>2. SchemaInv /\ BootInv /\ ValidInv
      <3>1. Children \subseteq AllInvocations
        BY RecoveryIsNoChild DEF Init
      <3> QED BY <3>1 DEF Init, SchemaInv, OpenersInv, BootInv, ValidInv, Openers, Idle, Live,
                          DB!Closed
    <2> QED BY <2>1, <2>2 DEF SchedulerInv
  <1>2. SchedulerInv /\ [Next]_vars => SchedulerInv'
    <2> SUFFICES ASSUME SchedulerInv, [Next]_vars PROVE SchedulerInv'
      OBVIOUS
    <2>1. CASE Next
      BY <2>1, TypesStep, SchemaStep, BootStep, ValidStep DEF SchedulerInv
    <2>2. CASE UNCHANGED vars
      BY <2>2 DEF vars, SchedulerInv, SchedulerTypes, SchemaInv, OpenersInv, BootInv, ValidInv,
                  Live, Children, Unconfigured, Unapproved, SnmpUnconfigured, SshUnconfigured,
                  AdUnconfigured, DomainRefused
    <2> QED BY <2>1, <2>2
  <1> QED BY <1>1, <1>2, PTL DEF Spec

(* However the migrations of any number of openers interleave, fail or are killed, a
   collector works on a schema that has every migration of its own release. *)
THEOREM CollectorsHaveSchema == Spec => []RunHasSchema
  <1>1. SchedulerInv => RunHasSchema
    <2> SUFFICES ASSUME SchedulerInv, NEW i \in Children, child[i].st \in {"run", "hung"}
                 PROVE  1 .. opener[i].release \subseteq created
      BY DEF RunHasSchema
    <2>1. i \in AllInvocations /\ i \in Openers
      BY RecoveryIsNoChild DEF SchedulerInv, SchedulerTypes, Openers
    <2>2. opener[i].st = "open"
      BY <2>1 DEF SchedulerInv, SchemaInv
    <2> QED BY <2>1, <2>2 DEF SchedulerInv, SchemaInv, OpenersInv
  <1> QED BY <1>1, SchedulerInvariant, PTL

(* Recovery at boot never closes the row of a live collector; only one that failed and was
   started again beside the services can. *)
THEOREM RecoverySpares == Spec => RecoverySparesLiveRuns
  <1> DEFINE Spared == \A i \in Children :
                child[i].row = "running" /\ child'[i].row = "recovered" => recovery = "late"
  <1>1. SchedulerInv /\ [Next]_vars => [Spared]_vars
    <2> SUFFICES ASSUME SchedulerInv, Next, NEW i \in Children,
                        child[i].row = "running", child'[i].row = "recovered"
                 PROVE  recovery = "late"
      OBVIOUS
    <2>0. i \in AllInvocations
      BY RecoveryIsNoChild DEF SchedulerInv, SchedulerTypes
    <2>1. CASE RecoverRuns
      BY <2>0, <2>1 DEF RecoverRuns, SchedulerInv, BootInv
    <2>2. CASE \/ ServeStep \/ StartRecovery \/ RecoveryMigrate \/ RecoveryFails \/ Upgrade
               \/ Reboot
      BY <2>0, <2>2 DEF ServeStep, StartService, BeginCycle, EndCycle, WaitInterval,
             StartRecovery, RecoveryMigrate, RecoveryFails, Upgrade, Reboot, Idle
    <2>3. CASE StopService \/ KillService \/ \E j \in Children : LaunchFails(j)
      BY <2>0, <2>3, AllDieEffect
         DEF StopService, KillService, LaunchFails, SchedulerInv, SchemaInv
    <2>4. ASSUME NEW j \in Children, ChildStep(j) \/ CliStorageFault(j) PROVE FALSE
      BY <2>0, <2>4, ChildStepEffect DEF SchedulerInv, SchemaInv
    <2> QED BY <2>1, <2>2, <2>3, <2>4 DEF Next, RecoveryWork
  <1> QED BY <1>1, SchedulerInvariant, PTL DEF Spec, RecoverySparesLiveRuns

(* Every target of every invocation that a valid document yields is approved. *)
LEMMA ValidTargets ==
  ASSUME NEW d, ValidateConfig(d), NEW i \in BuildInvocations(d), NEW t \in i.targets
  PROVE  Approved(t, d.active)
  <1> USE DEF ValidateConfig, ConfiguredIPv4
  <1>1. CASE i.kind = "snmp"
    <2>1. d.snmp.enabled /\ i.targets = d.snmp.targets
      BY <1>1 DEF BuildInvocations
    <2> QED BY <2>1 DEF ValidateSnmp
  <1>2. CASE i.kind = "unifi"
    <2>1. PICK e \in d.unifi.endpoints : d.unifi.enabled /\ i.targets = {e.approved_address}
      BY <1>2 DEF BuildInvocations
    <2> QED BY <2>1 DEF ValidateUnifi
  <1>3. CASE i.kind = "ad"
    <2>1. d.ad.enabled /\ i.targets = {d.ad.target}
      BY <1>3 DEF BuildInvocations
    <2> QED BY <2>1 DEF ValidateAd
  <1>4. CASE i.kind = "ssh"
    <2>1. PICK platform : /\ d.ssh.enabled \/ i.targets = {}
                          /\ i.targets = {s.address : s \in {u \in d.ssh.targets :
                                                              u.platform = platform}}
      BY <1>4 DEF BuildInvocations
    <2> QED BY <2>1 DEF ValidateSsh
  <1> QED BY <1>1, <1>2, <1>3, <1>4, InvocationKinds DEF Kinds

(* For every configuration: what the validator accepts, the children's command line refuses
   only for the gaps the validator is known to leave. *)
THEOREM RequestsAccepted == Spec => []ScheduledRequestsAccepted
  <1>1. SchedulerInv => ScheduledRequestsAccepted
    <2> SUFFICES ASSUME SchedulerInv, NEW i \in Children, child[i].code = "refused"
                 PROVE  IncompleteProfile(doc, i)
      BY DEF ScheduledRequestsAccepted
    <2>1. ValidateConfig(doc) /\ (Unconfigured(i) \/ Unapproved(i))
      BY RecoveryIsNoChild DEF SchedulerInv, SchedulerTypes, ValidInv
    <2>2. /\ i.kind = "ad" => doc.ad.enabled
          /\ i.kind = "unifi" => doc.unifi.enabled
      BY DEF Children, BuildInvocations
    <2>3. CASE Unconfigured(i)
      BY <2>1, <2>2, <2>3 DEF Unconfigured, SnmpUnconfigured, SshUnconfigured, AdUnconfigured,
             IncompleteProfile, ValidateConfig, ValidateAd
    <2>4. CASE Unapproved(i)
      <3>1. \A t \in i.targets : Approved(t, doc.active)
        BY <2>1, ValidTargets DEF Children
      <3>2. i.kind = "unifi" => \A e \in doc.unifi.endpoints : e.approved_address # None
        BY <2>1, <2>2 DEF ValidateConfig, ValidateUnifi
      <3> QED BY <2>4, <3>1, <3>2 DEF Unapproved, DomainRefused, IncompleteProfile
    <2> QED BY <2>1, <2>3, <2>4
  <1> QED BY <1>1, SchedulerInvariant, PTL
=============================================================================
