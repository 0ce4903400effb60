------------------------- MODULE SchedulerService -------------------------
(***************************************************************************)
(* field-discovery-scheduler under systemd: cycles of child processes of   *)
(* the command line, bounded by a semaphore and a timeout; what each child *)
(* does to the database (it migrates it, starts a run row, closes it); the *)
(* boot-time recovery unit; stop, kill and reboot.                         *)
(***************************************************************************)
EXTENDS Configuration

CONSTANTS Documents,     \* configuration files the service may be started with
          NumMigrations, \* migrations of the newest release
          MaxFaults      \* storage failures, reboots and late recoveries together

VARIABLES doc,           \* the configuration, fixed while the service runs
          serve,         \* where the serve loop is
          stop,          \* the stop event
          child,         \* per invocation: the child process and its outcome
          history, created, opener,
          release,       \* newest migration of the installed release
          recovery,      \* the recovery unit of this boot
          abandoned,     \* a run row is "running" without a live process
          faults

vars == <<doc, serve, stop, child, history, created, opener, release, recovery, abandoned, faults>>
database == <<history, created, opener>>

Children == BuildInvocations(doc)
RecoveryUnit == [kind |-> "recovery", key |-> None, targets |-> {}]
AllInvocations == UNION {BuildInvocations(d) : d \in Documents}
DB == INSTANCE Migrations WITH Openers <- AllInvocations \union {RecoveryUnit}

Idle == [st |-> "idle", code |-> "none", row |-> "none"]
Live(c) == c.st \in {"cli", "open", "run", "hung", "term"}

ASSUME BoundsAssumption == {NumMigrations, MaxFaults} \subseteq Nat

Init == /\ doc \in Documents
        /\ serve = "down" /\ stop = FALSE
        /\ child = [i \in AllInvocations |-> Idle]
        /\ history = {} /\ created = {}
        /\ opener = [p \in AllInvocations \union {RecoveryUnit} |-> DB!Closed]
        /\ release \in 1..NumMigrations
        /\ recovery = "waiting"
        /\ abandoned = FALSE /\ faults = 0

-----------------------------------------------------------------------------
(* main without the unit's After= ordering. *)
StartService_early ==
    /\ serve = "down"
    /\ serve' = IF ValidateConfig(doc) THEN "check" ELSE "ended"
    /\ UNCHANGED <<doc, stop, child, history, created, opener, release, recovery, abandoned, faults>>

(* main: the service starts once the recovery unit has been tried; an      *)
(* invalid configuration ends it with status 1.                            *)
StartService ==
    /\ serve = "down"
    /\ recovery \in {"ok", "failed"}
    /\ serve' = IF ValidateConfig(doc) THEN "check" ELSE "ended"
    /\ UNCHANGED <<doc, stop, child, history, created, opener, release, recovery, abandoned, faults>>

(* serve, the loop's test, and run_cycle's gather: every invocation waits  *)
(* for the semaphore.                                                      *)
BeginCycle ==
    /\ serve = "check"
    /\ IF stop THEN serve' = "ended" /\ UNCHANGED child
               ELSE /\ serve' = "cycle"
                    /\ child' = [i \in AllInvocations |->
                                    IF i \in Children THEN [Idle EXCEPT !.st = "queued"] ELSE Idle]
    /\ UNCHANGED <<doc, stop, history, created, opener, release, recovery, abandoned, faults>>

(* run_one that keeps its permit when the child has ended. *)
Launch_leak(i) ==
    /\ serve = "cycle" /\ child[i].st = "queued"
    /\ Cardinality({j \in Children : child[j].st \notin {"idle", "queued"}})
         < doc.scheduler.concurrency
    /\ child' = [child EXCEPT ![i].st = "cli"]
    /\ UNCHANGED <<doc, serve, stop, history, created, opener, release, recovery, abandoned, faults>>

(* run_cycle's semaphore: as many live children as its concurrency. *)
HasPermit == Cardinality({j \in Children : Live(child[j])}) < doc.scheduler.concurrency

(* run_one: the child process is created once a permit is free.  Nothing   *)
(* here looks at the stop event.                                           *)
Launch(i) ==
    /\ serve = "cycle" /\ child[i].st = "queued"
    /\ HasPermit
    /\ child' = [child EXCEPT ![i].st = "cli"]
    /\ UNCHANGED <<doc, serve, stop, history, created, opener, release, recovery, abandoned, faults>>

Exit(i, code) == child' = [child EXCEPT ![i] = [st |-> "exited", code |-> code, row |-> "none"]]
CloseDatabase(p) == opener' = [opener EXCEPT ![p] = DB!Closed]

(* The profile checks of the collect commands, before they open the        *)
(* database.                                                               *)
SnmpUnconfigured == doc.snmp.credential_ref = None
SshUnconfigured == doc.ssh.credential_ref = None
AdUnconfigured ==
    None \in {doc.ad.credential_ref, doc.ad.domain, doc.ad.base_dn, doc.ad.server_name}

Unconfigured(invocation) ==
    \/ invocation.kind = "snmp" /\ SnmpUnconfigured
    \/ invocation.kind = "ssh" /\ SshUnconfigured
    \/ invocation.kind = "ad" /\ AdUnconfigured

(* ActiveDirectoryCollector's constructor: normalize_domain refuses a      *)
(* domain that is not a qualified DNS name.                                *)
DomainRefused == doc.ad.domain # "qualified"

(* The checks once it is open, before any row is inserted: the collector's *)
(* constructor, _approved_unifi_target, and approve_target in the          *)
(* orchestrator.                                                           *)
Unapproved(invocation) ==
    \/ invocation.kind = "ad" /\ DomainRefused
    \/ /\ invocation.kind = "unifi"
       /\ \E endpoint \in {e \in doc.unifi.endpoints : e.url = invocation.key} :
             \/ endpoint.approved_address = None
             \/ endpoint.host # endpoint.approved_address
    \/ \E target \in invocation.targets : ~Approved(target, doc.active)

(* cli.run in the child: refused, or on to Repository.open. *)
CliStart(i) ==
    /\ child[i].st = "cli"
    /\ \/ Unconfigured(i) /\ Exit(i, "refused") /\ UNCHANGED database
       \/ /\ ~Unconfigured(i)
          /\ DB!OpenDatabase(i, release)
          /\ child' = [child EXCEPT ![i].st = "open"]
    /\ UNCHANGED <<doc, serve, stop, release, recovery, abandoned, faults>>

CliMigrate(i) ==
    /\ child[i].st = "open"
    /\ DB!OpenStep(i)
    /\ UNCHANGED <<doc, serve, stop, child, release, recovery, abandoned, faults>>

(* Repository.open raised MigrationError: no row, a failing exit status. *)
CliOpenFailed(i) ==
    /\ child[i].st = "open" /\ opener[i].st = "failed"
    /\ Exit(i, "failed") /\ CloseDatabase(i)
    /\ UNCHANGED <<doc, serve, stop, history, created, release, recovery, abandoned, faults>>

(* The request is refused, or start_run; the collectors then work, or      *)
(* block for longer than the child is allowed to live.                     *)
CliStartRun(i) ==
    /\ child[i].st = "open" /\ opener[i].st = "open"
    /\ \/ Unapproved(i) /\ Exit(i, "refused") /\ CloseDatabase(i)
       \/ /\ ~Unapproved(i)
          /\ \E st \in {"run", "hung"} :
                 child' = [child EXCEPT ![i].st = st, ![i].row = "running"]
          /\ UNCHANGED opener
    /\ UNCHANGED <<doc, serve, stop, history, created, release, recovery, abandoned, faults>>

(* finish_run closes the row the child started; when recovery has closed   *)
(* it already the update matches nothing and the command fails.            *)
CliFinish(i) ==
    /\ child[i].st = "run"
    /\ IF child[i].row = "running" THEN \E code \in {"ok", "failed"} : Exit(i, code)
                                   ELSE Exit(i, "failed")
    /\ CloseDatabase(i)
    /\ UNCHANGED <<doc, serve, stop, history, created, release, recovery, abandoned, faults>>

(* A RepositoryError or sqlite3.Error while the results are stored leaves  *)
(* the command through its outer handler: the row stays "running".         *)
CliStorageFault(i) ==
    /\ child[i].st = "run" /\ faults < MaxFaults
    /\ Exit(i, "failed") /\ CloseDatabase(i)
    /\ abandoned' = (abandoned \/ child[i].row = "running")
    /\ faults' = faults + 1
    /\ UNCHANGED <<doc, serve, stop, history, created, release, recovery>>

(* _run_process that waits for a child for as long as it works. *)
TimeoutChild_patient(i) ==
    /\ child[i].st = "open" /\ faults < MaxFaults /\ faults' = faults + 1
    /\ child' = [child EXCEPT ![i].st = "term"]
    /\ CloseDatabase(i)
    /\ UNCHANGED <<doc, serve, stop, history, created, release, recovery, abandoned>>

(* _run_process: the child outlives its timeout and gets SIGTERM, which    *)
(* the command line does not handle; it is reaped (after SIGKILL if need   *)
(* be) and the outcome is 124.  The timeout is 60 seconds or more, so one  *)
(* that strikes while the database is being opened counts as a fault.      *)
TimeoutChild(i) ==
    /\ \/ child[i].st \in {"run", "hung"} /\ UNCHANGED faults
       \/ child[i].st = "open" /\ faults < MaxFaults /\ faults' = faults + 1
    /\ child' = [child EXCEPT ![i].st = "term"]
    /\ CloseDatabase(i)
    /\ UNCHANGED <<doc, serve, stop, history, created, release, recovery, abandoned>>

ReapChild(i) ==
    /\ child[i].st = "term"
    /\ Exit(i, "timeout")
    /\ abandoned' = (abandoned \/ child[i].row = "running")
    /\ UNCHANGED <<doc, serve, stop, history, created, opener, release, recovery, faults>>

(* gather returns when every run_one has; then the loop waits, or ends. *)
EndCycle ==
    /\ serve = "cycle"
    /\ \A i \in Children : child[i].st = "exited"
    /\ serve' = IF stop THEN "ended" ELSE "wait"
    /\ UNCHANGED <<doc, stop, child, history, created, opener, release, recovery, abandoned, faults>>

WaitInterval ==
    /\ serve = "wait"
    /\ serve' = IF stop THEN "ended" ELSE "check"
    /\ UNCHANGED <<doc, stop, child, history, created, opener, release, recovery, abandoned, faults>>
-----------------------------------------------------------------------------
(* Every process of the service's control group is gone. *)
AllDie ==
    /\ child' = [i \in AllInvocations |-> IF Live(child[i])
                                      THEN [st |-> "exited", code |-> "killed", row |-> "none"]
                                      ELSE child[i]]
    /\ opener' = [p \in DOMAIN opener |-> IF p = RecoveryUnit THEN opener[p] ELSE DB!Closed]
    /\ abandoned' = (abandoned \/ \E i \in Children : child[i].row = "running")

(* create_subprocess_exec raises: the error leaves gather, serve and main  *)
(* with status 1, the control group dies and systemd starts the service    *)
(* again, unless it is being stopped.                                      *)
LaunchFails(i) ==
    /\ serve = "cycle" /\ child[i].st = "queued" /\ HasPermit
    /\ faults < MaxFaults /\ faults' = faults + 1
    /\ serve' = IF stop THEN "ended" ELSE "down"
    /\ AllDie
    /\ UNCHANGED <<doc, stop, history, created, release, recovery>>

(* systemctl stop: SIGTERM to the control group.  The service only sets    *)
(* its event; the children die, and those still queued are launched next.  *)
StopService ==
    /\ serve \in {"check", "cycle", "wait"} /\ ~stop
    /\ stop' = TRUE /\ AllDie
    /\ UNCHANGED <<doc, serve, history, created, release, recovery, faults>>

(* TimeoutStopSec has passed: SIGKILL to the control group. *)
KillService ==
    /\ stop /\ serve \in {"check", "cycle", "wait"}
    /\ serve' = "ended" /\ AllDie
    /\ UNCHANGED <<doc, stop, history, created, release, recovery, faults>>

(* Power loss or reboot: nothing lives, and recovery is due again. *)
Reboot ==
    /\ faults < MaxFaults /\ serve # "down"
    /\ faults' = faults + 1
    /\ serve' = "down" /\ stop' = FALSE
    /\ child' = [i \in AllInvocations |-> Idle]
    /\ opener' = [p \in DOMAIN opener |-> DB!Closed]
    /\ recovery' = "waiting"
    /\ abandoned' = (abandoned \/ \E i \in Children : child[i].row = "running")
    /\ UNCHANGED <<doc, history, created, release>>

(* A newer release is installed under the running service. *)
Upgrade ==
    /\ release < NumMigrations
    /\ release' = NumMigrations
    /\ UNCHANGED <<doc, serve, stop, child, history, created, opener, recovery, abandoned, faults>>

(* The recovery unit: at boot before every other unit; again, beside them, *)
(* when it failed and the import timer's Wants= starts it.                 *)
StartRecovery ==
    /\ \/ recovery = "waiting" /\ recovery' = "running" /\ UNCHANGED faults
       \/ recovery = "failed" /\ recovery' = "late"
          /\ faults < MaxFaults /\ faults' = faults + 1
    /\ DB!OpenDatabase(RecoveryUnit, release)
    /\ UNCHANGED <<doc, serve, stop, child, release, abandoned>>

RecoveryMigrate ==
    /\ recovery \in {"running", "late"}
    /\ DB!OpenStep(RecoveryUnit)
    /\ UNCHANGED <<doc, serve, stop, child, release, recovery, abandoned, faults>>

(* db recover that only looks at the rows of live processes. *)
RecoverRuns_live ==
    /\ recovery \in {"running", "late"} /\ opener[RecoveryUnit].st = "open"
    /\ child' = [i \in AllInvocations |-> IF child[i].row = "running"
                                      THEN [child[i] EXCEPT !.row = "recovered"] ELSE child[i]]
    /\ recovery' = "ok" /\ CloseDatabase(RecoveryUnit)
    /\ UNCHANGED <<doc, serve, stop, history, created, release, abandoned, faults>>

(* db recover: every row still "running" is closed, whoever owns it. *)
RecoverRuns ==
    /\ recovery \in {"running", "late"} /\ opener[RecoveryUnit].st = "open"
    /\ abandoned' = FALSE
    /\ child' = [i \in AllInvocations |-> IF child[i].row = "running"
                                      THEN [child[i] EXCEPT !.row = "recovered"] ELSE child[i]]
    /\ recovery' = "ok" /\ CloseDatabase(RecoveryUnit)
    /\ UNCHANGED <<doc, serve, stop, history, created, release, faults>>

RecoveryFails ==
    /\ recovery \in {"running", "late"}
    /\ \/ opener[RecoveryUnit].st = "failed" /\ UNCHANGED faults
       \/ faults < MaxFaults /\ faults' = faults + 1
    /\ recovery' = "failed" /\ CloseDatabase(RecoveryUnit)
    /\ UNCHANGED <<doc, serve, stop, child, history, created, release, abandoned>>
-----------------------------------------------------------------------------
ChildStep(i) ==
    \/ Launch(i)
    \/ CliStart(i) \/ CliMigrate(i) \/ CliOpenFailed(i) \/ CliStartRun(i)
    \/ CliFinish(i) \/ TimeoutChild(i) \/ ReapChild(i)
ServeStep == StartService \/ BeginCycle \/ EndCycle \/ WaitInterval
RecoveryWork == RecoveryMigrate \/ RecoverRuns \/ RecoveryFails

Next == \/ ServeStep \/ StartRecovery \/ RecoveryWork
        \/ Reboot \/ Upgrade \/ StopService \/ KillService
        \/ \E i \in Children : ChildStep(i) \/ CliStorageFault(i) \/ LaunchFails(i)

Spec == Init /\ [][Next]_vars

(* The event loop and the child processes are scheduled, a child that does *)
(* not end is timed out, and systemd runs the recovery unit at boot.  It   *)
(* is enough that some child of a cycle always takes its next step.        *)
FairSpec == /\ Spec
            /\ WF_vars(ServeStep)
            /\ WF_vars((recovery = "waiting" /\ StartRecovery) \/ RecoveryWork)
            /\ WF_vars(\E i \in Children : ChildStep(i))
-----------------------------------------------------------------------------
(* A document that validate_config accepts yields children that the command*)
(* line refuses only for what validation is known to let through: a missing*)
(* credential reference or server name, a domain that is not a qualified   *)
(* name, or a controller URL that is not its approved address.  Every      *)
(* scheduled target is an approved one.                                    *)
ScheduledRequestsAccepted ==
    \A i \in Children : child[i].code = "refused" => IncompleteProfile(doc, i)

(* A collector never works on a schema older than its own release, however *)
(* the migrations of several openers interleaved, and whatever was killed. *)
RunHasSchema ==
    \A i \in Children : child[i].st \in {"run", "hung"} => 1..opener[i].release \subseteq created

(* Recovery closes the row of a live collector only when it failed at boot *)
(* and was started again beside the running services.                      *)
RecoverySparesLiveRuns ==
    [][\A i \in Children :
          child[i].row = "running" /\ child'[i].row = "recovered" => recovery = "late"]_vars

(* Rows abandoned before a reboot are closed by the recovery unit of the   *)
(* next boot, unless that unit fails.                                      *)
AbandonedRowsRecovered ==
    (abandoned /\ recovery = "waiting") ~> (~abandoned \/ recovery = "failed")

(* "failures never suppress later cycles": an acceptable collector starts  *)
(* a run again and again unless the service has ended.                     *)
LaterCyclesRun ==
    \A i \in AllInvocations :
        \/ []<>(serve = "ended")
        \/ i \notin Children \/ IncompleteProfile(doc, i)
        \/ []<>(child[i].row = "running")

(* Even without systemd's SIGKILL a stop request ends the service: the     *)
(* children that were queued are launched, but each is timed out.          *)
StopEndsService == stop ~> (serve \in {"ended", "down"})
=============================================================================
