------------------------------ MODULE NmapScan ------------------------------
(***************************************************************************)
(* run_nmap_scan and _terminate_group (nmap_scan.py): operators launch the *)
(* protected scan script under a file lock, wait for it under a timeout,   *)
(* and record each launch in collector_runs.                               *)
(*                                                                         *)
(* The script is a process group of its own (start_new_session): a leader, *)
(* the process that was started, and the processes it starts.  It does not *)
(* inherit the lock, which the kernel frees with the launcher's descriptor.*)
(***************************************************************************)
EXTENDS Integers, FiniteSets

CONSTANTS
    Launchers,   \* processes that run "scan nmap", once each
    Helpers,     \* processes the script starts in its group
    Leader,      \* the process of the script itself
    Nobody,      \* the lock is free
    MaxLosses    \* bound on interrupted and killed launchers

ASSUME ScanAssumption ==
    /\ Leader \notin Helpers
    /\ Nobody \notin Launchers
    /\ MaxLosses \in Nat

VARIABLES
    pc,      \* where each launcher is in run_nmap_scan
    lock,    \* who holds the flock
    row,     \* status of each launch's collector_runs row
    status,  \* the local variable status
    group,   \* live processes of each launch's script
    losses

scanVars == <<pc, lock, row, status, group, losses>>

Final == {"succeeded", "failed", "cancelled"}
Over == {"returned", "raised", "lost"}

ScanInit ==
    /\ pc = [l \in Launchers |-> "idle"]
    /\ lock = Nobody
    /\ row = [l \in Launchers |-> "absent"]
    /\ status = [l \in Launchers |-> "failed"]
    /\ group = [l \in Launchers |-> {}]
    /\ losses = 0

Goto(l, place) == pc' = [pc EXCEPT ![l] = place]

(* Mutant: whoever ends frees the lock. *)
Unlock_always(l) == lock' = Nobody

(* finally: lock.close(). *)
Unlock(l) == lock' = IF lock = l THEN Nobody ELSE lock

(***************************************************************************)
(* The launcher.                                                           *)
(***************************************************************************)

(* A non-blocking flock. *)
TryLock(l) ==
    /\ pc[l] = "idle"
    /\ \/ lock = Nobody /\ lock' = l /\ Goto(l, "locked")
       \/ lock # Nobody /\ Goto(l, "refused") /\ UNCHANGED lock
    /\ UNCHANGED <<row, status, group, losses>>

(* start_run, for a launch and for the record of a refused one; it may raise. *)
StartRun(l) ==
    /\ pc[l] \in {"locked", "refused"}
    /\ \/ /\ row' = [row EXCEPT ![l] = "running"]
          /\ Goto(l, IF pc[l] = "locked" THEN "launching" ELSE "finishing")
          /\ UNCHANGED lock
       \/ Goto(l, "raised") /\ Unlock(l) /\ UNCHANGED row
    /\ UNCHANGED <<status, group, losses>>

(* The script cannot be hashed or started: the launch ends "failed". *)
LaunchFails(l) ==
    /\ pc[l] = "launching"
    /\ Goto(l, "finishing")
    /\ UNCHANGED <<lock, row, status, group, losses>>

Launch(l) ==
    /\ pc[l] = "launching"
    /\ Goto(l, "waiting")
    /\ group' = [group EXCEPT ![l] = {Leader}]
    /\ UNCHANGED <<lock, row, status, losses>>

(* wait() returned: the leader is gone, its exit code decides. *)
ScriptExited(l) ==
    /\ pc[l] = "waiting" /\ Leader \notin group[l]
    /\ \E s \in {"succeeded", "failed"} : status' = [status EXCEPT ![l] = s]
    /\ Goto(l, "finishing")
    /\ UNCHANGED <<lock, row, group, losses>>

(* The outer timeout: SIGTERM to the group; it may already be gone. *)
Timeout(l) ==
    /\ pc[l] = "waiting"
    /\ status' = [status EXCEPT ![l] = "cancelled"]
    /\ Goto(l, IF group[l] = {} THEN "finishing" ELSE "terminating")
    /\ UNCHANGED <<lock, row, group, losses>>

(* Within five seconds the leader exits, and _terminate_group returns ... *)
LeaderStopped(l) ==
    /\ pc[l] = "terminating" /\ Leader \notin group[l]
    /\ Goto(l, "finishing")
    /\ UNCHANGED <<lock, row, status, group, losses>>

(* Mutant: after SIGTERM the leader is waited for without a deadline. *)
KillGroup_patient(l) ==
    /\ pc[l] = "terminating" /\ group[l] = {}
    /\ Goto(l, "finishing")
    /\ UNCHANGED <<lock, row, status, group, losses>>

(* ... or it does not, and SIGKILL ends the whole group. *)
KillGroup(l) ==
    /\ pc[l] = "terminating" /\ Leader \in group[l]
    /\ group' = [group EXCEPT ![l] = {}]
    /\ Goto(l, "finishing")
    /\ UNCHANGED <<lock, row, status, losses>>

(* Mutant: the update is not confined to the launch's own row. *)
FinishRun_all(l) ==
    /\ pc[l] = "finishing"
    /\ row' = [m \in Launchers |-> IF row[m] = "running" THEN status[l] ELSE row[m]]
    /\ Goto(l, "returned")
    /\ Unlock(l)
    /\ UNCHANGED <<status, group, losses>>

(* finish_run, which may raise, then the finally block. *)
FinishRun(l) ==
    /\ pc[l] = "finishing"
    /\ \/ row' = [row EXCEPT ![l] = status[l]] /\ Goto(l, "returned")
       \/ Goto(l, "raised") /\ UNCHANGED row
    /\ Unlock(l)
    /\ UNCHANGED <<status, group, losses>>

(* KeyboardInterrupt passes every except clause, SIGTERM or a crash passes all of them:
   the launcher is gone, the lock with it, the row and the script stay as they are. *)
LoseLauncher(l) ==
    /\ pc[l] \notin Over \cup {"idle"} /\ losses < MaxLosses
    /\ Goto(l, "lost")
    /\ Unlock(l)
    /\ losses' = losses + 1
    /\ UNCHANGED <<row, status, group>>

(***************************************************************************)
(* The script.                                                             *)
(***************************************************************************)
Spawn(l) ==
    /\ Leader \in group[l]
    /\ \E h \in Helpers \ group[l] : group' = [group EXCEPT ![l] = @ \cup {h}]
    /\ UNCHANGED <<pc, lock, row, status, losses>>

(* A process ends by itself or on SIGTERM, in any order. *)
Exit(l) ==
    /\ \E p \in group[l] : group' = [group EXCEPT ![l] = @ \ {p}]
    /\ UNCHANGED <<pc, lock, row, status, losses>>

LaunchStep(l) ==
    \/ StartRun(l) \/ Launch(l) \/ LaunchFails(l) \/ ScriptExited(l) \/ Timeout(l)
    \/ LeaderStopped(l) \/ KillGroup(l) \/ FinishRun(l)

ScanNext == \E l \in Launchers :
            TryLock(l) \/ LaunchStep(l) \/ LoseLauncher(l) \/ Spawn(l) \/ Exit(l)

ScanSpec == ScanInit /\ [][ScanNext]_scanVars

(* A launcher that has begun runs on: its waits are bounded by the two timeouts. *)
ScanFairSpec == ScanSpec /\ \A l \in Launchers : WF_scanVars(LaunchStep(l))

-----------------------------------------------------------------------------
(* Every variable has its type, and a launch ends in a state finish_run accepts. *)
ScanTypeOK ==
    /\ pc \in [Launchers -> Over \cup {"idle", "locked", "refused", "launching", "waiting",
                                       "terminating", "finishing"}]
    /\ lock \in Launchers \cup {Nobody}
    /\ row \in [Launchers -> Final \cup {"absent", "running"}]
    /\ status \in [Launchers -> Final]
    /\ group \in [Launchers -> SUBSET (Helpers \cup {Leader})]
    /\ losses \in 0 .. MaxLosses

InScan(l) == pc[l] \in {"locked", "launching", "waiting", "terminating"}

(* At most one launcher is between taking the lock and recording its end, even when
   launchers are interrupted: the lock is never freed early and never left behind. *)
OneLauncher ==
    /\ \A l, m \in Launchers : InScan(l) /\ InScan(m) => l = m
    /\ lock # Nobody => pc[lock] \notin Over

(* While launchers are never lost, no two scripts' own processes run at once. *)
OneScript ==
    losses = 0 =>
        \A l, m \in Launchers : Leader \in group[l] /\ Leader \in group[m] => l = m

(* The lock of nmap_scan.run does its work: one launcher scans at a time, and with no
   launcher lost so does one script. *)
OneScan == ScanTypeOK /\ OneLauncher /\ OneScript

(* The rows of launches, refused ones included, behave as the run ledger promises.  The
   launcher writes no collector_errors row. *)
Ledger == INSTANCE RunLedger WITH Runs <- Launchers, Categories <- {},
                                  errors <- [l \in Launchers |-> <<>>]
LedgerSpec == Ledger!Spec

(* A launch that has begun comes to an end, whatever the script does. *)
LaunchEnds ==
    \A l \in Launchers : pc[l] # "idle" ~> pc[l] \in Over
=============================================================================
