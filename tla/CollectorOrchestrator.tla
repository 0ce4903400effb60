----------------------- MODULE CollectorOrchestrator -----------------------
(***************************************************************************)
(* CollectorOrchestrator.run and _run_one (collectors.py): one cycle of    *)
(* collector requests in one asyncio process.  Every request is a task     *)
(* that owns one collector_runs row; the tasks share a counting semaphore  *)
(* and a stop event, and run() itself (the coordinator) waits for all of   *)
(* them or for the event.                                                  *)
(*                                                                         *)
(* Steps are the code between two awaits, cut further at every repository  *)
(* transaction, because a transaction can fail and the process can be      *)
(* killed between two of them.  create_task schedules the tasks in order,  *)
(* so requests are numbered and the semaphore's FIFO is that order.        *)
(***************************************************************************)
EXTENDS Integers, Sequences, FiniteSets

CONSTANTS
    NumRequests,     \* requests in the cycle
    Concurrency,     \* scheduler.concurrency: permits of the semaphore
    Retries,         \* scheduler.retries: attempts beyond the first
    MaxIssues,       \* bound on the issues one CollectorResult carries
    Addresses,       \* IPv4 addresses
    ApprovedRanges,  \* active.approved_ranges, each a set of addresses
    Targets,         \* targets a request may name, each a set of addresses
    Collectors,      \* collector names a request may carry
    Registered,      \* the names with a registered collector
    Retryable,       \* error categories retried: "timeout", "transport"
    Permanent        \* error categories never retried: "authentication", "collector",
                     \* "collector_failure"

ASSUME CountAssumption ==
    /\ NumRequests \in Nat \ {0}
    /\ Concurrency \in Nat \ {0}
    /\ Retries \in Nat
    /\ MaxIssues \in Nat

ASSUME CategoryAssumption ==
    /\ Retryable \cap Permanent = {}
    /\ {"issue", "interrupted"} \cap (Retryable \cup Permanent) = {}

ASSUME TargetAssumption ==
    /\ ApprovedRanges \subseteq SUBSET Addresses
    /\ Targets \subseteq SUBSET Addresses
    /\ Registered \subseteq Collectors

Requests == 1 .. NumRequests

VARIABLES
    request,    \* the CollectorRequest of each task
    pc,         \* where each task is in _run_one
    attempts,   \* attempts each task has begun
    left,       \* issues of the result not yet recorded
    verdict,    \* the local variable status, or "raised" when a repository call failed
    cancelReq,  \* task.cancel() called, CancelledError not yet delivered
    permits,    \* the semaphore's value
    stop,       \* the shared cancellation event
    asked,      \* the caller set the event or cancelled run()'s own task
    coord,      \* where run() is
    row,        \* status of each collector_runs row
    errors      \* categories of each run's collector_errors rows

task == <<pc, attempts, left, verdict>>
ledger == <<row, errors>>
vars == <<request, pc, attempts, left, verdict, cancelReq, permits, stop, asked,
          coord, row, errors>>

Categories == Retryable \cup Permanent \cup {"issue", "interrupted"}
Final == {"succeeded", "partial", "failed", "cancelled"}

Terminal == {"done", "raised"}                       \* the task has ended
Ended == {"refused", "returned", "cancelled", "closed"}  \* the event loop is over
Dead == {"killed", "recovered"}

(***************************************************************************)
(* The asyncio.Semaphore.  A waiter that was handed a permit stays         *)
(* "granted" until its task runs again, and already owns the permit.       *)
(***************************************************************************)
Holding == {"granted", "looping", "collecting", "reporting", "leaving"}
Holders == {r \in Requests : pc[r] \in Holding}
LiveWaiters == {r \in Requests : pc[r] = "queued" /\ ~cancelReq[r]}

(* locked(): no permit, or a waiter whose future was not cancelled. *)
Locked == \/ permits = 0
          \/ LiveWaiters # {}
          \/ \E r \in Requests : pc[r] = "granted"

(* The futures _wake_up_next resolves when called up to n times, oldest first. *)
FirstWaiters(W, n) ==
    /\ W \subseteq LiveWaiters
    /\ \A w \in W, r \in LiveWaiters : r < w => r \in W
    /\ Cardinality(W) <= n
    /\ Cardinality(W) < n => W = LiveWaiters

(* r moves to place; the waiters of W are handed a permit each. *)
Move(r, place, W) ==
    pc' = [q \in Requests |-> IF q = r THEN place ELSE IF q \in W THEN "granted" ELSE pc[q]]

Goto(r, place) == pc' = [pc EXCEPT ![r] = place]
Alive == coord \notin Dead
AllTerminal == \A r \in Requests : pc[r] \in Terminal
AnyRaised == \E r \in Requests : pc[r] = "raised"

Init ==
    /\ request \in [Requests -> [collector : Collectors, target : Targets]]
    /\ pc = [r \in Requests |-> "new"]
    /\ attempts = [r \in Requests |-> 0]
    /\ left = [r \in Requests |-> 0]
    /\ verdict = [r \in Requests |-> "failed"]
    /\ cancelReq = [r \in Requests |-> FALSE]
    /\ permits = Concurrency
    /\ stop = FALSE
    /\ asked = FALSE
    /\ coord = "approving"
    /\ row = [r \in Requests |-> "absent"]
    /\ errors = [r \in Requests |-> <<>>]

(***************************************************************************)
(* run(): approval, then waiting for the tasks or the stop event.          *)
(***************************************************************************)

(* Mutant: every address is approved by some range. *)
ApproveTarget_union(target) == target \subseteq UNION ApprovedRanges

(* approve_target: inside one range, not merely inside their union. *)
ApproveTarget(target) == \E range \in ApprovedRanges : target \subseteq range

Accepted(q) == ApproveTarget(q.target) /\ q.collector \in Registered

(* All requests are approved and known, or run() raises before it creates a task. *)
Approve ==
    /\ coord = "approving"
    /\ coord' = IF \A r \in Requests : Accepted(request[r]) THEN "waiting" ELSE "refused"
    /\ UNCHANGED <<request, task, cancelReq, permits, stop, asked, ledger>>

(* The caller sets the event it passed in as cancellation. *)
RequestStop ==
    /\ coord = "waiting" /\ ~stop
    /\ stop' = TRUE /\ asked' = TRUE
    /\ UNCHANGED <<request, task, cancelReq, permits, coord, ledger>>

(* The loop runs every task's first step before it resumes run(). *)
FirstStepsDone == \A r \in Requests : pc[r] \notin {"new", "started"}

CancelTasks == cancelReq' = [r \in Requests |-> cancelReq[r] \/ pc[r] \notin Terminal]

(* run() wakes on the event while tasks are pending and cancels them. *)
PropagateStop ==
    /\ coord = "waiting" /\ stop /\ ~AllTerminal /\ FirstStepsDone
    /\ CancelTasks
    /\ coord' = "gathering"
    /\ UNCHANGED <<request, task, permits, stop, asked, ledger>>

(* The gather future is done once a task raised or all tasks returned. *)
Gathered ==
    /\ coord \in {"waiting", "gathering"} /\ FirstStepsDone
    /\ \/ AnyRaised /\ coord' = "raised"
       \/ ~AnyRaised /\ AllTerminal /\ coord' = "returned"
    /\ UNCHANGED <<request, task, cancelReq, permits, stop, asked, ledger>>

(* run()'s own task is cancelled (Ctrl-C under asyncio.run, or the caller). *)
CancelRun ==
    /\ coord \in {"waiting", "gathering"} /\ FirstStepsDone
    /\ stop' = TRUE /\ asked' = TRUE
    /\ CancelTasks
    /\ coord' = "unwinding"
    /\ UNCHANGED <<request, task, permits, ledger>>

(* Mutant: the cancelled tasks are not waited for. *)
Unwound_early ==
    /\ coord = "unwinding"
    /\ coord' = "cancelled"
    /\ UNCHANGED <<request, task, cancelReq, permits, stop, asked, ledger>>

(* gather(return_exceptions=True) waits for every task before re-raising. *)
Unwound ==
    /\ coord = "unwinding" /\ AllTerminal
    /\ coord' = "cancelled"
    /\ UNCHANGED <<request, task, cancelReq, permits, stop, asked, ledger>>

(* run() raised: asyncio.run cancels the tasks it left behind ... *)
ShutdownLoop ==
    /\ coord = "raised"
    /\ CancelTasks
    /\ coord' = "closing"
    /\ UNCHANGED <<request, task, permits, stop, asked, ledger>>

(* ... and waits for them before it closes the loop. *)
CloseLoop ==
    /\ coord = "closing" /\ AllTerminal
    /\ coord' = "closed"
    /\ UNCHANGED <<request, task, cancelReq, permits, stop, asked, ledger>>

(***************************************************************************)
(* _run_one, by task.                                                      *)
(***************************************************************************)

(* start_run inserts the row, or fails and the task ends without one. *)
StartTask(r) ==
    /\ coord = "waiting" /\ pc[r] = "new"
    /\ \A q \in 1 .. r - 1 : pc[q] # "new"
    /\ \/ Goto(r, "started") /\ row' = [row EXCEPT ![r] = "running"]
       \/ Goto(r, "raised") /\ UNCHANGED row
    /\ UNCHANGED <<request, attempts, left, verdict, cancelReq, permits, stop, asked,
                   coord, errors>>

(* Semaphore.acquire without waiting, or joining the queue. *)
Acquire(r) ==
    /\ Alive /\ pc[r] = "started"
    /\ \A q \in 1 .. r - 1 : pc[q] \notin {"new", "started"}
    /\ \/ ~Locked /\ Goto(r, "looping") /\ permits' = permits - 1
       \/ Locked /\ Goto(r, "queued") /\ UNCHANGED permits
    /\ UNCHANGED <<request, attempts, left, verdict, cancelReq, stop, asked, coord, ledger>>

(* The rest of acquire after its future got a result: wake whom the value allows. *)
Acquired(r) ==
    /\ Alive /\ pc[r] = "granted" /\ ~cancelReq[r]
    /\ \E W \in SUBSET LiveWaiters :
          /\ FirstWaiters(W, permits)
          /\ Move(r, "looping", W)
          /\ permits' = permits - Cardinality(W)
    /\ UNCHANGED <<request, attempts, left, verdict, cancelReq, stop, asked, coord, ledger>>

(* Mutant: a permit granted to a cancelled waiter is forgotten. *)
AbortAcquire_leak(r) ==
    /\ Alive /\ pc[r] \in {"queued", "granted"} /\ cancelReq[r]
    /\ Goto(r, "finishing")
    /\ verdict' = [verdict EXCEPT ![r] = "cancelled"]
    /\ cancelReq' = [cancelReq EXCEPT ![r] = FALSE]
    /\ stop' = TRUE
    /\ UNCHANGED <<request, attempts, left, permits, asked, coord, ledger>>

(* CancelledError inside acquire: a permit already granted goes back first. *)
AbortAcquire(r) ==
    /\ Alive /\ pc[r] \in {"queued", "granted"} /\ cancelReq[r]
    /\ LET value == IF pc[r] = "granted" THEN permits + 1 ELSE permits
       IN  \E W \in SUBSET LiveWaiters :
              /\ FirstWaiters(W, value)
              /\ Move(r, "finishing", W)
              /\ permits' = value - Cardinality(W)
    /\ verdict' = [verdict EXCEPT ![r] = "cancelled"]
    /\ cancelReq' = [cancelReq EXCEPT ![r] = FALSE]
    /\ stop' = TRUE
    /\ UNCHANGED <<request, attempts, left, asked, coord, ledger>>

(* Mutant: the event is not read before a retry. *)
BeginAttempt_unchecked(r) ==
    /\ Alive /\ pc[r] = "looping" /\ ~cancelReq[r]
    /\ Goto(r, "collecting")
    /\ attempts' = [attempts EXCEPT ![r] = @ + 1]
    /\ UNCHANGED <<request, left, verdict, cancelReq, permits, stop, asked, coord, ledger>>

(* Top of the for loop: the event is read before every attempt. *)
BeginAttempt(r) ==
    /\ Alive /\ pc[r] = "looping" /\ ~stop /\ ~cancelReq[r]
    /\ Goto(r, "collecting")
    /\ attempts' = [attempts EXCEPT ![r] = @ + 1]
    /\ UNCHANGED <<request, left, verdict, cancelReq, permits, stop, asked, coord, ledger>>

(* CancelledError at the top of the loop, in retry_sleep, or in collect(), which
   is cancelled by its task or notices the event itself. *)
AbortAttempt(r) ==
    /\ Alive /\ pc[r] \in {"looping", "collecting"} /\ (stop \/ cancelReq[r])
    /\ Goto(r, "leaving")
    /\ verdict' = [verdict EXCEPT ![r] = "cancelled"]
    /\ cancelReq' = [cancelReq EXCEPT ![r] = FALSE]
    /\ stop' = TRUE
    /\ UNCHANGED <<request, attempts, left, permits, asked, coord, ledger>>

(* Either _record_issue commits c and the task goes on, or the repository raises. *)
RecordIssue(r, c, place) ==
    \/ /\ errors' = [errors EXCEPT ![r] = Append(@, c)]
       /\ Goto(r, place)
       /\ UNCHANGED verdict
    \/ /\ Goto(r, "leaving")
       /\ verdict' = [verdict EXCEPT ![r] = "raised"]
       /\ UNCHANGED errors

(* wait_for timed out or a RetryableCollectorError: retried while attempts remain.
   A cancellation that arrives with the answer is lost in wait_for. *)
FailRetryable(r) ==
    /\ Alive /\ pc[r] = "collecting"
    /\ \E c \in Retryable :
          RecordIssue(r, c, IF attempts[r] <= Retries THEN "looping" ELSE "leaving")
    /\ cancelReq' = [cancelReq EXCEPT ![r] = FALSE]
    /\ UNCHANGED <<request, attempts, left, permits, stop, asked, coord, row>>

(* Mutant: a permanent failure is retried like a temporary one. *)
FailPermanent_retried(r) ==
    /\ Alive /\ pc[r] = "collecting"
    /\ \E c \in Permanent :
          RecordIssue(r, c, IF attempts[r] <= Retries THEN "looping" ELSE "leaving")
    /\ cancelReq' = [cancelReq EXCEPT ![r] = FALSE]
    /\ UNCHANGED <<request, attempts, left, permits, stop, asked, coord, row>>

(* Rejected credential, CollectorError or an unexpected exception: never retried. *)
FailPermanent(r) ==
    /\ Alive /\ pc[r] = "collecting"
    /\ \E c \in Permanent : RecordIssue(r, c, "leaving")
    /\ cancelReq' = [cancelReq EXCEPT ![r] = FALSE]
    /\ UNCHANGED <<request, attempts, left, permits, stop, asked, coord, row>>

(* collect() returned a result carrying n issues. *)
ReturnResult(r) ==
    /\ Alive /\ pc[r] = "collecting"
    /\ \E n \in 0 .. MaxIssues :
          /\ left' = [left EXCEPT ![r] = n]
          /\ verdict' = [verdict EXCEPT ![r] = IF n = 0 THEN "succeeded" ELSE "partial"]
          /\ Goto(r, IF n = 0 THEN "leaving" ELSE "reporting")
    /\ cancelReq' = [cancelReq EXCEPT ![r] = FALSE]
    /\ UNCHANGED <<request, attempts, permits, stop, asked, coord, ledger>>

(* One issue of the result is recorded, in a transaction of its own. *)
ReportIssue(r) ==
    /\ Alive /\ pc[r] = "reporting"
    /\ left' = [left EXCEPT ![r] = @ - 1]
    /\ RecordIssue(r, "issue", IF left[r] = 1 THEN "leaving" ELSE "reporting")
    /\ UNCHANGED <<request, attempts, cancelReq, permits, stop, asked, coord, row>>

(* Mutant: release increments the value and wakes nobody. *)
Release_silent(r) ==
    /\ Alive /\ pc[r] = "leaving"
    /\ Goto(r, IF verdict[r] = "raised" THEN "raised" ELSE "finishing")
    /\ permits' = permits + 1
    /\ UNCHANGED <<request, attempts, left, verdict, cancelReq, stop, asked, coord, ledger>>

(* Leaving "async with semaphore" on any path releases one permit. *)
Release(r) ==
    /\ Alive /\ pc[r] = "leaving"
    /\ \E W \in SUBSET LiveWaiters :
          /\ FirstWaiters(W, 1)
          /\ Move(r, IF verdict[r] = "raised" THEN "raised" ELSE "finishing", W)
          /\ permits' = permits + 1 - Cardinality(W)
    /\ UNCHANGED <<request, attempts, left, verdict, cancelReq, stop, asked, coord, ledger>>

(* finish_run, which updates a running row once or raises. *)
FinishTask(r) ==
    /\ Alive /\ pc[r] = "finishing"
    /\ \/ /\ row[r] = "running"
          /\ row' = [row EXCEPT ![r] = verdict[r]]
          /\ Goto(r, "done")
       \/ Goto(r, "raised") /\ UNCHANGED row
    /\ UNCHANGED <<request, attempts, left, verdict, cancelReq, permits, stop, asked,
                   coord, errors>>

(***************************************************************************)
(* The process dies (SIGTERM has no handler in the CLI); recovery at the   *)
(* next boot closes what it left open.                                     *)
(***************************************************************************)
Kill ==
    /\ coord \notin Ended \cup Dead
    /\ coord' = "killed"
    /\ UNCHANGED <<request, task, cancelReq, permits, stop, asked, ledger>>

(* Mutant: recovery closes rows whatever their status. *)
RecoverInterruptedRuns_all ==
    /\ coord \in {"killed", "closed"}
    /\ coord' = "recovered"
    /\ row' = [r \in Requests |-> IF row[r] = "absent" THEN row[r] ELSE "failed"]
    /\ errors' = [r \in Requests |-> Append(errors[r], "interrupted")]
    /\ UNCHANGED <<request, task, cancelReq, permits, stop, asked>>

(* Repository.recover_interrupted_runs: one transaction over every running row. *)
RecoverInterruptedRuns ==
    /\ coord \in {"killed", "closed"}
    /\ coord' = "recovered"
    /\ row' = [r \in Requests |-> IF row[r] = "running" THEN "failed" ELSE row[r]]
    /\ errors' = [r \in Requests |-> IF row[r] = "running"
                                       THEN Append(errors[r], "interrupted")
                                       ELSE errors[r]]
    /\ UNCHANGED <<request, task, cancelReq, permits, stop, asked>>

TaskStep(r) ==
    \/ StartTask(r) \/ Acquire(r) \/ Acquired(r) \/ AbortAcquire(r)
    \/ BeginAttempt(r) \/ AbortAttempt(r)
    \/ FailRetryable(r) \/ FailPermanent(r) \/ ReturnResult(r) \/ ReportIssue(r)
    \/ Release(r) \/ FinishTask(r)

RunStep == Approve \/ PropagateStop \/ Gathered \/ Unwound \/ ShutdownLoop \/ CloseLoop

Next == \/ \E r \in Requests : TaskStep(r)
        \/ RunStep
        \/ RequestStop \/ CancelRun \/ Kill \/ RecoverInterruptedRuns

(* The event loop schedules every ready task, and wait_for bounds collect(). *)
Fairness == /\ \A r \in Requests : WF_vars(TaskStep(r))
            /\ WF_vars(RunStep)

Spec == Init /\ [][Next]_vars
FairSpec == Spec /\ Fairness

-----------------------------------------------------------------------------
(* Every variable has its type; attempts never exceed the retry budget. *)
TypeOK ==
    /\ request \in [Requests -> [collector : Collectors, target : Targets]]
    /\ pc \in [Requests -> Holding \cup Terminal \cup {"new", "started", "queued", "finishing"}]
    /\ attempts \in [Requests -> 0 .. Retries + 1]
    /\ left \in [Requests -> 0 .. MaxIssues]
    /\ verdict \in [Requests -> Final \cup {"raised"}]
    /\ cancelReq \in [Requests -> BOOLEAN]
    /\ permits \in 0 .. Concurrency
    /\ stop \in BOOLEAN /\ asked \in BOOLEAN
    /\ coord \in Ended \cup Dead
                  \cup {"approving", "waiting", "gathering", "unwinding", "raised", "closing"}
    /\ row \in [Requests -> Final \cup {"absent", "running"}]
    /\ errors \in [Requests -> Seq(Categories)]

(* No permit of the semaphore is lost or invented: cancelling a waiter that was just
   handed a permit, and every way out of "async with semaphore", gives it back. *)
PermitsConserved == permits + Cardinality(Holders) = Concurrency

(* A permit lies unused while a request waits for one only if some waiter has been
   handed another and will pass the surplus on when it runs. *)
NoLostPermit ==
    permits > 0 /\ LiveWaiters # {} => \E r \in Requests : pc[r] = "granted"

(* The semaphore of run() serves every request whatever is cancelled: its permits are
   conserved, and none lies idle in front of a waiter nobody will wake. *)
PermitsSafe == PermitsConserved /\ NoLostPermit

(* No request gets a row unless every request of the cycle names a registered collector
   and a target that lies wholly inside one approved range. *)
AllOrNoneStarted ==
    (\E r \in Requests : row[r] # "absent") =>
        \A q \in Requests :
            /\ request[q].collector \in Registered
            /\ \E range \in ApprovedRanges : request[q].target \subseteq range

(* The error rows of a closed run account for its status: each attempt but the last
   failed for a retryable reason, a success adds nothing to them, a partial result adds
   only its issues, and a failure was permanent or used every attempt. *)
ErrorsExplainStatus ==
    \A r \in Requests :
        LET e == errors[r]
            n == Len(e)
            a == attempts[r]
        IN  /\ coord # "recovered" => \A i \in 1 .. n : i < a => e[i] \in Retryable
            /\ row[r] = "succeeded" => n = a - 1
            /\ row[r] = "partial" => n >= a /\ \A i \in a .. n : e[i] = "issue"
            /\ row[r] = "cancelled" => n \in {a - 1, a} /\ \A i \in 1 .. n : e[i] \in Retryable
            /\ row[r] = "failed" /\ coord # "recovered" =>
                  /\ n = a
                  /\ e[n] \in Permanent \/ (e[n] \in Retryable /\ a = Retries + 1)

(* A run is cancelled only because the caller asked, or because another request's
   repository call failed and the loop is being shut down: an ordinary failure of one
   collector never cancels the others. *)
CancelledOnlyIfAsked ==
    \A r \in Requests : row[r] = "cancelled" => asked \/ AnyRaised

(* The status _run_one records is explained by what happened: a failure by its error
   rows, a cancellation by the caller or by another request's repository call. *)
StatusExplained == ErrorsExplainStatus /\ CancelledOnlyIfAsked

(* docs/collector-framework.md says of an unexpected exception that it is isolated to its
   run and "Other requests in the cycle continue".  A repository call that raises is such
   an exception; a run nobody asked to cancel should not end cancelled. *)
OthersContinue == \A r \in Requests : row[r] = "cancelled" => asked

(* Once the event loop is over, a row is still running only if the repository call that
   would have closed it failed. *)
EndedRowsClosed ==
    coord \in Ended => \A r \in Requests : row[r] = "running" => pc[r] = "raised"

(* Once the shared event is set, no request begins another attempt. *)
NoAttemptAfterStop ==
    [][stop => attempts' = attempts]_vars

(* A cycle ends, whatever is cancelled, times out or fails, unless the process dies. *)
CycleEnds == <>(coord \in Ended \cup Dead)

(* The rows the cycle writes behave as the run ledger promises: one insert, errors only
   while running, exactly one final state. *)
Ledger == INSTANCE RunLedger WITH Runs <- Requests
LedgerSpec == Ledger!Spec
=============================================================================
