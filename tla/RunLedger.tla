----------------------------- MODULE RunLedger -----------------------------
(***************************************************************************)
(* What the collector_runs and collector_errors tables promise to whoever  *)
(* reads them: a run is inserted as "running", gathers error rows only     *)
(* while it is running, and is given exactly one final state.  A process   *)
(* that died leaves its rows "running" until recovery closes them all.     *)
(* The components that own run rows are shown to implement this module.    *)
(***************************************************************************)
EXTENDS Sequences

CONSTANTS Runs,        \* identifiers of rows of collector_runs
          Categories   \* categories of rows of collector_errors

VARIABLES row,         \* status column of collector_runs, "absent" before the insert
          errors       \* categories of the run's collector_errors rows, oldest first

vars == <<row, errors>>

Final == {"succeeded", "partial", "failed", "cancelled"}

Init == /\ row = [r \in Runs |-> "absent"]
        /\ errors = [r \in Runs |-> <<>>]

(* start_run: one transaction inserts the row. *)
StartRun(r) == /\ row[r] = "absent"
               /\ row' = [row EXCEPT ![r] = "running"]
               /\ UNCHANGED errors

(* record_collector_error on a run that has not been closed. *)
RecordError(r, c) == /\ row[r] = "running"
                     /\ errors' = [errors EXCEPT ![r] = Append(@, c)]
                     /\ UNCHANGED row

(* finish_run: UPDATE ... WHERE status = 'running', refused otherwise. *)
FinishRun(r, status) == /\ row[r] = "running"
                        /\ row' = [row EXCEPT ![r] = status]
                        /\ UNCHANGED errors

(* recover_interrupted_runs: every running row fails with an "interrupted" error. *)
RecoverInterruptedRuns ==
    /\ row' = [r \in Runs |-> IF row[r] = "running" THEN "failed" ELSE row[r]]
    /\ errors' = [r \in Runs |-> IF row[r] = "running"
                                   THEN Append(errors[r], "interrupted")
                                   ELSE errors[r]]

Next == \/ \E r \in Runs : \/ StartRun(r)
                           \/ \E c \in Categories : RecordError(r, c)
                           \/ \E status \in Final : FinishRun(r, status)
        \/ RecoverInterruptedRuns

Spec == Init /\ [][Next]_vars
=============================================================================
