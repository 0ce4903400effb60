-------------------- MODULE CollectorOrchestratorProofs --------------------
(***************************************************************************)
(* Safety of CollectorOrchestrator for every number of requests, permits,  *)
(* retries and issues.                                                     *)
(***************************************************************************)
EXTENDS CollectorOrchestrator, FiniteSetTheorems, SequenceTheorems, TLAPS

(* What a task's local variables are at each place of _run_one. *)
TaskInv ==
    \A r \in Requests :
        /\ pc[r] \in {"new", "started", "queued", "granted", "looping"} => attempts[r] <= Retries
        /\ pc[r] = "reporting" => left[r] >= 1
        /\ pc[r] = "finishing" => verdict[r] \in Final

(* The semaphore's inductive invariant. *)
SemaphoreInv == TypeOK /\ TaskInv /\ PermitsConserved

(* A cycle has finitely many requests. *)
LEMMA RequestsFinite == IsFiniteSet(Requests)
  BY CountAssumption, FS_Interval DEF Requests

(* Any set of requests is finite. *)
LEMMA SubsetFinite ==
  ASSUME NEW S, S \subseteq Requests
  PROVE  IsFiniteSet(S) /\ Cardinality(S) \in Nat
  BY RequestsFinite, FS_Subset, FS_CardinalityType

(* Adding n new holders adds their number. *)
LEMMA DisjointCardinality ==
  ASSUME NEW S, NEW T, S \subseteq Requests, T \subseteq Requests, S \cap T = {}
  PROVE  Cardinality(S \cup T) = Cardinality(S) + Cardinality(T)
  <1>1. IsFiniteSet(S) /\ IsFiniteSet(T)
    BY SubsetFinite
  <1>2. /\ Cardinality(S \cup T) = Cardinality(S) + Cardinality(T) - Cardinality(S \cap T)
        /\ Cardinality(S \cap T) = 0
    BY <1>1, FS_Union, FS_EmptySet
  <1> QED BY <1>1, <1>2, FS_CardinalityType

(* A task that moves between two places that both hold, or both do not hold, a permit. *)
LEMMA GotoKeepsHolders ==
  ASSUME TypeOK, NEW r \in Requests, NEW place, Goto(r, place),
         pc[r] \in Holding <=> place \in Holding
  PROVE  Holders' = Holders
  BY DEF TypeOK, Goto, Holders

(* A task that takes a permit for itself. *)
LEMMA GotoTakes ==
  ASSUME TypeOK, NEW r \in Requests, NEW place, Goto(r, place),
         pc[r] \notin Holding, place \in Holding
  PROVE  Cardinality(Holders') = Cardinality(Holders) + 1
  <1>1. Holders' = Holders \cup {r} /\ r \notin Holders
    BY DEF TypeOK, Goto, Holders
  <1>2. IsFiniteSet(Holders)
    BY SubsetFinite DEF Holders
  <1> QED BY <1>1, <1>2, FS_AddElement

(* A task that moves and wakes the waiters of W, who hold a permit from then on. *)
LEMMA MoveHolders ==
  ASSUME TypeOK, NEW r \in Requests, NEW place, NEW W, W \subseteq LiveWaiters,
         r \notin W, Move(r, place, W)
  PROVE  /\ place \in Holding /\ pc[r] \in Holding =>
               Cardinality(Holders') = Cardinality(Holders) + Cardinality(W)
         /\ place \notin Holding /\ pc[r] \in Holding =>
               Cardinality(Holders') = Cardinality(Holders) - 1 + Cardinality(W)
         /\ place \notin Holding /\ pc[r] \notin Holding =>
               Cardinality(Holders') = Cardinality(Holders) + Cardinality(W)
  <1>1. /\ Holders \subseteq Requests /\ W \subseteq Requests
        /\ Holders \cap W = {} /\ (Holders \ {r}) \cap W = {}
        /\ Holders \ {r} \subseteq Requests
    BY DEF Holders, LiveWaiters, Holding
  <1>2. ASSUME place \in Holding, pc[r] \in Holding
        PROVE  Holders' = Holders \cup W
    BY <1>2 DEF Move, Holders, LiveWaiters, Holding, TypeOK
  <1>3. ASSUME place \notin Holding
        PROVE  Holders' = (Holders \ {r}) \cup W
    BY <1>3 DEF Move, Holders, LiveWaiters, Holding, TypeOK
  <1>4. /\ IsFiniteSet(Holders) /\ Cardinality(Holders) \in Nat /\ Cardinality(W) \in Nat
    BY <1>1, SubsetFinite
  <1>5. Cardinality(Holders \ {r}) = IF pc[r] \in Holding THEN Cardinality(Holders) - 1
                                                          ELSE Cardinality(Holders)
    BY <1>4, FS_RemoveElement DEF Holders
  <1> QED BY <1>1, <1>2, <1>3, <1>5, DisjointCardinality

(* Waking at most n waiters leaves the value non-negative. *)
LEMMA WokenBound ==
  ASSUME NEW W, NEW n \in Nat, FirstWaiters(W, n)
  PROVE  /\ W \subseteq LiveWaiters /\ Cardinality(W) \in Nat
         /\ n - Cardinality(W) \in Nat
         /\ \A r \in Requests : pc[r] # "queued" => r \notin W
         /\ \A r \in Requests : cancelReq[r] => r \notin W
  <1>1. W \subseteq LiveWaiters /\ Cardinality(W) <= n
    BY DEF FirstWaiters
  <1>2. Cardinality(W) \in Nat
    BY <1>1, SubsetFinite DEF LiveWaiters
  <1> QED BY <1>1, <1>2 DEF LiveWaiters

(* A cycle starts with every permit free and no task past its start. *)
LEMMA SemaphoreInit == Init => SemaphoreInv
  <1> SUFFICES ASSUME Init PROVE SemaphoreInv
    OBVIOUS
  <1> USE CountAssumption
  <1>1. TypeOK
    <2>1. <<>> \in Seq(Categories)
      OBVIOUS
    <2>2. errors \in [Requests -> Seq(Categories)]
      BY <2>1 DEF Init
    <2>3. cancelReq \in [Requests -> BOOLEAN] /\ stop \in BOOLEAN /\ asked \in BOOLEAN
      BY DEF Init
    <2>4. request \in [Requests -> [collector : Collectors, target : Targets]]
      BY DEF Init
    <2> QED BY <2>2, <2>3, <2>4
             DEF Init, TypeOK, Final, Terminal, Holding, Ended, Dead
  <1>2. TaskInv
    BY DEF Init, TaskInv
  <1>3. Holders = {}
    BY DEF Init, Holders, Holding
  <1> QED BY <1>1, <1>2, <1>3, FS_EmptySet DEF SemaphoreInv, PermitsConserved, Init

(* The coordinator's own steps leave tasks and semaphore alone. *)
LEMMA SemaphoreRunStep ==
  ASSUME SemaphoreInv,
         RunStep \/ RequestStop \/ CancelRun \/ Kill \/ RecoverInterruptedRuns
  PROVE  SemaphoreInv'
  <1>1. UNCHANGED <<request, pc, attempts, left, verdict, permits>>
    BY DEF RunStep, Approve, PropagateStop, Gathered, Unwound, ShutdownLoop, CloseLoop,
           RequestStop, CancelRun, Kill, RecoverInterruptedRuns, task
  <1>2. cancelReq' \in [Requests -> BOOLEAN]
    BY DEF RunStep, Approve, PropagateStop, Gathered, Unwound, ShutdownLoop, CloseLoop,
           RequestStop, CancelRun, Kill, RecoverInterruptedRuns, CancelTasks,
           SemaphoreInv, TypeOK
  <1>3. stop' \in BOOLEAN /\ asked' \in BOOLEAN
    BY DEF RunStep, Approve, PropagateStop, Gathered, Unwound, ShutdownLoop, CloseLoop,
           RequestStop, CancelRun, Kill, RecoverInterruptedRuns, SemaphoreInv, TypeOK
  <1>4. coord' \in Ended \cup Dead
                   \cup {"approving", "waiting", "gathering", "unwinding", "raised", "closing"}
    BY DEF RunStep, Approve, PropagateStop, Gathered, Unwound, ShutdownLoop, CloseLoop,
           RequestStop, CancelRun, Kill, RecoverInterruptedRuns, SemaphoreInv, TypeOK,
           Ended, Dead
  <1>5. /\ row' \in [Requests -> Final \cup {"absent", "running"}]
        /\ errors' \in [Requests -> Seq(Categories)]
    <2>1. CASE RecoverInterruptedRuns
      <3>1. "interrupted" \in Categories /\ "failed" \in Final
        BY DEF Categories, Final
      <3>2. \A r \in Requests : Append(errors[r], "interrupted") \in Seq(Categories)
        BY <3>1 DEF SemaphoreInv, TypeOK
      <3> QED BY <2>1, <3>1, <3>2 DEF RecoverInterruptedRuns, SemaphoreInv, TypeOK
    <2>2. CASE ~RecoverInterruptedRuns
      <3>1. UNCHANGED <<row, errors>>
        BY <2>2 DEF RunStep, Approve, PropagateStop, Gathered, Unwound, ShutdownLoop,
               CloseLoop, RequestStop, CancelRun, Kill, ledger
      <3> QED BY <3>1 DEF SemaphoreInv, TypeOK
    <2> QED BY <2>1, <2>2
  <1>6. TypeOK'
    BY <1>1, <1>2, <1>3, <1>4, <1>5 DEF SemaphoreInv, TypeOK
  <1> QED BY <1>1, <1>6 DEF SemaphoreInv, TaskInv, PermitsConserved, Holders

(* A repository write of an issue, with what may follow it. *)
LEMMA RecordIssueType ==
  ASSUME TypeOK, NEW r \in Requests, NEW c \in Categories, NEW place, RecordIssue(r, c, place)
  PROVE  /\ errors' \in [Requests -> Seq(Categories)]
         /\ verdict' \in [Requests -> Final \cup {"raised"}]
         /\ \A q \in Requests : q # r => verdict'[q] = verdict[q]
         /\ Goto(r, place) \/ Goto(r, "leaving")
  <1>1. errors \in [Requests -> Seq(Categories)] /\ Append(errors[r], c) \in Seq(Categories)
    BY DEF TypeOK
  <1>2. errors' \in [Requests -> Seq(Categories)]
    BY <1>1 DEF RecordIssue
  <1>3. /\ verdict' \in [Requests -> Final \cup {"raised"}]
        /\ \A q \in Requests : q # r => verdict'[q] = verdict[q]
    BY DEF TypeOK, RecordIssue
  <1> QED BY <1>2, <1>3 DEF RecordIssue

(* One step of a task keeps the semaphore's invariant. *)
LEMMA SemaphoreTaskStep ==
  ASSUME SemaphoreInv, NEW r \in Requests, TaskStep(r)
  PROVE  SemaphoreInv'
  <1> USE CountAssumption
  <1>0. TypeOK /\ TaskInv /\ PermitsConserved /\ permits \in Nat
    BY DEF SemaphoreInv, TypeOK
  <1>h. Cardinality(Holders) \in Nat /\ IsFiniteSet(Holders)
    BY SubsetFinite DEF Holders
  <1>k. pc[r] \in Holding => Cardinality(Holders) >= 1
    BY <1>h, FS_EmptySet DEF Holders
  <1>1. CASE StartTask(r)
    <2>1. Goto(r, "started") \/ Goto(r, "raised")
      BY <1>1 DEF StartTask
    <2>2. Holders' = Holders
      BY <1>0, <1>1, <2>1, GotoKeepsHolders DEF StartTask, Holding
    <2>3. TypeOK'
      BY <1>0, <1>1 DEF StartTask, Goto, TypeOK, Terminal, Final
    <2>4. TaskInv'
      BY <1>0, <1>1 DEF StartTask, Goto, TypeOK, TaskInv
    <2> QED BY <1>0, <1>1, <2>2, <2>3, <2>4 DEF SemaphoreInv, PermitsConserved, StartTask
  <1>2. CASE Acquire(r)
    <2>1. CASE ~Locked /\ Goto(r, "looping") /\ permits' = permits - 1
      <3>1. permits > 0
        BY <1>0, <2>1 DEF Locked
      <3>2. Cardinality(Holders') = Cardinality(Holders) + 1
        BY <1>0, <1>2, <2>1, GotoTakes DEF Acquire, Holding
      <3>3. TypeOK'
        BY <1>0, <1>2, <2>1, <3>1 DEF Acquire, Goto, TypeOK, Holding, ledger
      <3>4. TaskInv'
        BY <1>0, <1>2, <2>1 DEF Acquire, Goto, TypeOK, TaskInv
      <3> QED BY <1>0, <1>h, <2>1, <3>2, <3>3, <3>4 DEF SemaphoreInv, PermitsConserved
    <2>2. CASE Goto(r, "queued") /\ UNCHANGED permits
      <3>1. Holders' = Holders
        BY <1>0, <1>2, <2>2, GotoKeepsHolders DEF Acquire, Holding
      <3>2. TypeOK'
        BY <1>0, <1>2, <2>2 DEF Acquire, Goto, TypeOK, ledger
      <3>3. TaskInv'
        BY <1>0, <1>2, <2>2 DEF Acquire, Goto, TypeOK, TaskInv
      <3> QED BY <1>0, <2>2, <3>1, <3>2, <3>3 DEF SemaphoreInv, PermitsConserved
    <2> QED BY <1>2, <2>1, <2>2 DEF Acquire
  <1>3. CASE Acquired(r)
    <2>1. PICK W \in SUBSET LiveWaiters : /\ FirstWaiters(W, permits)
                                         /\ Move(r, "looping", W)
                                         /\ permits' = permits - Cardinality(W)
      BY <1>3 DEF Acquired
    <2>2. /\ W \subseteq LiveWaiters /\ Cardinality(W) \in Nat
          /\ permits - Cardinality(W) \in Nat /\ r \notin W
      BY <1>0, <1>3, <2>1, WokenBound DEF Acquired
    <2>3. Cardinality(Holders') = Cardinality(Holders) + Cardinality(W)
      BY <1>0, <1>3, <2>1, <2>2, MoveHolders DEF Acquired, Holding
    <2>4. TypeOK'
      BY <1>0, <1>3, <2>1, <2>2 DEF Acquired, Move, TypeOK, Holding, ledger
    <2>5. TaskInv'
      BY <1>0, <1>3, <2>1, <2>2 DEF Acquired, Move, TypeOK, TaskInv, LiveWaiters
    <2> QED BY <1>0, <1>h, <2>1, <2>2, <2>3, <2>4, <2>5 DEF SemaphoreInv, PermitsConserved
  <1>4. CASE AbortAcquire(r)
    <2> DEFINE value == IF pc[r] = "granted" THEN permits + 1 ELSE permits
    <2>1. PICK W \in SUBSET LiveWaiters : /\ FirstWaiters(W, value)
                                         /\ Move(r, "finishing", W)
                                         /\ permits' = value - Cardinality(W)
      BY <1>4 DEF AbortAcquire
    <2>2. /\ W \subseteq LiveWaiters /\ Cardinality(W) \in Nat
          /\ value - Cardinality(W) \in Nat /\ r \notin W
      BY <1>0, <1>4, <2>1, WokenBound DEF AbortAcquire
    <2>3. value - Cardinality(W) + Cardinality(Holders') = Concurrency
      <3>1. CASE pc[r] = "granted"
        BY <1>0, <1>h, <2>1, <2>2, <3>1, MoveHolders DEF Holding, PermitsConserved
      <3>2. CASE pc[r] = "queued"
        BY <1>0, <1>h, <2>1, <2>2, <3>2, MoveHolders DEF Holding, PermitsConserved
      <3> QED BY <1>4, <3>1, <3>2 DEF AbortAcquire
    <2>4. Holders' \subseteq Requests
      BY DEF Holders, Requests
    <2>5. Cardinality(Holders') \in Nat
      BY <2>4, SubsetFinite
    <2>6. permits' \in 0 .. Concurrency
      BY <2>1, <2>2, <2>3, <2>5
    <2>7. TypeOK'
      BY <1>0, <1>4, <2>1, <2>2, <2>6
         DEF AbortAcquire, Move, TypeOK, Holding, Final, ledger
    <2>8. TaskInv'
      BY <1>0, <1>4, <2>1, <2>2 DEF AbortAcquire, Move, TypeOK, TaskInv, LiveWaiters, Final
    <2> QED BY <2>1, <2>3, <2>7, <2>8 DEF SemaphoreInv, PermitsConserved
  <1>5. CASE BeginAttempt(r)
    <2>1. Holders' = Holders
      BY <1>0, <1>5, GotoKeepsHolders DEF BeginAttempt, Holding
    <2>2. attempts' \in [Requests -> 0 .. Retries + 1]
      BY <1>0, <1>5 DEF BeginAttempt, TypeOK, TaskInv
    <2>3. TypeOK'
      BY <1>0, <1>5, <2>2 DEF BeginAttempt, Goto, TypeOK, Holding, ledger
    <2>4. TaskInv'
      BY <1>0, <1>5 DEF BeginAttempt, Goto, TypeOK, TaskInv
    <2> QED BY <1>0, <1>5, <2>1, <2>3, <2>4 DEF SemaphoreInv, PermitsConserved, BeginAttempt
  <1>6. CASE AbortAttempt(r)
    <2>1. Holders' = Holders
      BY <1>0, <1>6, GotoKeepsHolders DEF AbortAttempt, Holding
    <2>2. TypeOK'
      BY <1>0, <1>6 DEF AbortAttempt, Goto, TypeOK, Holding, Final, ledger
    <2>3. TaskInv'
      BY <1>0, <1>6 DEF AbortAttempt, Goto, TypeOK, TaskInv
    <2> QED BY <1>0, <1>6, <2>1, <2>2, <2>3 DEF SemaphoreInv, PermitsConserved, AbortAttempt
  <1>7. CASE FailRetryable(r)
    <2>1. PICK c \in Retryable :
             RecordIssue(r, c, IF attempts[r] <= Retries THEN "looping" ELSE "leaving")
      BY <1>7 DEF FailRetryable
    <2>2. c \in Categories
      BY <2>1 DEF Categories
    <2>3. /\ errors' \in [Requests -> Seq(Categories)]
          /\ verdict' \in [Requests -> Final \cup {"raised"}]
          /\ \A q \in Requests : q # r => verdict'[q] = verdict[q]
          /\ (attempts[r] <= Retries /\ Goto(r, "looping")) \/ Goto(r, "leaving")
      BY <1>0, <2>1, <2>2, RecordIssueType
    <2>4. Holders' = Holders
      BY <1>0, <1>7, <2>3, GotoKeepsHolders DEF FailRetryable, Holding
    <2>5. TypeOK'
      BY <1>0, <1>7, <2>3 DEF FailRetryable, Goto, TypeOK, Holding
    <2>6. TaskInv'
      BY <1>0, <1>7, <2>3 DEF FailRetryable, Goto, TypeOK, TaskInv
    <2> QED BY <1>0, <1>7, <2>4, <2>5, <2>6 DEF SemaphoreInv, PermitsConserved, FailRetryable
  <1>8. CASE FailPermanent(r)
    <2>1. PICK c \in Permanent : RecordIssue(r, c, "leaving")
      BY <1>8 DEF FailPermanent
    <2>2. c \in Categories
      BY <2>1 DEF Categories
    <2>3. /\ errors' \in [Requests -> Seq(Categories)]
          /\ verdict' \in [Requests -> Final \cup {"raised"}]
          /\ \A q \in Requests : q # r => verdict'[q] = verdict[q]
          /\ Goto(r, "leaving")
      BY <1>0, <2>1, <2>2, RecordIssueType
    <2>4. Holders' = Holders
      BY <1>0, <1>8, <2>3, GotoKeepsHolders DEF FailPermanent, Holding
    <2>5. TypeOK'
      BY <1>0, <1>8, <2>3 DEF FailPermanent, Goto, TypeOK, Holding
    <2>6. TaskInv'
      BY <1>0, <1>8, <2>3 DEF FailPermanent, Goto, TypeOK, TaskInv
    <2> QED BY <1>0, <1>8, <2>4, <2>5, <2>6 DEF SemaphoreInv, PermitsConserved, FailPermanent
  <1>9. CASE ReturnResult(r)
    <2>1. PICK n \in 0 .. MaxIssues :
             /\ left' = [left EXCEPT ![r] = n]
             /\ verdict' = [verdict EXCEPT ![r] = IF n = 0 THEN "succeeded" ELSE "partial"]
             /\ Goto(r, IF n = 0 THEN "leaving" ELSE "reporting")
      BY <1>9 DEF ReturnResult
    <2>2. Holders' = Holders
      BY <1>0, <1>9, <2>1, GotoKeepsHolders DEF ReturnResult, Holding
    <2>3. TypeOK'
      BY <1>0, <1>9, <2>1 DEF ReturnResult, Goto, TypeOK, Holding, Final, ledger
    <2>4. TaskInv'
      BY <1>0, <1>9, <2>1 DEF ReturnResult, Goto, TypeOK, TaskInv
    <2> QED BY <1>0, <1>9, <2>2, <2>3, <2>4 DEF SemaphoreInv, PermitsConserved, ReturnResult
  <1>10. CASE ReportIssue(r)
    <2>1. "issue" \in Categories
      BY DEF Categories
    <2>2. /\ errors' \in [Requests -> Seq(Categories)]
          /\ verdict' \in [Requests -> Final \cup {"raised"}]
          /\ \A q \in Requests : q # r => verdict'[q] = verdict[q]
          /\ (left[r] # 1 /\ Goto(r, "reporting")) \/ Goto(r, "leaving")
      BY <1>0, <1>10, <2>1, RecordIssueType DEF ReportIssue
    <2>3. Holders' = Holders
      BY <1>0, <1>10, <2>2, GotoKeepsHolders DEF ReportIssue, Holding
    <2>4. left' \in [Requests -> 0 .. MaxIssues]
      BY <1>0, <1>10 DEF ReportIssue, TypeOK, TaskInv
    <2>5. TypeOK'
      BY <1>0, <1>10, <2>2, <2>4 DEF ReportIssue, Goto, TypeOK, Holding
    <2>6. TaskInv'
      BY <1>0, <1>10, <2>2 DEF ReportIssue, Goto, TypeOK, TaskInv
    <2> QED BY <1>0, <1>10, <2>3, <2>5, <2>6 DEF SemaphoreInv, PermitsConserved, ReportIssue
  <1>11. CASE Release(r)
    <2> DEFINE place == IF verdict[r] = "raised" THEN "raised" ELSE "finishing"
    <2>1. PICK W \in SUBSET LiveWaiters : /\ FirstWaiters(W, 1)
                                         /\ Move(r, place, W)
                                         /\ permits' = permits + 1 - Cardinality(W)
      BY <1>11 DEF Release
    <2>2. /\ W \subseteq LiveWaiters /\ Cardinality(W) \in Nat
          /\ 1 - Cardinality(W) \in Nat /\ r \notin W
      BY <1>0, <1>11, <2>1, WokenBound DEF Release
    <2>3. Cardinality(Holders') = Cardinality(Holders) - 1 + Cardinality(W)
      BY <1>0, <1>11, <2>1, <2>2, MoveHolders DEF Release, Holding
    <2>4. permits' \in 0 .. Concurrency
      BY <1>0, <1>h, <1>k, <1>11, <2>1, <2>2 DEF Release, Holding, PermitsConserved
    <2>5. TypeOK'
      BY <1>0, <1>11, <2>1, <2>2, <2>4 DEF Release, Move, TypeOK, Holding, Terminal, ledger
    <2>6. TaskInv'
      BY <1>0, <1>11, <2>1, <2>2 DEF Release, Move, TypeOK, TaskInv, LiveWaiters, Final
    <2> QED BY <1>0, <1>h, <2>1, <2>2, <2>3, <2>5, <2>6 DEF SemaphoreInv, PermitsConserved
  <1>12. CASE FinishTask(r)
    <2>1. Goto(r, "done") \/ Goto(r, "raised")
      BY <1>12 DEF FinishTask
    <2>2. Holders' = Holders
      BY <1>0, <1>12, <2>1, GotoKeepsHolders DEF FinishTask, Holding
    <2>3. TypeOK'
      BY <1>0, <1>12 DEF FinishTask, Goto, TypeOK, TaskInv, Terminal, Final
    <2>4. TaskInv'
      BY <1>0, <1>12 DEF FinishTask, Goto, TypeOK, TaskInv
    <2> QED BY <1>0, <1>12, <2>2, <2>3, <2>4 DEF SemaphoreInv, PermitsConserved, FinishTask
  <1> QED BY <1>1, <1>2, <1>3, <1>4, <1>5, <1>6, <1>7, <1>8, <1>9, <1>10, <1>11, <1>12
          DEF TaskStep

(* The semaphore invariant holds throughout a cycle. *)
LEMMA SemaphoreInvariant == Spec => []SemaphoreInv
  <1>1. SemaphoreInv /\ [Next]_vars => SemaphoreInv'
    <2> SUFFICES ASSUME SemaphoreInv, [Next]_vars PROVE SemaphoreInv'
      OBVIOUS
    <2>1. CASE UNCHANGED vars
      BY <2>1 DEF vars, SemaphoreInv, TypeOK, TaskInv, PermitsConserved, Holders
    <2> QED BY <2>1, SemaphoreTaskStep, SemaphoreRunStep DEF Next
  <1> QED BY <1>1, SemaphoreInit, PTL DEF Spec

(* Every variable keeps its type in every cycle: a task never begins more than
   Retries + 1 attempts and the semaphore's value stays within 0 .. Concurrency. *)
THEOREM TypeCorrect == Spec => []TypeOK
  BY SemaphoreInvariant, PTL DEF SemaphoreInv

(* No permit is lost or invented on any path through acquire, cancellation of a granted
   waiter, or "async with semaphore", for every number of requests and permits. *)
THEOREM PermitsAreConserved == Spec => []PermitsConserved
  BY SemaphoreInvariant, PTL DEF SemaphoreInv

-----------------------------------------------------------------------------
(* Waking by the value leaves no waiter behind a free permit. *)
LEMMA WokenAllOrSpent ==
  ASSUME NEW W, NEW n \in Nat, FirstWaiters(W, n)
  PROVE  n - Cardinality(W) = 0 \/ W = LiveWaiters
  BY WokenBound DEF FirstWaiters

(* Waking once wakes somebody if anybody waits. *)
LEMMA WokenSomebody ==
  ASSUME NEW W, FirstWaiters(W, 1), LiveWaiters # {}
  PROVE  W # {} /\ W \subseteq LiveWaiters
  BY FS_EmptySet DEF FirstWaiters

(* A step keeps NoLostPermit, given the types. *)
LEMMA NoLostPermitStep ==
  ASSUME SemaphoreInv, NoLostPermit, [Next]_vars
  PROVE  NoLostPermit'
  <1>0. TypeOK /\ permits \in Nat
    BY DEF SemaphoreInv, TypeOK
  <1> DEFINE Quiet == /\ permits' = permits
                      /\ LiveWaiters' \subseteq LiveWaiters
                      /\ \A q \in Requests : pc[q] = "granted" => pc'[q] = "granted"
  <1>q. ASSUME Quiet PROVE NoLostPermit'
    BY <1>q DEF NoLostPermit, LiveWaiters
  <1>1. ASSUME NEW r \in Requests, TaskStep(r) PROVE NoLostPermit'
    <2>1. CASE \/ StartTask(r) \/ BeginAttempt(r) \/ FinishTask(r)
      <3>1. /\ permits' = permits /\ cancelReq' = cancelReq
            /\ pc[r] \notin {"queued", "granted"}
            /\ \E place : Goto(r, place) /\ place \notin {"queued", "granted"}
        BY <2>1 DEF StartTask, BeginAttempt, FinishTask
      <3>2. Quiet
        BY <1>0, <3>1 DEF Goto, LiveWaiters, TypeOK
      <3> QED BY <3>2, <1>q
    <2>2. CASE \/ AbortAttempt(r) \/ FailRetryable(r) \/ FailPermanent(r) \/ ReturnResult(r)
               \/ ReportIssue(r)
      <3>1. /\ permits' = permits
            /\ \A q \in Requests : q # r => cancelReq'[q] = cancelReq[q]
            /\ pc[r] \notin {"queued", "granted"}
        BY <1>0, <2>2 DEF AbortAttempt, FailRetryable, FailPermanent, ReturnResult,
                          ReportIssue, TypeOK
      <3>2. \E place : Goto(r, place) /\ place \notin {"queued", "granted"}
        BY <2>2 DEF AbortAttempt, FailRetryable, FailPermanent, ReturnResult, ReportIssue,
                    RecordIssue
      <3>3. Quiet
        BY <1>0, <3>1, <3>2 DEF Goto, LiveWaiters, TypeOK
      <3> QED BY <3>3, <1>q
    <2>3. CASE Acquire(r)
      <3>1. CASE ~Locked /\ Goto(r, "looping")
        <4>1. LiveWaiters' = {}
          BY <1>0, <2>3, <3>1 DEF Acquire, Locked, LiveWaiters, Goto, TypeOK
        <4> QED BY <4>1 DEF NoLostPermit
      <3>2. CASE Locked /\ Goto(r, "queued") /\ permits' = permits
        <4>1. permits > 0 => \E q \in Requests : pc[q] = "granted"
          BY <1>0, <3>2 DEF Locked, NoLostPermit
        <4>2. \A q \in Requests : pc[q] = "granted" => pc'[q] = "granted"
          BY <1>0, <2>3, <3>2 DEF Acquire, Goto, TypeOK
        <4> QED BY <3>2, <4>1, <4>2 DEF NoLostPermit
      <3> QED BY <2>3, <3>1, <3>2 DEF Acquire
    <2>4. CASE Acquired(r)
      <3>1. PICK W \in SUBSET LiveWaiters : /\ FirstWaiters(W, permits)
                                           /\ Move(r, "looping", W)
                                           /\ permits' = permits - Cardinality(W)
        BY <2>4 DEF Acquired
      <3>2. permits' = 0 \/ W = LiveWaiters
        BY <1>0, <3>1, WokenAllOrSpent
      <3>3. W = LiveWaiters => LiveWaiters' = {}
        BY <1>0, <2>4, <3>1 DEF Acquired, Move, LiveWaiters, TypeOK
      <3> QED BY <3>2, <3>3 DEF NoLostPermit
    <2>5. CASE AbortAcquire(r)
      <3> DEFINE value == IF pc[r] = "granted" THEN permits + 1 ELSE permits
      <3>1. PICK W \in SUBSET LiveWaiters : /\ FirstWaiters(W, value)
                                           /\ Move(r, "finishing", W)
                                           /\ permits' = value - Cardinality(W)
        BY <2>5 DEF AbortAcquire
      <3>2. value \in Nat
        BY <1>0
      <3>3. permits' = 0 \/ W = LiveWaiters
        BY <3>1, <3>2, WokenAllOrSpent
      <3>4. W = LiveWaiters => LiveWaiters' = {}
        BY <1>0, <2>5, <3>1 DEF AbortAcquire, Move, LiveWaiters, TypeOK
      <3> QED BY <3>3, <3>4 DEF NoLostPermit
    <2>6. CASE Release(r)
      <3> DEFINE place == IF verdict[r] = "raised" THEN "raised" ELSE "finishing"
      <3>1. PICK W \in SUBSET LiveWaiters : /\ FirstWaiters(W, 1)
                                           /\ Move(r, place, W)
        BY <2>6 DEF Release
      <3>2. LiveWaiters' \subseteq LiveWaiters
        BY <1>0, <2>6, <3>1 DEF Release, Move, LiveWaiters, TypeOK
      <3>3. ASSUME LiveWaiters # {} PROVE \E q \in Requests : pc'[q] = "granted"
        <4>1. PICK w \in W : w \in LiveWaiters
          BY <3>1, <3>3, WokenSomebody
        <4>2. w \in Requests /\ w # r
          BY <2>6, <4>1 DEF LiveWaiters, Release
        <4> QED BY <3>1, <4>1, <4>2 DEF Move
      <3> QED BY <3>2, <3>3 DEF NoLostPermit
    <2> QED BY <1>1, <2>1, <2>2, <2>3, <2>4, <2>5, <2>6 DEF TaskStep
  <1>2. CASE RunStep \/ RequestStop \/ CancelRun \/ Kill \/ RecoverInterruptedRuns
    <2>1. UNCHANGED <<pc, permits>>
      BY <1>2 DEF RunStep, Approve, PropagateStop, Gathered, Unwound, ShutdownLoop, CloseLoop,
             RequestStop, CancelRun, Kill, RecoverInterruptedRuns, task
    <2>2. \A q \in Requests : cancelReq[q] => cancelReq'[q]
      BY <1>0, <1>2 DEF RunStep, Approve, PropagateStop, Gathered, Unwound, ShutdownLoop,
             CloseLoop, RequestStop, CancelRun, Kill, RecoverInterruptedRuns, CancelTasks, TypeOK
    <2> QED BY <1>q, <2>1, <2>2 DEF LiveWaiters
  <1>3. CASE UNCHANGED vars
    BY <1>3 DEF vars, NoLostPermit, LiveWaiters
  <1> QED BY <1>1, <1>2, <1>3 DEF Next

(* No request waits behind an idle permit, whatever is cancelled in the queue. *)
THEOREM PermitsNeverIdle == Spec => []NoLostPermit
  <1>1. Init => NoLostPermit
    BY DEF Init, NoLostPermit, LiveWaiters
  <1>2. SemaphoreInv /\ NoLostPermit /\ [Next]_vars => NoLostPermit'
    BY NoLostPermitStep
  <1> QED BY <1>1, <1>2, SemaphoreInvariant, PTL DEF Spec

(* The semaphore serves every request: permits are conserved and none lies idle before a
   waiter nobody will wake. *)
THEOREM PermitsAreSafe == Spec => []PermitsSafe
  BY PermitsAreConserved, PermitsNeverIdle, PTL DEF PermitsSafe
-----------------------------------------------------------------------------
(* How a task's row follows its place in _run_one, and what run() knows of the tasks. *)
RowInv ==
    \A r \in Requests :
        /\ pc[r] = "new" => row[r] = "absent"
        /\ coord # "recovered" /\ pc[r] \notin {"new", "done", "raised"} => row[r] = "running"
        /\ pc[r] = "done" => row[r] \in Final

CoordInv ==
    /\ coord \in {"approving", "refused"} => \A r \in Requests : pc[r] = "new"
    /\ coord \in {"returned", "cancelled", "closed"} => AllTerminal
    /\ (coord = "waiting" \/ \E r \in Requests : pc[r] # "new") =>
          \A q \in Requests : Accepted(request[q])

(* A task may move on, and its row with it, only while run() waits for tasks. *)
LEMMA RowTaskStep ==
  ASSUME SemaphoreInv, RowInv, CoordInv, NEW r \in Requests, TaskStep(r)
  PROVE  RowInv' /\ CoordInv'
  <1>0. TypeOK /\ TaskInv
    BY DEF SemaphoreInv
  <1>1. /\ coord' = coord /\ request' = request /\ coord \notin Dead
        /\ pc[r] \notin Terminal
        /\ pc[r] = "new" => coord = "waiting"
    BY DEF TaskStep, StartTask, Acquire, Acquired, AbortAcquire, BeginAttempt, AbortAttempt,
           FailRetryable, FailPermanent, ReturnResult, ReportIssue, Release, FinishTask,
           Alive, Terminal, Dead
  <1>2. CoordInv'
    <2>1. coord \notin {"approving", "refused", "returned", "cancelled", "closed"}
      BY <1>1 DEF CoordInv, AllTerminal
    <2>2. \A q \in Requests : Accepted(request[q])
      BY <1>1 DEF CoordInv
    <2> QED BY <1>1, <2>1, <2>2 DEF CoordInv, Accepted, ApproveTarget
  <1>3. RowInv'
    <2>1. CASE StartTask(r)
      <3>1. /\ \A q \in Requests : q # r => pc'[q] = pc[q] /\ row'[q] = row[q]
            /\ \/ pc'[r] = "started" /\ row'[r] = "running"
               \/ pc'[r] = "raised" /\ row'[r] = row[r]
        BY <1>0, <2>1 DEF StartTask, Goto, TypeOK
      <3> QED BY <1>1, <3>1 DEF RowInv
    <2>2. CASE FinishTask(r)
      BY <1>0, <1>1, <2>2 DEF FinishTask, Goto, RowInv, TypeOK, TaskInv, Final
    <2>3. CASE ~StartTask(r) /\ ~FinishTask(r)
      <3>1. row' = row
        BY <2>3 DEF TaskStep, Acquire, Acquired, AbortAcquire, BeginAttempt, AbortAttempt,
               FailRetryable, FailPermanent, ReturnResult, ReportIssue, Release, ledger
      <3>2. CASE Acquired(r) \/ AbortAcquire(r) \/ Release(r)
        <4>1. PICK place, W : /\ W \subseteq LiveWaiters /\ Move(r, place, W)
                              /\ place \in {"looping", "finishing", "raised"}
          BY <3>2 DEF Acquired, AbortAcquire, Release
        <4>2. pc[r] \notin {"new", "done", "raised"}
          BY <3>2 DEF Acquired, AbortAcquire, Release
        <4> QED BY <1>0, <1>1, <3>1, <4>1, <4>2 DEF Move, RowInv, LiveWaiters, TypeOK
      <3>3. CASE ~(Acquired(r) \/ AbortAcquire(r) \/ Release(r))
        <4>1. PICK place \in {"looping", "queued", "collecting", "leaving", "reporting"} :
                 Goto(r, place)
          BY <2>3, <3>3 DEF TaskStep, Acquire, BeginAttempt, AbortAttempt, FailRetryable,
                 FailPermanent, ReturnResult, ReportIssue, RecordIssue
        <4>2. pc[r] \notin {"new", "done", "raised"}
          BY <2>3, <3>3 DEF TaskStep, Acquire, BeginAttempt, AbortAttempt, FailRetryable,
                 FailPermanent, ReturnResult, ReportIssue
        <4> QED BY <1>0, <1>1, <3>1, <4>1, <4>2 DEF Goto, RowInv, TypeOK
      <3> QED BY <3>2, <3>3
    <2> QED BY <2>1, <2>2, <2>3
  <1> QED BY <1>2, <1>3

(* The steps of run(), a kill and recovery keep rows and tasks in agreement. *)
LEMMA RowRunStep ==
  ASSUME SemaphoreInv, RowInv, CoordInv,
         RunStep \/ RequestStop \/ CancelRun \/ Kill \/ RecoverInterruptedRuns
  PROVE  RowInv' /\ CoordInv'
  <1>0. TypeOK
    BY DEF SemaphoreInv
  <1>1. UNCHANGED <<request, pc>>
    BY DEF RunStep, Approve, PropagateStop, Gathered, Unwound, ShutdownLoop, CloseLoop,
           RequestStop, CancelRun, Kill, RecoverInterruptedRuns, task
  <1>2. CASE RecoverInterruptedRuns
    BY <1>0, <1>1, <1>2 DEF RecoverInterruptedRuns, RowInv, CoordInv, TypeOK, Final
  <1>3. CASE RunStep \/ RequestStop \/ CancelRun \/ Kill
    <2>1. row' = row /\ coord' # "recovered" /\ coord # "recovered"
      BY <1>3 DEF RunStep, Approve, PropagateStop, Gathered, Unwound, ShutdownLoop, CloseLoop,
             RequestStop, CancelRun, Kill, ledger, Dead
    <2>2. RowInv'
      BY <1>1, <2>1 DEF RowInv
    <2>3. CoordInv'
      BY <1>1, <1>3 DEF RunStep, Approve, PropagateStop, Gathered, Unwound, ShutdownLoop,
             CloseLoop, RequestStop, CancelRun, Kill, CoordInv, AllTerminal, Accepted,
             ApproveTarget
    <2> QED BY <2>2, <2>3
  <1> QED BY <1>2, <1>3

(* Rows, tasks and run() agree throughout a cycle. *)
LEMMA RowInvariant == Spec => [](SemaphoreInv /\ RowInv /\ CoordInv)
  <1>1. Init => RowInv /\ CoordInv
    BY DEF Init, RowInv, CoordInv
  <1>2. SemaphoreInv /\ RowInv /\ CoordInv /\ [Next]_vars => RowInv' /\ CoordInv'
    <2> SUFFICES ASSUME SemaphoreInv, RowInv, CoordInv, [Next]_vars
                 PROVE  RowInv' /\ CoordInv'
      OBVIOUS
    <2>1. CASE UNCHANGED vars
      BY <2>1 DEF vars, RowInv, CoordInv, AllTerminal, Accepted, ApproveTarget
    <2> QED BY <2>1, RowTaskStep, RowRunStep DEF Next
  <1> QED BY <1>1, <1>2, SemaphoreInvariant, PTL DEF Spec

(* When the event loop is over, no row is left running unless its own repository call
   failed, however many requests there were and wherever each was cancelled. *)
THEOREM EndedRowsAreClosed == Spec => []EndedRowsClosed
  <1>1. RowInv /\ CoordInv => EndedRowsClosed
    BY DEF RowInv, CoordInv, EndedRowsClosed, Ended, AllTerminal, Terminal, Final
  <1> QED BY <1>1, RowInvariant, PTL

(* A cycle with one refused target or unknown collector starts no run at all. *)
THEOREM RefusalIsTotal == Spec => []AllOrNoneStarted
  <1>1. RowInv /\ CoordInv => AllOrNoneStarted
    BY DEF RowInv, CoordInv, AllOrNoneStarted, Accepted, ApproveTarget
  <1> QED BY <1>1, RowInvariant, PTL

(* The shared event bars every further attempt. *)
THEOREM StopBarsAttempts == Spec => NoAttemptAfterStop
  <1>1. [Next]_vars => [stop => attempts' = attempts]_vars
    BY DEF Next, TaskStep, StartTask, Acquire, Acquired, AbortAcquire, BeginAttempt,
           AbortAttempt, FailRetryable, FailPermanent, ReturnResult, ReportIssue, Release,
           FinishTask, RunStep, Approve, PropagateStop, Gathered, Unwound, ShutdownLoop,
           CloseLoop, RequestStop, CancelRun, Kill, RecoverInterruptedRuns, vars, task
  <1> QED BY <1>1, PTL DEF Spec, NoAttemptAfterStop

(* A task's step is a step of the run ledger on its own row. *)
LEMMA LedgerTaskStep ==
  ASSUME SemaphoreInv, RowInv, NEW r \in Requests, TaskStep(r)
  PROVE  [Ledger!Next]_(Ledger!vars)
  <1>0. TypeOK /\ TaskInv
    BY DEF SemaphoreInv
  <1>1. CASE StartTask(r)
    BY <1>0, <1>1 DEF StartTask, RowInv, Ledger!Next, Ledger!StartRun, Ledger!vars
  <1>2. CASE FinishTask(r)
    <2>1. verdict[r] \in Ledger!Final
      BY <1>0, <1>2 DEF FinishTask, TaskInv, Final, Ledger!Final
    <2> QED BY <1>2, <2>1 DEF FinishTask, Ledger!Next, Ledger!FinishRun, Ledger!vars
  <1>3. CASE FailRetryable(r) \/ FailPermanent(r) \/ ReportIssue(r)
    <2>1. row[r] = "running"
      BY <1>3 DEF FailRetryable, FailPermanent, ReportIssue, Alive, Dead, RowInv
    <2>2. PICK c \in Categories, place \in {"looping", "leaving", "reporting"} :
             RecordIssue(r, c, place) /\ row' = row
      BY <1>3 DEF FailRetryable, FailPermanent, ReportIssue, Categories
    <2> QED BY <2>1, <2>2
            DEF RecordIssue, Ledger!Next, Ledger!RecordError, Ledger!vars
  <1>4. CASE \/ Acquire(r) \/ Acquired(r) \/ AbortAcquire(r) \/ BeginAttempt(r)
             \/ AbortAttempt(r) \/ ReturnResult(r) \/ Release(r)
    BY <1>4 DEF Acquire, Acquired, AbortAcquire, BeginAttempt, AbortAttempt, ReturnResult,
           Release, ledger, Ledger!vars
  <1> QED BY <1>1, <1>2, <1>3, <1>4 DEF TaskStep

(* The orchestrator implements the run ledger. *)
THEOREM ImplementsLedger == Spec => LedgerSpec
  <1>1. Init => Ledger!Init
    BY DEF Init, Ledger!Init
  <1>2. SemaphoreInv /\ RowInv /\ [Next]_vars => [Ledger!Next]_(Ledger!vars)
    <2> SUFFICES ASSUME SemaphoreInv, RowInv, [Next]_vars PROVE [Ledger!Next]_(Ledger!vars)
      OBVIOUS
    <2>1. CASE RunStep \/ RequestStop \/ CancelRun \/ Kill \/ UNCHANGED vars
      BY <2>1 DEF RunStep, Approve, PropagateStop, Gathered, Unwound, ShutdownLoop, CloseLoop,
             RequestStop, CancelRun, Kill, ledger, vars, Ledger!vars
    <2>2. CASE RecoverInterruptedRuns
      BY <2>2 DEF RecoverInterruptedRuns, Ledger!Next, Ledger!RecoverInterruptedRuns
    <2> QED BY <2>1, <2>2, LedgerTaskStep DEF Next
  <1> QED BY <1>1, <1>2, RowInvariant, PTL DEF Spec, LedgerSpec, Ledger!Spec
-----------------------------------------------------------------------------
(* What a task's error rows say so far: of every attempt before the current one, of every
   attempt, and of the verdict it is about to record. *)
PriorRetried(r) == \A i \in 1 .. Len(errors[r]) : i < attempts[r] => errors[r][i] \in Retryable

AllRetryable(r) == \A i \in 1 .. Len(errors[r]) : errors[r][i] \in Retryable

VerdictExplained(r) ==
    LET e == errors[r]
        n == Len(e)
        a == attempts[r]
    IN  /\ PriorRetried(r)
        /\ verdict[r] = "succeeded" => n = a - 1
        /\ verdict[r] = "partial" => n >= a /\ \A i \in a .. n : e[i] = "issue"
        /\ verdict[r] = "cancelled" => n \in {a - 1, a} /\ AllRetryable(r)
        /\ verdict[r] = "failed" =>
              n = a /\ (e[n] \in Permanent \/ (e[n] \in Retryable /\ a = Retries + 1))

(* At the top of the loop every attempt begun has left one retryable error row, inside an
   attempt every one but that; from the loop's end on the rows explain the verdict. *)
TaskErrors(r) ==
    LET e == errors[r]
        n == Len(e)
        a == attempts[r]
    IN  /\ pc[r] \in {"new", "started", "queued", "granted"} => a = 0 /\ n = 0
        /\ pc[r] \in {"new", "started", "queued", "granted", "looping", "collecting"} =>
              verdict[r] = "failed"
        /\ pc[r] = "looping" => n = a /\ AllRetryable(r)
        /\ pc[r] = "collecting" => n = a - 1 /\ AllRetryable(r)
        /\ pc[r] = "reporting" =>
              /\ verdict[r] = "partial" /\ a >= 1 /\ n >= a - 1 /\ PriorRetried(r)
              /\ \A i \in a .. n : e[i] = "issue"
        /\ pc[r] \in {"leaving", "finishing", "done"} => VerdictExplained(r)
        /\ pc[r] = "raised" => PriorRetried(r)

(* Recovery adds rows of its own, and only to runs that no task has closed. *)
ErrorInv ==
    /\ coord # "recovered" => \A r \in Requests : TaskErrors(r)
    /\ \A r \in Requests :
          /\ pc[r] = "done" => row[r] = verdict[r] /\ VerdictExplained(r)
          /\ row[r] \in Final /\ (coord # "recovered" \/ row[r] # "failed") => pc[r] = "done"

(* Cancellation has a cause before it reaches any task. *)
CauseInv ==
    /\ coord \in {"raised", "closing"} => AnyRaised
    /\ (stop \/ \E r \in Requests : cancelReq[r] \/ verdict[r] = "cancelled") =>
          asked \/ AnyRaised

(* A task whose own step it is not keeps what its error rows say. *)
LEMMA OtherTaskErrors ==
  ASSUME NEW q \in Requests, TaskErrors(q),
         errors'[q] = errors[q], attempts'[q] = attempts[q], verdict'[q] = verdict[q],
         pc'[q] = pc[q] \/ (pc[q] = "queued" /\ pc'[q] = "granted")
  PROVE  TaskErrors(q)'
  BY DEF TaskErrors, VerdictExplained, PriorRetried, AllRetryable

(* One more error row. *)
LEMMA ErrorAppended ==
  ASSUME TypeOK, NEW r \in Requests, NEW c \in Categories,
         errors' = [errors EXCEPT ![r] = Append(@, c)]
  PROVE  /\ Len(errors[r]) \in Nat /\ Len(errors'[r]) = Len(errors[r]) + 1
         /\ \A i \in 1 .. Len(errors[r]) : errors'[r][i] = errors[r][i]
         /\ errors'[r][Len(errors[r]) + 1] = c
  <1>1. errors[r] \in Seq(Categories) /\ errors'[r] = Append(errors[r], c)
    BY DEF TypeOK
  <1> QED BY <1>1, AppendProperties, LenProperties

(* What a task's own step makes of its error rows. *)
LEMMA OwnTaskErrors ==
  ASSUME SemaphoreInv, NEW r \in Requests, TaskErrors(r), TaskStep(r)
  PROVE  TaskErrors(r)'
  <1> USE CountAssumption
  <1> DEFINE n == Len(errors[r])
             a == attempts[r]
  <1>0. TypeOK /\ TaskInv
    BY DEF SemaphoreInv
  <1>t. /\ a \in 0 .. Retries + 1 /\ n \in Nat /\ pc \in [Requests -> Holding \cup Terminal
              \cup {"new", "started", "queued", "finishing"}]
    BY <1>0 DEF TypeOK
  <1>1. CASE StartTask(r) \/ Acquire(r)
    <2>1. /\ UNCHANGED <<errors, attempts, verdict>> /\ pc[r] \in {"new", "started"}
          /\ pc'[r] \in {"started", "raised", "looping", "queued"}
      BY <1>1, <1>t DEF StartTask, Acquire, Goto, ledger
    <2> QED BY <2>1, <1>t DEF TaskErrors, VerdictExplained, PriorRetried, AllRetryable
  <1>2. CASE Acquired(r)
    <2>1. /\ UNCHANGED <<errors, attempts, verdict>> /\ pc[r] = "granted"
          /\ pc'[r] = "looping"
      BY <1>2, <1>t DEF Acquired, Move, ledger
    <2> QED BY <2>1, <1>t DEF TaskErrors, AllRetryable
  <1>3. CASE AbortAcquire(r)
    <2>1. /\ UNCHANGED <<errors, attempts>> /\ pc[r] \in {"queued", "granted"}
          /\ pc'[r] = "finishing" /\ verdict'[r] = "cancelled"
      BY <1>3, <1>0 DEF AbortAcquire, Move, ledger, TypeOK
    <2> QED BY <2>1, <1>t DEF TaskErrors, VerdictExplained, PriorRetried, AllRetryable
  <1>4. CASE BeginAttempt(r)
    <2>1. /\ UNCHANGED <<errors, verdict>> /\ pc[r] = "looping" /\ pc'[r] = "collecting"
          /\ attempts'[r] = a + 1
      BY <1>4, <1>0 DEF BeginAttempt, Goto, ledger, TypeOK
    <2> QED BY <2>1, <1>t DEF TaskErrors, VerdictExplained, PriorRetried, AllRetryable
  <1>5. CASE AbortAttempt(r)
    <2>1. /\ UNCHANGED <<errors, attempts>> /\ pc[r] \in {"looping", "collecting"}
          /\ pc'[r] = "leaving" /\ verdict'[r] = "cancelled"
      BY <1>5, <1>0 DEF AbortAttempt, Goto, ledger, TypeOK
    <2> QED BY <2>1, <1>t DEF TaskErrors, VerdictExplained, PriorRetried, AllRetryable
  <1>6. CASE FailRetryable(r) \/ FailPermanent(r)
    <2>1. PICK c \in Retryable \cup Permanent, place \in {"looping", "leaving"} :
             /\ RecordIssue(r, c, place) /\ attempts' = attempts /\ pc[r] = "collecting"
             /\ place = "looping" => c \in Retryable
             /\ place = "leaving" /\ c \in Retryable => ~(a <= Retries)
      BY <1>6, CategoryAssumption DEF FailRetryable, FailPermanent
    <2>2. n = a - 1 /\ AllRetryable(r) /\ verdict[r] = "failed" /\ c \in Categories
      BY <2>1 DEF TaskErrors, Categories
    <2>3. CASE pc'[r] = "leaving" /\ verdict'[r] = "raised" /\ errors' = errors
      BY <2>1, <2>2, <2>3, <1>t DEF TaskErrors, VerdictExplained, PriorRetried, AllRetryable
    <2>4. CASE /\ errors' = [errors EXCEPT ![r] = Append(@, c)]
               /\ pc'[r] = place /\ verdict' = verdict
      <3>1. /\ Len(errors'[r]) = n + 1 /\ errors'[r][n + 1] = c
            /\ \A i \in 1 .. n : errors'[r][i] = errors[r][i]
        BY <2>2, <2>4, <1>0, ErrorAppended
      <3>2. \A i \in 1 .. n : errors[r][i] \in Retryable
        BY <2>2 DEF AllRetryable
      <3>3. a = n + 1 /\ attempts'[r] = n + 1
        BY <2>1, <2>2, <1>t
      <3>4. /\ \A i \in 1 .. n : errors'[r][i] \in Retryable
            /\ a = n + 1 /\ attempts'[r] = n + 1
        BY <3>1, <3>2, <3>3
      <3>5. CASE place = "looping"
        BY <2>1, <2>4, <3>1, <3>4, <3>5, <1>t DEF TaskErrors, AllRetryable
      <3>6. CASE place = "leaving"
        <4>1. c \in Permanent \/ (c \in Retryable /\ a = Retries + 1)
          BY <2>1, <3>6, <1>t
        <4> QED BY <2>2, <2>4, <3>1, <3>4, <3>6, <4>1, <1>t
                DEF TaskErrors, VerdictExplained, PriorRetried
      <3> QED BY <2>1, <3>5, <3>6
    <2> QED BY <2>1, <2>3, <2>4, <1>0 DEF RecordIssue, Goto, TypeOK
  <1>7. CASE ReturnResult(r)
    <2>1. /\ UNCHANGED <<errors, attempts>> /\ pc[r] = "collecting"
          /\ \/ pc'[r] = "leaving" /\ verdict'[r] = "succeeded"
             \/ pc'[r] = "reporting" /\ verdict'[r] = "partial"
      BY <1>7, <1>0 DEF ReturnResult, Goto, ledger, TypeOK
    <2> QED BY <2>1, <1>t DEF TaskErrors, VerdictExplained, PriorRetried, AllRetryable
  <1>8. CASE ReportIssue(r)
    <2>1. PICK place \in {"leaving", "reporting"} :
             RecordIssue(r, "issue", place) /\ attempts' = attempts /\ pc[r] = "reporting"
      BY <1>8 DEF ReportIssue
    <2>2. /\ verdict[r] = "partial" /\ a >= 1 /\ n >= a - 1 /\ PriorRetried(r)
          /\ \A i \in a .. n : errors[r][i] = "issue"
      BY <2>1 DEF TaskErrors
    <2>3. CASE pc'[r] = "leaving" /\ verdict'[r] = "raised" /\ errors' = errors
      BY <2>1, <2>2, <2>3, <1>t DEF TaskErrors, VerdictExplained, PriorRetried
    <2>4. CASE /\ errors' = [errors EXCEPT ![r] = Append(@, "issue")]
               /\ pc'[r] = place /\ verdict' = verdict
      <3>1. /\ Len(errors'[r]) = n + 1 /\ errors'[r][n + 1] = "issue"
            /\ \A i \in 1 .. n : errors'[r][i] = errors[r][i]
        BY <2>4, <1>0, ErrorAppended DEF Categories
      <3>2. PriorRetried(r)'
        <4>1. \A i \in 1 .. n : i < a => errors'[r][i] \in Retryable
          BY <2>2, <3>1 DEF PriorRetried
        <4>2. \A i \in 1 .. n + 1 : i < a => i \in 1 .. n
          BY <2>2, <1>t
        <4>3. attempts'[r] = a /\ Len(errors'[r]) = n + 1
          BY <2>1, <3>1
        <4> HIDE DEF n, a
        <4> QED BY <4>1, <4>2, <4>3 DEF PriorRetried
      <3>3. \A i \in a .. n + 1 : errors'[r][i] = "issue"
        <4> TAKE i \in a .. n + 1
        <4>1. a \in Nat /\ n \in Nat /\ a >= 1
          BY <2>2, <1>t
        <4> HIDE DEF n, a
        <4>2. i = n + 1 \/ (i \in 1 .. n /\ i \in a .. n)
          BY <4>1
        <4> QED BY <2>2, <3>1, <4>2
      <3> QED BY <2>1, <2>2, <2>4, <3>1, <3>2, <3>3, <1>t DEF TaskErrors, VerdictExplained
    <2> QED BY <2>1, <2>3, <2>4, <1>0 DEF RecordIssue, Goto, TypeOK
  <1>9. CASE Release(r)
    <2>1. /\ UNCHANGED <<errors, attempts, verdict>> /\ pc[r] = "leaving"
          /\ pc'[r] \in {"raised", "finishing"}
      BY <1>9 DEF Release, Move, ledger
    <2> QED BY <2>1 DEF TaskErrors, VerdictExplained, PriorRetried, AllRetryable
  <1>10. CASE FinishTask(r)
    <2>1. /\ UNCHANGED <<errors, attempts, verdict>> /\ pc[r] = "finishing"
          /\ pc'[r] \in {"raised", "done"}
      BY <1>10, <1>t DEF FinishTask, Goto
    <2> QED BY <2>1 DEF TaskErrors, VerdictExplained, PriorRetried, AllRetryable
  <1> QED BY <1>1, <1>2, <1>3, <1>4, <1>5, <1>6, <1>7, <1>8, <1>9, <1>10 DEF TaskStep

(* What the step of one task leaves alone in the others. *)
LEMMA OthersLeftAlone ==
  ASSUME TypeOK, NEW r \in Requests, TaskStep(r), NEW q \in Requests, q # r
  PROVE  /\ errors'[q] = errors[q] /\ attempts'[q] = attempts[q] /\ verdict'[q] = verdict[q]
         /\ row'[q] = row[q]
         /\ pc'[q] = pc[q] \/ (pc[q] = "queued" /\ pc'[q] = "granted")
  <1>1. CASE FailRetryable(r) \/ FailPermanent(r) \/ ReportIssue(r)
    <2>1. PICK c, place : RecordIssue(r, c, place) /\ attempts' = attempts /\ row' = row
      BY <1>1 DEF FailRetryable, FailPermanent, ReportIssue
    <2> QED BY <2>1 DEF RecordIssue, Goto, TypeOK
  <1>2. CASE Acquired(r) \/ AbortAcquire(r) \/ Release(r)
    <2>1. PICK place, W : W \subseteq LiveWaiters /\ Move(r, place, W)
      BY <1>2 DEF Acquired, AbortAcquire, Release
    <2>2. pc'[q] = pc[q] \/ (pc[q] = "queued" /\ pc'[q] = "granted")
      BY <2>1 DEF Move, LiveWaiters
    <2> QED BY <1>2, <2>2 DEF Acquired, AbortAcquire, Release, ledger, TypeOK
  <1>3. CASE \/ StartTask(r) \/ Acquire(r) \/ BeginAttempt(r) \/ AbortAttempt(r)
             \/ ReturnResult(r) \/ FinishTask(r)
    BY <1>3 DEF StartTask, Acquire, BeginAttempt, AbortAttempt, ReturnResult, FinishTask, Goto,
                ledger, TypeOK
  <1> QED BY <1>1, <1>2, <1>3 DEF TaskStep

(* One step of a task keeps every run's errors and status in agreement. *)
LEMMA ErrorTaskStep ==
  ASSUME SemaphoreInv, RowInv, CoordInv, ErrorInv, NEW r \in Requests, TaskStep(r)
  PROVE  ErrorInv'
  <1>0. TypeOK
    BY DEF SemaphoreInv
  <1>1. coord' = coord /\ coord # "recovered" /\ pc[r] # "done"
    BY DEF TaskStep, StartTask, Acquire, Acquired, AbortAcquire, BeginAttempt, AbortAttempt,
           FailRetryable, FailPermanent, ReturnResult, ReportIssue, Release, FinishTask, Alive,
           Dead
  <1>2. \A q \in Requests : TaskErrors(q)
    BY <1>1 DEF ErrorInv
  <1>3. ASSUME NEW q \in Requests PROVE TaskErrors(q)'
    BY <1>0, <1>2, OthersLeftAlone, OtherTaskErrors, OwnTaskErrors
  <1>4. RowInv' /\ SemaphoreInv'
    BY RowTaskStep, SemaphoreTaskStep
  <1>5. pc'[r] = "done" => row'[r] = verdict'[r]
    <2>1. CASE FinishTask(r)
      BY <2>1, <1>0 DEF FinishTask, Goto, TypeOK
    <2>2. CASE ~FinishTask(r)
      <3>1. pc'[r] # "done"
        BY <2>2, <1>0 DEF TaskStep, StartTask, Acquire, Acquired, AbortAcquire, BeginAttempt,
           AbortAttempt, FailRetryable, FailPermanent, ReturnResult, ReportIssue, RecordIssue,
           Release, Goto, Move, TypeOK
      <3> QED BY <3>1
    <2> QED BY <2>1, <2>2
  <1>6. row'[r] \in Final => pc'[r] = "done"
    <2>1. CASE FinishTask(r)
      <3>1. row[r] = "running"
        BY <2>1, <1>1 DEF FinishTask, RowInv
      <3> QED BY <2>1, <3>1, <1>0 DEF FinishTask, Goto, TypeOK, Final
    <2>2. CASE StartTask(r)
      <3>1. row[r] = "absent"
        BY <2>2 DEF StartTask, RowInv
      <3> QED BY <2>2, <3>1, <1>0 DEF StartTask, TypeOK, Final
    <2>3. CASE ~StartTask(r) /\ ~FinishTask(r)
      <3>1. row' = row /\ pc[r] \notin {"new", "done", "raised"}
        BY <2>3 DEF TaskStep, Acquire, Acquired, AbortAcquire, BeginAttempt, AbortAttempt,
               FailRetryable, FailPermanent, ReturnResult, ReportIssue, Release, ledger
      <3>2. row[r] = "running"
        BY <3>1, <1>1 DEF RowInv
      <3> QED BY <3>1, <3>2 DEF Final
    <2> QED BY <2>1, <2>2, <2>3
  <1>7. ASSUME NEW q \in Requests, pc'[q] = "done"
        PROVE  row'[q] = verdict'[q] /\ VerdictExplained(q)'
    <2>1. VerdictExplained(q)'
      BY <1>3, <1>7 DEF TaskErrors
    <2>2. CASE q = r
      BY <2>1, <2>2, <1>5, <1>7
    <2>3. CASE q # r
      <3>1. row[q] = verdict[q]
        BY <2>3, <1>0, <1>7, OthersLeftAlone DEF ErrorInv
      <3> QED BY <2>1, <2>3, <3>1, <1>0, OthersLeftAlone
    <2> QED BY <2>2, <2>3
  <1>8. ASSUME NEW q \in Requests, row'[q] \in Final PROVE pc'[q] = "done"
    <2>1. CASE q = r
      BY <2>1, <1>6, <1>8
    <2>2. CASE q # r
      <3>1. row'[q] = row[q] /\ (pc'[q] = pc[q] \/ pc[q] = "queued")
        BY <2>2, <1>0, OthersLeftAlone
      <3>2. pc[q] = "done"
        BY <3>1, <1>1, <1>8 DEF ErrorInv
      <3> QED BY <3>1, <3>2
    <2> QED BY <2>1, <2>2
  <1> QED BY <1>3, <1>7, <1>8 DEF ErrorInv

(* The steps of run(), a kill and recovery. *)
LEMMA ErrorRunStep ==
  ASSUME SemaphoreInv, RowInv, ErrorInv,
         RunStep \/ RequestStop \/ CancelRun \/ Kill \/ RecoverInterruptedRuns
  PROVE  ErrorInv'
  <1>0. TypeOK
    BY DEF SemaphoreInv
  <1>1. UNCHANGED <<pc, attempts, verdict>>
    BY DEF RunStep, Approve, PropagateStop, Gathered, Unwound, ShutdownLoop, CloseLoop,
           RequestStop, CancelRun, Kill, RecoverInterruptedRuns, task
  <1>2. CASE RecoverInterruptedRuns
    <2>1. coord' = "recovered" /\ coord # "recovered"
      BY <1>2 DEF RecoverInterruptedRuns
    <2>2. ASSUME NEW q \in Requests
          PROVE  /\ row'[q] = (IF row[q] = "running" THEN "failed" ELSE row[q])
                 /\ row[q] # "running" => errors'[q] = errors[q]
      BY <1>2 DEF RecoverInterruptedRuns
    <2>3. ASSUME NEW q \in Requests, pc'[q] = "done"
          PROVE  row'[q] = verdict'[q] /\ VerdictExplained(q)'
      <3>1. pc[q] = "done" /\ row[q] = verdict[q] /\ VerdictExplained(q) /\ row[q] \in Final
        BY <1>1, <2>3 DEF ErrorInv, RowInv
      <3>2. row[q] # "running"
        BY <3>1 DEF Final
      <3> QED BY <1>1, <2>2, <3>1, <3>2 DEF VerdictExplained, PriorRetried, AllRetryable
    <2>4. ASSUME NEW q \in Requests, row'[q] \in Final, row'[q] # "failed"
          PROVE  pc'[q] = "done"
      BY <1>1, <2>1, <2>2, <2>4 DEF ErrorInv
    <2> QED BY <2>1, <2>3, <2>4 DEF ErrorInv
  <1>3. CASE RunStep \/ RequestStop \/ CancelRun \/ Kill
    <2>1. UNCHANGED <<row, errors>> /\ coord' # "recovered" /\ coord # "recovered"
      BY <1>3 DEF RunStep, Approve, PropagateStop, Gathered, Unwound, ShutdownLoop, CloseLoop,
             RequestStop, CancelRun, Kill, ledger, Dead
    <2> QED BY <1>1, <2>1 DEF ErrorInv, TaskErrors, VerdictExplained, PriorRetried, AllRetryable
  <1> QED BY <1>2, <1>3

(* A cancellation has a cause: the caller, or a repository call that raised. *)
LEMMA CauseStep ==
  ASSUME SemaphoreInv, CauseInv, [Next]_vars
  PROVE  CauseInv'
  <1>0. TypeOK
    BY DEF SemaphoreInv
  <1> DEFINE Cause == asked \/ AnyRaised
  <1>1. CASE UNCHANGED vars
    BY <1>1 DEF vars, CauseInv, AnyRaised
  <1>2. CASE RunStep \/ RequestStop \/ CancelRun \/ Kill \/ RecoverInterruptedRuns
    <2>1. UNCHANGED <<pc, verdict>>
      BY <1>2 DEF RunStep, Approve, PropagateStop, Gathered, Unwound, ShutdownLoop, CloseLoop,
             RequestStop, CancelRun, Kill, RecoverInterruptedRuns, task
    <2>2. CASE RequestStop \/ CancelRun
      BY <2>1, <2>2 DEF RequestStop, CancelRun, CauseInv, AnyRaised
    <2>3. CASE PropagateStop \/ ShutdownLoop
      <3>1. Cause /\ asked' = asked /\ coord' \in {"gathering", "closing"}
        BY <2>3 DEF PropagateStop, ShutdownLoop, CauseInv
      <3>2. coord' = "closing" => AnyRaised
        BY <2>3 DEF PropagateStop, ShutdownLoop, CauseInv
      <3> QED BY <2>1, <3>1, <3>2 DEF CauseInv, AnyRaised
    <2>4. CASE Approve \/ Gathered \/ Unwound \/ CloseLoop \/ Kill \/ RecoverInterruptedRuns
      <3>1. UNCHANGED <<stop, asked, cancelReq>>
        BY <2>4 DEF Approve, Gathered, Unwound, CloseLoop, Kill, RecoverInterruptedRuns
      <3>2. coord' \in {"raised", "closing"} => AnyRaised
        BY <2>4 DEF Approve, Gathered, Unwound, CloseLoop, Kill, RecoverInterruptedRuns
      <3> QED BY <2>1, <3>1, <3>2 DEF CauseInv, AnyRaised
    <2> QED BY <1>2, <2>2, <2>3, <2>4 DEF RunStep
  <1>3. ASSUME NEW r \in Requests, TaskStep(r) PROVE CauseInv'
    <2>0. /\ coord' = coord /\ asked' = asked /\ pc[r] # "raised"
          /\ stop' => stop \/ cancelReq[r]
          /\ cancelReq' = cancelReq \/ cancelReq' = [cancelReq EXCEPT ![r] = FALSE]
      BY <1>3 DEF TaskStep, StartTask, Acquire, Acquired, AbortAcquire, BeginAttempt,
             AbortAttempt, FailRetryable, FailPermanent, ReturnResult, ReportIssue, Release,
             FinishTask
    <2>1. /\ coord' = coord /\ asked' = asked /\ pc[r] # "raised"
          /\ stop' => stop \/ cancelReq[r]
          /\ \A q \in Requests : cancelReq'[q] => cancelReq[q]
      BY <2>0, <1>0 DEF TypeOK
    <2>2. AnyRaised => AnyRaised'
      <3>1. \A q \in Requests : pc[q] = "raised" => pc'[q] = "raised"
        BY <1>0, <1>3, <2>1, OthersLeftAlone
      <3> QED BY <3>1 DEF AnyRaised
    <2>3. verdict'[r] = "cancelled" => verdict[r] = "cancelled" \/ stop \/ cancelReq[r]
      BY <1>0, <1>3 DEF TaskStep, StartTask, Acquire, Acquired, AbortAcquire, BeginAttempt,
             AbortAttempt, FailRetryable, FailPermanent, ReturnResult, ReportIssue, RecordIssue,
             Release, FinishTask, TypeOK
    <2>4. \A q \in Requests : q # r => verdict'[q] = verdict[q]
      BY <1>0, <1>3, OthersLeftAlone
    <2> QED BY <2>1, <2>2, <2>3, <2>4 DEF CauseInv
  <1> QED BY <1>1, <1>2, <1>3 DEF Next

(* For every number of requests, retries and issues: the error rows of a closed run account
   for its status, and a run is cancelled only if the caller asked or a repository call
   raised. *)
THEOREM StatusIsExplained == Spec => []StatusExplained
  <1>1. Init => ErrorInv /\ CauseInv
    <2> SUFFICES ASSUME Init PROVE ErrorInv /\ CauseInv
      OBVIOUS
    <2>1. \A r \in Requests : TaskErrors(r)
      BY DEF Init, TaskErrors, AllRetryable, PriorRetried
    <2>2. \A r \in Requests : pc[r] # "done" /\ row[r] \notin Final /\ ~cancelReq[r]
                              /\ verdict[r] # "cancelled"
      BY DEF Init, Final
    <2> QED BY <2>1, <2>2 DEF ErrorInv, CauseInv, Init
  <1>2. SemaphoreInv /\ RowInv /\ CoordInv /\ ErrorInv /\ [Next]_vars => ErrorInv'
    <2> SUFFICES ASSUME SemaphoreInv, RowInv, CoordInv, ErrorInv, [Next]_vars PROVE ErrorInv'
      OBVIOUS
    <2>1. CASE UNCHANGED vars
      BY <2>1 DEF vars, ErrorInv, TaskErrors, VerdictExplained, PriorRetried, AllRetryable
    <2> QED BY <2>1, ErrorTaskStep, ErrorRunStep DEF Next
  <1>3. SemaphoreInv /\ CauseInv /\ [Next]_vars => CauseInv'
    BY CauseStep
  <1>4. SemaphoreInv /\ RowInv /\ ErrorInv /\ CauseInv => StatusExplained
    <2> SUFFICES ASSUME SemaphoreInv, RowInv, ErrorInv, CauseInv PROVE StatusExplained
      OBVIOUS
    <2>1. CancelledOnlyIfAsked
      <3>1. \A r \in Requests : row[r] = "cancelled" => verdict[r] = "cancelled"
        BY DEF ErrorInv, Final
      <3> QED BY <3>1 DEF CauseInv, CancelledOnlyIfAsked
    <2>2. ASSUME NEW r \in Requests, coord # "recovered" PROVE PriorRetried(r)
      <3>1. /\ TaskErrors(r) /\ attempts[r] \in Int /\ Len(errors[r]) \in Nat
            /\ pc[r] \in Holding \cup Terminal \cup {"new", "started", "queued", "finishing"}
        BY <2>2 DEF ErrorInv, SemaphoreInv, TypeOK
      <3> QED BY <3>1 DEF TaskErrors, VerdictExplained, PriorRetried, AllRetryable, Holding,
                          Terminal
    <2>3. ASSUME NEW r \in Requests, row[r] \in Final,
                 coord # "recovered" \/ row[r] # "failed"
          PROVE  verdict[r] = row[r] /\ VerdictExplained(r)
      BY <2>3 DEF ErrorInv
    <2>4. ErrorsExplainStatus
      <3> SUFFICES ASSUME NEW r \in Requests
                   PROVE  LET e == errors[r]
                              n == Len(e)
                              a == attempts[r]
                          IN  /\ coord # "recovered" =>
                                    \A i \in 1 .. n : i < a => e[i] \in Retryable
                              /\ row[r] = "succeeded" => n = a - 1
                              /\ row[r] = "partial" => n >= a /\ \A i \in a .. n : e[i] = "issue"
                              /\ row[r] = "cancelled" =>
                                    n \in {a - 1, a} /\ \A i \in 1 .. n : e[i] \in Retryable
                              /\ row[r] = "failed" /\ coord # "recovered" =>
                                    /\ n = a
                                    /\ \/ e[n] \in Permanent
                                       \/ e[n] \in Retryable /\ a = Retries + 1
        BY DEF ErrorsExplainStatus
      <3>1. coord # "recovered" => PriorRetried(r)
        BY <2>2
      <3>2. row[r] \in Final /\ (coord # "recovered" \/ row[r] # "failed") =>
               verdict[r] = row[r] /\ VerdictExplained(r)
        BY <2>3
      <3> QED BY <3>1, <3>2 DEF VerdictExplained, PriorRetried, AllRetryable, Final
    <2> QED BY <2>1, <2>4 DEF StatusExplained
  <1> QED BY <1>1, <1>2, <1>3, <1>4, RowInvariant, PTL DEF Spec
=============================================================================
