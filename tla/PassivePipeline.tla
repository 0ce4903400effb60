--------------------------- MODULE PassivePipeline ---------------------------
(***************************************************************************)
(* PassiveEventPipeline (passive.py): a bounded asyncio.Queue between       *)
(* capture adapters that submit frames and a fixed pool of workers that    *)
(* parse them and hand observations to a sink, and the stop() that drains  *)
(* it under a deadline.                                                    *)
(*                                                                         *)
(* A frame is the sequence of what its parsers produce: facts (the         *)
(* fingerprint of an observation) and malformed items (a parser or         *)
(* normalisation error).  The dedupe cache is the set of fingerprints it   *)
(* would suppress now: Forget stands for expiry and eviction.               *)
(***************************************************************************)
EXTENDS Integers, Sequences, FiniteSets

CONSTANTS
    Facts,       \* observation fingerprints
    Malformed,   \* what a failing parser contributes
    Frames,      \* frames an adapter may submit, sequences over Facts and Malformed
    Workers,     \* worker_count tasks
    Submitters,  \* tasks that call the awaiting submit()
    NoFrame,     \* a submitter that is not waiting in submit()
    QueueSize,   \* queue_size
    MaxFrames    \* bound on the frames offered to the pipeline

ASSUME PipelineAssumption ==
    /\ Malformed \notin Facts
    /\ Frames \subseteq Seq(Facts \cup {Malformed})
    /\ IsFiniteSet(Workers)
    /\ NoFrame \notin Frames
    /\ QueueSize \in Nat \ {0}
    /\ MaxFrames \in Nat

VARIABLES
    accepting,   \* _accepting
    stopPhase,   \* where the call of stop() is
    queue,       \* _queue
    unfinished,  \* the queue's count of puts without task_done, which join() waits on
    worker,      \* state of each worker and what is left of its frame
    blocked,     \* the frame each submitter waits with in put()
    seen,        \* fingerprints the dedupe cache suppresses
    offered,     \* calls of submit and submit_nowait
    refused,     \* unsupported, oversized and backpressure rejections
    submitted, processed, incomplete,   \* the frame counters of PipelineMetrics
    passed,      \* facts the workers have gone over
    stored,      \* facts the sink persisted
    failed       \* facts whose sink call failed or was cancelled

intake == <<accepting, blocked, offered, refused, submitted>>
facts == <<seen, passed, stored, failed>>
vars == <<accepting, stopPhase, queue, unfinished, worker, blocked, seen, offered, refused,
          submitted, processed, incomplete, passed, stored, failed>>

Absent == [state |-> "absent", items |-> <<>>]  \* not created yet, or cancelled
Idle == [state |-> "idle", items |-> <<>>]      \* waiting in queue.get()

(* _in_flight: frames taken by a worker. *)
InFlight == {w \in Workers : worker[w].state \in {"handling", "sinking"}}

(* Queue.full(). *)
Full == Len(queue) >= QueueSize

(* _submissions_done is set. *)
NoneBlocked == \A s \in Submitters : blocked[s] = NoFrame

Init ==
    /\ accepting = FALSE /\ stopPhase = "idle"
    /\ queue = <<>> /\ unfinished = 0
    /\ worker = [w \in Workers |-> Absent]
    /\ blocked = [s \in Submitters |-> NoFrame]
    /\ offered = 0 /\ refused = 0
    /\ submitted = 0 /\ processed = 0 /\ incomplete = 0
    /\ seen = {} /\ passed = {} /\ stored = {} /\ failed = {}

(* start(): refused once stopped, a no-op while the workers exist. *)
Start ==
    /\ stopPhase = "idle" /\ ~accepting
    /\ accepting' = TRUE
    /\ worker' = [w \in Workers |-> Idle]
    /\ UNCHANGED <<stopPhase, queue, unfinished, blocked, offered, refused, submitted,
                   processed, incomplete, facts>>

(***************************************************************************)
(* Intake.                                                                 *)
(***************************************************************************)

(* put_nowait and _record_submission. *)
Enqueue(f) ==
    /\ queue' = Append(queue, f)
    /\ unfinished' = unfinished + 1
    /\ submitted' = submitted + 1

(* _prepare_frame raises unless the pipeline is accepting. *)
Offer == /\ accepting /\ offered < MaxFrames
         /\ offered' = offered + 1

(* _prepare_frame counts an unknown protocol or an oversized payload and drops it. *)
RefuseFrame ==
    /\ Offer
    /\ refused' = refused + 1
    /\ UNCHANGED <<accepting, stopPhase, queue, unfinished, worker, blocked, submitted,
                   processed, incomplete, facts>>

(* submit(): puts at once, or waits for space in put(). *)
Submit(s) ==
    /\ Offer /\ blocked[s] = NoFrame
    /\ \E f \in Frames :
          \/ ~Full /\ Enqueue(f) /\ UNCHANGED blocked
          \/ Full /\ blocked' = [blocked EXCEPT ![s] = f]
                  /\ UNCHANGED <<queue, unfinished, submitted>>
    /\ UNCHANGED <<accepting, stopPhase, worker, refused, processed, incomplete, facts>>

(* A waiting put() finds space; it does not look at _accepting again. *)
SubmitResumes(s) ==
    /\ blocked[s] # NoFrame /\ ~Full
    /\ Enqueue(blocked[s])
    /\ blocked' = [blocked EXCEPT ![s] = NoFrame]
    /\ UNCHANGED <<accepting, stopPhase, worker, offered, refused, processed, incomplete, facts>>

(* The task waiting in put() is cancelled; the finally block still counts it out. *)
SubmitCancelled(s) ==
    /\ blocked[s] # NoFrame
    /\ blocked' = [blocked EXCEPT ![s] = NoFrame]
    /\ UNCHANGED <<accepting, stopPhase, queue, unfinished, worker, offered, refused,
                   submitted, processed, incomplete, facts>>

(* submit_nowait(): puts or counts a backpressure rejection. *)
SubmitNowait ==
    /\ Offer
    /\ \E f \in Frames :
          \/ ~Full /\ Enqueue(f) /\ UNCHANGED refused
          \/ Full /\ refused' = refused + 1 /\ UNCHANGED <<queue, unfinished, submitted>>
    /\ UNCHANGED <<accepting, stopPhase, worker, blocked, processed, incomplete, facts>>

(***************************************************************************)
(* Workers.  None of their steps happens after stop() cancelled them.      *)
(***************************************************************************)
Running == stopPhase \notin {"aborting", "stopped"}

Set(w, state, items) == worker' = [worker EXCEPT ![w] = [state |-> state, items |-> items]]

GetFrame(w) ==
    /\ Running /\ worker[w].state = "idle" /\ queue # <<>>
    /\ Set(w, "handling", Head(queue))
    /\ queue' = Tail(queue)
    /\ UNCHANGED <<intake, stopPhase, unfinished, processed, incomplete, facts>>

(* A parser or _normalize_observation raised: counted, and the loop goes on. *)
SkipMalformed(w) ==
    /\ Running /\ worker[w].state = "handling" /\ worker[w].items # <<>>
    /\ Head(worker[w].items) = Malformed
    /\ Set(w, "handling", Tail(worker[w].items))
    /\ UNCHANGED <<intake, stopPhase, queue, unfinished, processed, incomplete, facts>>

(* Mutant: a fresh fact is marked and then taken for its own duplicate. *)
CheckFact_marked(w) ==
    /\ Running /\ worker[w].state = "handling" /\ worker[w].items # <<>>
    /\ LET fact == Head(worker[w].items)
       IN  /\ fact # Malformed
           /\ passed' = passed \cup {fact}
           /\ seen' = seen \cup {fact}
           /\ Set(w, "handling", Tail(worker[w].items))
    /\ UNCHANGED <<intake, stopPhase, queue, unfinished, processed, incomplete, stored, failed>>

(* _is_duplicate: a fresh fingerprint is marked before the sink is awaited. *)
CheckFact(w) ==
    /\ Running /\ worker[w].state = "handling" /\ worker[w].items # <<>>
    /\ LET fact == Head(worker[w].items)
       IN  /\ fact # Malformed
           /\ passed' = passed \cup {fact}
           /\ \/ /\ fact \in seen
                 /\ Set(w, "handling", Tail(worker[w].items))
                 /\ UNCHANGED seen
              \/ /\ fact \notin seen
                 /\ Set(w, "sinking", worker[w].items)
                 /\ seen' = seen \cup {fact}
    /\ UNCHANGED <<intake, stopPhase, queue, unfinished, processed, incomplete, stored, failed>>

(* The sink returns, or raises and the failure is counted. *)
SinkReturns(w) ==
    /\ Running /\ worker[w].state = "sinking"
    /\ LET fact == Head(worker[w].items)
       IN  \/ stored' = stored \cup {fact} /\ UNCHANGED failed
           \/ failed' = failed \cup {fact} /\ UNCHANGED stored
    /\ Set(w, "handling", Tail(worker[w].items))
    /\ UNCHANGED <<intake, stopPhase, queue, unfinished, processed, incomplete, seen, passed>>

(* End of _handle_frame and the finally block of _worker. *)
FrameDone(w) ==
    /\ Running /\ worker[w].state = "handling" /\ worker[w].items = <<>>
    /\ Set(w, "idle", <<>>)
    /\ processed' = processed + 1
    /\ unfinished' = unfinished - 1
    /\ UNCHANGED <<intake, stopPhase, queue, incomplete, facts>>

(* A fingerprint expires or is evicted from the dedupe cache. *)
Forget(fact) ==
    /\ fact \in seen
    /\ seen' = seen \ {fact}
    /\ UNCHANGED <<intake, stopPhase, queue, unfinished, worker, processed, incomplete,
                   passed, stored, failed>>

(***************************************************************************)
(* stop().                                                                 *)
(***************************************************************************)
Stop ==
    /\ stopPhase = "idle"
    /\ stopPhase' = "settling"
    /\ accepting' = FALSE
    /\ UNCHANGED <<queue, unfinished, worker, blocked, offered, refused, submitted, processed,
                   incomplete, facts>>

(* Mutant: stop() does not wait for the submitters. *)
SubmittersSettled_unchecked ==
    /\ stopPhase = "settling"
    /\ stopPhase' = "joining"
    /\ UNCHANGED <<intake, queue, unfinished, worker, processed, incomplete, facts>>

(* _submissions_done.wait(), which has no deadline. *)
SubmittersSettled ==
    /\ stopPhase = "settling" /\ NoneBlocked
    /\ stopPhase' = "joining"
    /\ UNCHANGED <<intake, queue, unfinished, worker, processed, incomplete, facts>>

(* queue.join() returned. *)
Joined ==
    /\ stopPhase = "joining" /\ unfinished = 0
    /\ stopPhase' = "aborting"
    /\ UNCHANGED <<intake, queue, unfinished, worker, processed, incomplete, facts>>

(* Mutant: only the queue is counted. *)
DrainTimeout_queued ==
    /\ stopPhase = "joining"
    /\ stopPhase' = "aborting"
    /\ incomplete' = incomplete + Len(queue)
    /\ UNCHANGED <<intake, queue, unfinished, worker, processed, facts>>

(* Mutant: the join has no deadline. *)
DrainTimeout_unbounded ==
    /\ stopPhase = "joining" /\ unfinished = 0
    /\ stopPhase' = "aborting"
    /\ UNCHANGED <<intake, queue, unfinished, worker, processed, incomplete, facts>>

(* The drain deadline expired: what is queued or in flight is counted incomplete. *)
DrainTimeout ==
    /\ stopPhase = "joining"
    /\ stopPhase' = "aborting"
    /\ incomplete' = incomplete + Len(queue) + Cardinality(InFlight)
    /\ UNCHANGED <<intake, queue, unfinished, worker, processed, facts>>

(* Mutant: the sink's CancelledError is counted as a failure and the worker goes on. *)
WorkerCancelled_swallowed(w) ==
    /\ stopPhase = "aborting" /\ worker[w].state # "absent"
    /\ \/ /\ worker[w].state = "sinking"
          /\ Set(w, "handling", Tail(worker[w].items))
          /\ failed' = failed \cup {Head(worker[w].items)}
       \/ /\ worker[w].state = "idle"
          /\ worker' = [worker EXCEPT ![w] = Absent]
          /\ UNCHANGED failed
    /\ UNCHANGED <<intake, stopPhase, queue, unfinished, processed, incomplete, seen, passed,
                   stored>>

(* CancelledError reaches a worker in get() or in the sink. *)
WorkerCancelled(w) ==
    /\ stopPhase = "aborting" /\ worker[w].state # "absent"
    /\ worker' = [worker EXCEPT ![w] = Absent]
    /\ unfinished' = IF w \in InFlight THEN unfinished - 1 ELSE unfinished
    /\ failed' = IF worker[w].state = "sinking" THEN failed \cup {Head(worker[w].items)}
                                                ELSE failed
    /\ UNCHANGED <<intake, stopPhase, queue, processed, incomplete, seen, passed, stored>>

(* All workers are gone: the queue is emptied with one task_done per frame. *)
ReleaseQueue ==
    /\ stopPhase = "aborting" /\ \A w \in Workers : worker[w].state = "absent"
    /\ stopPhase' = "stopped"
    /\ queue' = <<>>
    /\ unfinished' = unfinished - Len(queue)
    /\ UNCHANGED <<intake, worker, processed, incomplete, facts>>

Step(w) == GetFrame(w) \/ SkipMalformed(w) \/ CheckFact(w) \/ FrameDone(w) \/ WorkerCancelled(w)
StopStep == SubmittersSettled \/ Joined \/ DrainTimeout \/ ReleaseQueue

Next == \/ Start \/ Stop \/ RefuseFrame \/ SubmitNowait
        \/ \E s \in Submitters : Submit(s) \/ SubmitResumes(s) \/ SubmitCancelled(s)
        \/ \E w \in Workers : Step(w) \/ SinkReturns(w)
        \/ \E fact \in Facts : Forget(fact)
        \/ StopStep

Spec == Init /\ [][Next]_vars

(* The event loop runs every ready task and the drain deadline fires.  Nothing is
   assumed of the sink. *)
LoopFairness == /\ \A w \in Workers : WF_vars(Step(w))
                /\ \A s \in Submitters : WF_vars(SubmitResumes(s))
                /\ WF_vars(StopStep)

LoopSpec == Spec /\ LoopFairness

-----------------------------------------------------------------------------
(* Every variable has its type and the queue never exceeds queue_size. *)
TypeOK ==
    /\ accepting \in BOOLEAN
    /\ stopPhase \in {"idle", "settling", "joining", "aborting", "stopped"}
    /\ queue \in Seq(Frames) /\ Len(queue) <= QueueSize
    /\ unfinished \in Nat
    /\ worker \in [Workers -> [state : {"absent", "idle", "handling", "sinking"},
                               items : Seq(Facts \cup {Malformed})]]
    /\ \A w \in Workers : worker[w].state = "sinking" =>
          worker[w].items # <<>> /\ Head(worker[w].items) \in Facts
    /\ blocked \in [Submitters -> Frames \cup {NoFrame}]
    /\ offered \in 0 .. MaxFrames /\ refused \in Nat
    /\ submitted \in Nat /\ processed \in Nat /\ incomplete \in Nat
    /\ seen \subseteq Facts /\ passed \subseteq Facts
    /\ stored \subseteq Facts /\ failed \subseteq Facts

(* Every frame counted as submitted is queued, in flight, processed or, once stop() has
   given up on it, counted incomplete exactly once: no frame is lost or counted twice by
   the race between the workers, the drain deadline and cancellation. *)
FramesAccounted ==
    IF Running
      THEN submitted = processed + Len(queue) + Cardinality(InFlight) /\ incomplete = 0
      ELSE submitted = processed + incomplete

(* join() waits for exactly the frames that are queued or in flight: task_done is called
   once per frame on the normal, the cancelled and the released path. *)
UnfinishedMatches == unfinished = Len(queue) + Cardinality(InFlight)

(* The two counts stop() relies on are exact at every point: what it reports of the
   frames, and what join() waits for. *)
CountsExact == FramesAccounted /\ UnfinishedMatches

(* Once stop() has returned nothing is queued, running or waiting to be queued. *)
StoppedIsQuiet ==
    stopPhase = "stopped" =>
        /\ queue = <<>> /\ unfinished = 0 /\ NoneBlocked
        /\ \A w \in Workers : worker[w] = Absent

(* A fact a worker has gone over, deduplicated or not, was persisted, is being persisted
   or failed in the sink: the dedupe cache passes over a fact only after one of its
   copies was handed to the sink.  Whether that copy is stored is the sink's affair. *)
NoSilentLoss ==
    \A fact \in passed :
        \/ fact \in stored \cup failed
        \/ \E w \in Workers : worker[w].state = "sinking" /\ Head(worker[w].items) = fact

(* A call of stop() returns.  It need not: see StopEndsIfSinkReturns and DrainBounded. *)
StopEnds == stopPhase = "settling" ~> stopPhase = "stopped"

(* A call of stop() returns if the sink always does, even with submitters waiting for
   space: they enqueue, the workers drain, and cancellation ends every worker. *)
StopEndsIfSinkReturns ==
    (\A w \in Workers : []<>(worker[w].state # "sinking")) => StopEnds

(* Once no submitter waits, stop() returns even if the sink never does: the drain
   deadline bounds it. *)
DrainBounded == stopPhase # "idle" /\ NoneBlocked ~> stopPhase = "stopped"
=============================================================================
