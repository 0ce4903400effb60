------------------------ MODULE PassivePipelineProofs ------------------------
(***************************************************************************)
(* The passive pipeline accounts for every frame and every fact, for any   *)
(* number of workers, submitters and frames and any queue size.            *)
(***************************************************************************)
EXTENDS PassivePipeline, FiniteSetTheorems, TLAPS

(* What the progress of stop() says about the rest of the pipeline. *)
StopInv ==
    /\ stopPhase # "idle" => ~accepting
    /\ stopPhase \notin {"idle", "settling"} => NoneBlocked
    /\ stopPhase = "stopped" => queue = <<>> /\ \A w \in Workers : worker[w].state = "absent"
    /\ \A w \in Workers : worker[w].state \in {"absent", "idle"} => worker[w].items = <<>>
    /\ ~accepting /\ stopPhase = "idle" => \A w \in Workers : worker[w].state = "absent"

(* A fingerprint in the dedupe cache belongs to a fact some worker went over. *)
FactInv == seen \subseteq passed /\ NoSilentLoss

FrameInv == TypeOK /\ StopInv /\ UnfinishedMatches /\ FramesAccounted

(* Finitely many frames are in flight. *)
LEMMA InFlightFinite == IsFiniteSet(InFlight) /\ Cardinality(InFlight) \in Nat
  <1>1. InFlight \subseteq Workers
    BY DEF InFlight
  <1> QED BY <1>1, PipelineAssumption, FS_Subset, FS_CardinalityType

(* How one worker's change of state changes the number in flight. *)
LEMMA InFlightChange ==
  ASSUME NEW w \in Workers, NEW st, worker'[w].state = st,
         \A v \in Workers : v # w => worker'[v] = worker[v]
  PROVE  /\ w \in InFlight /\ st \in {"handling", "sinking"} => InFlight' = InFlight
         /\ w \notin InFlight /\ st \notin {"handling", "sinking"} => InFlight' = InFlight
         /\ w \notin InFlight /\ st \in {"handling", "sinking"} =>
               Cardinality(InFlight') = Cardinality(InFlight) + 1
         /\ w \in InFlight /\ st \notin {"handling", "sinking"} =>
               Cardinality(InFlight') = Cardinality(InFlight) - 1
  <1>1. InFlight' = IF st \in {"handling", "sinking"} THEN InFlight \cup {w}
                                                          ELSE InFlight \ {w}
    BY DEF InFlight
  <1>2. /\ Cardinality(InFlight \cup {w}) = IF w \in InFlight THEN Cardinality(InFlight)
                                                            ELSE Cardinality(InFlight) + 1
        /\ Cardinality(InFlight \ {w}) = IF w \in InFlight THEN Cardinality(InFlight) - 1
                                                          ELSE Cardinality(InFlight)
    BY InFlightFinite, FS_AddElement, FS_RemoveElement
  <1>3. w \in InFlight => InFlight \cup {w} = InFlight
    OBVIOUS
  <1>4. w \notin InFlight => InFlight \ {w} = InFlight
    OBVIOUS
  <1>5. CASE st \in {"handling", "sinking"}
    <2>1. InFlight' = InFlight \cup {w}
      BY <1>1, <1>5
    <2> QED BY <1>2, <1>3, <1>5, <2>1
  <1>6. CASE st \notin {"handling", "sinking"}
    <2>1. InFlight' = InFlight \ {w}
      BY <1>1, <1>6
    <2> QED BY <1>2, <1>4, <1>6, <2>1
  <1> QED BY <1>5, <1>6

(* The pipeline starts empty, with no frame or fact to account for. *)
LEMMA FrameInit == Init => FrameInv /\ FactInv
  <1> SUFFICES ASSUME Init PROVE FrameInv /\ FactInv
    OBVIOUS
  <1>1. InFlight = {}
    BY DEF Init, InFlight, Absent
  <1>2. Cardinality(InFlight) = 0
    BY <1>1, FS_EmptySet
  <1>3. TypeOK
    <2>1. <<>> \in Seq(Frames) /\ <<>> \in Seq(Facts \cup {Malformed}) /\ Len(<<>>) = 0
      OBVIOUS
    <2>2. worker \in [Workers -> [state : {"absent", "idle", "handling", "sinking"},
                                  items : Seq(Facts \cup {Malformed})]]
      BY <2>1 DEF Init, Absent
    <2>3. \A w \in Workers : worker[w].state = "absent"
      BY DEF Init, Absent
    <2>4. blocked \in [Submitters -> Frames \cup {NoFrame}]
      BY DEF Init
    <2>5. queue \in Seq(Frames) /\ Len(queue) <= QueueSize
      BY <2>1, PipelineAssumption DEF Init
    <2>6. accepting \in BOOLEAN
      BY DEF Init
    <2>7. /\ unfinished \in Nat /\ offered \in 0 .. MaxFrames /\ refused \in Nat
          /\ submitted \in Nat /\ processed \in Nat /\ incomplete \in Nat
      BY PipelineAssumption DEF Init
    <2>8. stopPhase \in {"idle", "settling", "joining", "aborting", "stopped"}
      BY DEF Init
    <2>9. seen \subseteq Facts /\ passed \subseteq Facts /\ stored \subseteq Facts
          /\ failed \subseteq Facts
      BY DEF Init
    <2> QED BY <2>2, <2>3, <2>4, <2>5, <2>6, <2>7, <2>8, <2>9 DEF TypeOK
  <1>4. StopInv
    BY DEF Init, StopInv, Absent, NoneBlocked
  <1>5. UnfinishedMatches /\ FramesAccounted
    BY <1>2 DEF Init, UnfinishedMatches, FramesAccounted, Running
  <1>6. FactInv
    BY DEF Init, FactInv, NoSilentLoss
  <1> QED BY <1>3, <1>4, <1>5, <1>6 DEF FrameInv

(* A frame that is put raises queue, unfinished and submitted together. *)
LEMMA EnqueueStep ==
  ASSUME FrameInv, NEW f \in Frames, ~Full, Enqueue(f), worker' = worker,
         stopPhase' = stopPhase, stopPhase \in {"idle", "settling"},
         processed' = processed, incomplete' = incomplete
  PROVE  /\ queue' \in Seq(Frames) /\ Len(queue') <= QueueSize
         /\ unfinished' \in Nat /\ submitted' \in Nat
         /\ UnfinishedMatches' /\ FramesAccounted'
  <1>1. queue \in Seq(Frames) /\ unfinished \in Nat /\ submitted \in Nat
    BY DEF FrameInv, TypeOK
  <1>2. queue' \in Seq(Frames) /\ Len(queue') = Len(queue) + 1
    BY <1>1 DEF Enqueue
  <1>3. Len(queue') <= QueueSize
    BY <1>1, <1>2, PipelineAssumption DEF Full
  <1>4. InFlight' = InFlight /\ Running' /\ Running
    BY DEF InFlight, Running
  <1>5. UnfinishedMatches' /\ FramesAccounted'
    <2>1. /\ unfinished' = unfinished + 1 /\ submitted' = submitted + 1
          /\ Cardinality(InFlight') = Cardinality(InFlight)
          /\ Len(queue) \in Nat /\ Cardinality(InFlight) \in Nat
          /\ processed \in Nat /\ incomplete = 0
      BY <1>1, <1>4, InFlightFinite DEF Enqueue, FrameInv, TypeOK, FramesAccounted
    <2>2. /\ unfinished = Len(queue) + Cardinality(InFlight)
          /\ submitted = processed + Len(queue) + Cardinality(InFlight)
      BY <1>4 DEF FrameInv, UnfinishedMatches, FramesAccounted
    <2>3. unfinished' = Len(queue') + Cardinality(InFlight')
      BY <1>2, <2>1, <2>2
    <2>4. submitted' = processed' + Len(queue') + Cardinality(InFlight') /\ incomplete' = 0
      BY <1>2, <2>1, <2>2
    <2> QED BY <1>4, <2>3, <2>4 DEF UnfinishedMatches, FramesAccounted
  <1> QED BY <1>1, <1>2, <1>3, <1>5 DEF Enqueue

(* Frames enter the pipeline. *)
LEMMA FrameIntakeStep ==
  ASSUME FrameInv,
         \/ RefuseFrame \/ SubmitNowait
         \/ \E s \in Submitters : Submit(s) \/ SubmitResumes(s) \/ SubmitCancelled(s)
  PROVE  FrameInv'
  <1> USE PipelineAssumption
  <1>0. TypeOK /\ StopInv
    BY DEF FrameInv
  <1> DEFINE Put == \E f \in Frames : ~Full /\ Enqueue(f)
             Kept == UNCHANGED <<queue, unfinished, submitted>>
             Rest == /\ worker' = worker /\ stopPhase' = stopPhase /\ accepting' = accepting
                     /\ processed' = processed /\ incomplete' = incomplete
                     /\ UNCHANGED facts
                     /\ offered' \in 0 .. MaxFrames /\ refused' \in Nat
                     /\ blocked' \in [Submitters -> Frames \cup {NoFrame}]
  <1>1. ASSUME Rest, Put \/ Kept, Put => stopPhase \in {"idle", "settling"},
               stopPhase \notin {"idle", "settling"} => NoneBlocked'
        PROVE  FrameInv'
    <2>1. /\ queue' \in Seq(Frames) /\ Len(queue') <= QueueSize
          /\ unfinished' \in Nat /\ submitted' \in Nat
          /\ UnfinishedMatches' /\ FramesAccounted'
      <3>1. CASE Put
        BY <1>1, <3>1, EnqueueStep
      <3>2. CASE Kept
        BY <1>0, <1>1, <3>2
           DEF FrameInv, TypeOK, UnfinishedMatches, FramesAccounted, InFlight, Running
      <3> QED BY <1>1, <3>1, <3>2
    <2>2. TypeOK'
      BY <1>0, <1>1, <2>1 DEF TypeOK, facts
    <2>3. StopInv'
      <3>1. stopPhase = "stopped" => queue' = queue
        BY <1>1
      <3> QED BY <1>0, <1>1, <3>1 DEF StopInv
    <2> QED BY <2>1, <2>2, <2>3 DEF FrameInv
  <1>2. Offer => stopPhase \in {"idle", "settling"} /\ offered' \in 0 .. MaxFrames
    BY <1>0 DEF Offer, StopInv, TypeOK
  <1>3. CASE RefuseFrame
    BY <1>0, <1>1, <1>2, <1>3 DEF RefuseFrame, TypeOK, StopInv, NoneBlocked
  <1>4. CASE SubmitNowait
    BY <1>0, <1>1, <1>2, <1>4 DEF SubmitNowait, TypeOK, StopInv, NoneBlocked
  <1>5. ASSUME NEW s \in Submitters, Submit(s) PROVE FrameInv'
    <2>1. Rest /\ (Put \/ Kept) /\ stopPhase \in {"idle", "settling"}
      BY <1>0, <1>2, <1>5 DEF Submit, TypeOK
    <2> QED BY <1>1, <2>1
  <1>6. ASSUME NEW s \in Submitters, SubmitResumes(s) PROVE FrameInv'
    <2>1. blocked[s] \in Frames /\ stopPhase \in {"idle", "settling"}
      BY <1>0, <1>6 DEF SubmitResumes, TypeOK, StopInv, NoneBlocked
    <2>2. Rest /\ Put
      BY <1>0, <1>6, <2>1 DEF SubmitResumes, TypeOK
    <2> QED BY <1>1, <2>1, <2>2
  <1>7. ASSUME NEW s \in Submitters, SubmitCancelled(s) PROVE FrameInv'
    <2>1. Rest /\ Kept
      BY <1>0, <1>7 DEF SubmitCancelled, TypeOK
    <2>2. stopPhase \notin {"idle", "settling"} => NoneBlocked'
      BY <1>0, <1>7 DEF SubmitCancelled, StopInv, NoneBlocked
    <2>3. Put => stopPhase \in {"idle", "settling"}
      BY <1>0, <1>7 DEF SubmitCancelled, StopInv, NoneBlocked
    <2> QED BY <1>1, <2>1, <2>2, <2>3
  <1> QED BY <1>3, <1>4, <1>5, <1>6, <1>7

(* The record a worker is set to has the type of a worker. *)
LEMMA SetType ==
  ASSUME TypeOK, NEW w \in Workers, NEW state \in {"idle", "handling", "sinking"},
         NEW items \in Seq(Facts \cup {Malformed}), Set(w, state, items),
         state = "sinking" => items # <<>> /\ Head(items) \in Facts
  PROVE  /\ worker' \in [Workers -> [state : {"absent", "idle", "handling", "sinking"},
                                     items : Seq(Facts \cup {Malformed})]]
         /\ \A v \in Workers : worker'[v].state = "sinking" =>
               worker'[v].items # <<>> /\ Head(worker'[v].items) \in Facts
         /\ worker'[w] = [state |-> state, items |-> items]
         /\ \A v \in Workers : v # w => worker'[v] = worker[v]
  BY DEF TypeOK, Set

(* Frames leave the queue and are handled. *)
LEMMA FrameWorkerStep ==
  ASSUME FrameInv, NEW w \in Workers,
         GetFrame(w) \/ SkipMalformed(w) \/ CheckFact(w) \/ SinkReturns(w) \/ FrameDone(w)
  PROVE  FrameInv'
  <1> USE PipelineAssumption
  <1>0. TypeOK /\ StopInv /\ UnfinishedMatches /\ FramesAccounted
    BY DEF FrameInv
  <1>1. /\ Running /\ Running' /\ stopPhase' = stopPhase /\ UNCHANGED intake
        /\ incomplete' = incomplete
        /\ worker[w].state # "absent"
    BY DEF GetFrame, SkipMalformed, CheckFact, SinkReturns, FrameDone, Running
  <1>2. /\ Cardinality(InFlight) \in Nat /\ Len(queue) \in Nat /\ unfinished \in Nat
        /\ processed \in Nat /\ submitted \in Nat /\ incomplete = 0
        /\ unfinished = Len(queue) + Cardinality(InFlight)
        /\ submitted = processed + Len(queue) + Cardinality(InFlight)
    BY <1>0, <1>1, InFlightFinite DEF TypeOK, UnfinishedMatches, FramesAccounted
  <1>3. /\ seen' \subseteq Facts /\ passed' \subseteq Facts
        /\ stored' \subseteq Facts /\ failed' \subseteq Facts
    <2>1. worker[w].items # <<>> => Head(worker[w].items) \in Facts \cup {Malformed}
      BY <1>0 DEF TypeOK
    <2>2. CASE CheckFact(w)
      BY <1>0, <2>1, <2>2 DEF CheckFact, TypeOK
    <2>3. CASE SinkReturns(w)
      BY <1>0, <2>3 DEF SinkReturns, TypeOK
    <2> QED BY <1>0, <2>2, <2>3 DEF TypeOK, GetFrame, SkipMalformed, FrameDone, facts
  <1>4. ASSUME NEW state \in {"idle", "handling", "sinking"},
               NEW items \in Seq(Facts \cup {Malformed}), Set(w, state, items),
               state = "sinking" => items # <<>> /\ Head(items) \in Facts,
               state = "idle" => items = <<>>,
               queue' \in Seq(Frames), Len(queue') <= QueueSize,
               unfinished' \in Nat, processed' \in Nat,
               unfinished' = Len(queue') + Cardinality(InFlight'),
               submitted = processed' + Len(queue') + Cardinality(InFlight')
        PROVE  FrameInv'
    <2>1. /\ worker' \in [Workers -> [state : {"absent", "idle", "handling", "sinking"},
                                      items : Seq(Facts \cup {Malformed})]]
          /\ \A v \in Workers : worker'[v].state = "sinking" =>
                worker'[v].items # <<>> /\ Head(worker'[v].items) \in Facts
          /\ worker'[w] = [state |-> state, items |-> items]
          /\ \A v \in Workers : v # w => worker'[v] = worker[v]
      BY <1>0, <1>4, SetType
    <2>2. TypeOK'
      BY <1>0, <1>1, <1>3, <1>4, <2>1 DEF TypeOK, intake
    <2>3. StopInv'
      <3>1. stopPhase # "stopped" /\ ~(~accepting /\ stopPhase = "idle")
        BY <1>0, <1>1 DEF Running, StopInv
      <3>2. accepting' = accepting /\ blocked' = blocked
        BY <1>1 DEF intake
      <3>3. \A v \in Workers : worker'[v].state \in {"absent", "idle"} => worker'[v].items = <<>>
        <4>1. \A v \in Workers : worker[v].state \in {"absent", "idle"} => worker[v].items = <<>>
          BY <1>0 DEF StopInv
        <4>2. worker'[w].state = state /\ worker'[w].items = items
          BY <2>1
        <4>3. worker'[w].state \in {"absent", "idle"} => worker'[w].items = <<>>
          BY <1>4, <4>2
        <4>4. \A v \in Workers : v # w => worker'[v] = worker[v]
          BY <2>1
        <4> QED BY <4>1, <4>3, <4>4
      <3> QED BY <1>0, <1>1, <3>1, <3>2, <3>3 DEF StopInv, NoneBlocked
    <2>4. submitted' = submitted /\ incomplete' = 0
      BY <1>1, <1>2 DEF intake
    <2>5. UnfinishedMatches' /\ FramesAccounted'
      BY <1>1, <1>4, <2>4 DEF UnfinishedMatches, FramesAccounted
    <2> QED BY <2>2, <2>3, <2>5 DEF FrameInv
  <1>5. CASE GetFrame(w)
    <2>1. /\ queue \in Seq(Frames) /\ queue # <<>>
          /\ Head(queue) \in Frames /\ Tail(queue) \in Seq(Frames)
          /\ Len(Tail(queue)) = Len(queue) - 1
      BY <1>0, <1>5 DEF GetFrame, TypeOK
    <2>2. Head(queue) \in Seq(Facts \cup {Malformed})
      BY <2>1
    <2>3. w \notin InFlight
      BY <1>5 DEF GetFrame, InFlight
    <2>4. Cardinality(InFlight') = Cardinality(InFlight) + 1
      <3>1. worker'[w].state = "handling" /\ \A v \in Workers : v # w => worker'[v] = worker[v]
        BY <1>0, <1>5 DEF GetFrame, Set, TypeOK
      <3> QED BY <2>3, <3>1, InFlightChange
    <2>5. /\ queue' = Tail(queue) /\ unfinished' = unfinished /\ processed' = processed
          /\ Set(w, "handling", Head(queue)) /\ Len(queue) <= QueueSize
      BY <1>0, <1>5 DEF GetFrame, TypeOK
    <2>6. Len(queue') = Len(queue) - 1
      BY <2>1, <2>5
    <2>7. /\ Len(queue') <= QueueSize
          /\ unfinished' = Len(queue') + Cardinality(InFlight')
          /\ submitted = processed' + Len(queue') + Cardinality(InFlight')
      <3>1. unfinished' = Len(queue') + Cardinality(InFlight')
        BY <1>2, <2>4, <2>5, <2>6
      <3>2. submitted = processed' + Len(queue') + Cardinality(InFlight')
        <4>1. /\ submitted = processed + Len(queue) + Cardinality(InFlight)
              /\ processed \in Nat /\ Len(queue) \in Nat /\ Cardinality(InFlight) \in Nat
          BY <1>2
        <4>2. /\ processed' = processed /\ Len(queue') = Len(queue) - 1
              /\ Cardinality(InFlight') = Cardinality(InFlight) + 1
          BY <2>4, <2>5, <2>6
        <4> QED BY <4>1, <4>2, SMTT(30)
      <3>3. Len(queue') <= QueueSize
        BY <1>2, <2>5, <2>6
      <3> QED BY <3>1, <3>2, <3>3
    <2> QED BY <1>2, <1>4, <2>1, <2>2, <2>5, <2>7
  <1>6. CASE SkipMalformed(w) \/ CheckFact(w) \/ SinkReturns(w)
    <2>1. /\ queue' = queue /\ unfinished' = unfinished /\ processed' = processed
          /\ w \in InFlight /\ worker[w].items # <<>>
          /\ worker[w].items \in Seq(Facts \cup {Malformed})
      BY <1>0, <1>6 DEF SkipMalformed, CheckFact, SinkReturns, InFlight, TypeOK
    <2>2. Tail(worker[w].items) \in Seq(Facts \cup {Malformed})
      BY <2>1
    <2>3. \/ Set(w, "handling", Tail(worker[w].items))
          \/ Set(w, "sinking", worker[w].items) /\ Head(worker[w].items) \in Facts
      <3>1. Head(worker[w].items) \in Facts \cup {Malformed}
        BY <2>1
      <3> QED BY <1>6, <3>1 DEF SkipMalformed, CheckFact, SinkReturns
    <2>4. InFlight' = InFlight
      <3>1. /\ worker'[w].state \in {"handling", "sinking"}
            /\ \A v \in Workers : v # w => worker'[v] = worker[v]
        BY <1>0, <2>3 DEF Set, TypeOK
      <3> QED BY <2>1, <3>1, InFlightChange
    <2>5. queue \in Seq(Frames) /\ Len(queue) <= QueueSize
      BY <1>0 DEF TypeOK
    <2>6. CASE Set(w, "handling", Tail(worker[w].items))
      BY <1>2, <1>4, <2>1, <2>2, <2>4, <2>5, <2>6
    <2>7. CASE Set(w, "sinking", worker[w].items) /\ Head(worker[w].items) \in Facts
      BY <1>2, <1>4, <2>1, <2>4, <2>5, <2>7
    <2> QED BY <2>3, <2>6, <2>7
  <1>7. CASE FrameDone(w)
    <2>1. /\ queue' = queue /\ unfinished' = unfinished - 1 /\ processed' = processed + 1
          /\ w \in InFlight /\ Set(w, "idle", <<>>)
      BY <1>7 DEF FrameDone, InFlight
    <2>2. Cardinality(InFlight') = Cardinality(InFlight) - 1
      <3>1. worker'[w].state = "idle" /\ \A v \in Workers : v # w => worker'[v] = worker[v]
        BY <1>0, <2>1 DEF Set, TypeOK
      <3> QED BY <2>1, <3>1, InFlightChange
    <2>3. Cardinality(InFlight) >= 1
      BY <2>1, InFlightFinite, FS_EmptySet
    <2>4. queue \in Seq(Frames) /\ Len(queue) <= QueueSize
      BY <1>0 DEF TypeOK
    <2>5. <<>> \in Seq(Facts \cup {Malformed})
      OBVIOUS
    <2>6. /\ unfinished' \in Nat /\ processed' \in Nat
          /\ unfinished' = Len(queue') + Cardinality(InFlight')
          /\ submitted = processed' + Len(queue') + Cardinality(InFlight')
      BY <1>2, <2>1, <2>2, <2>3
    <2> QED BY <1>4, <2>1, <2>4, <2>5, <2>6
  <1> QED BY <1>5, <1>6, <1>7

(* Starting, stopping, forgetting a fingerprint. *)
LEMMA FrameStopStep ==
  ASSUME FrameInv,
         \/ Start \/ Stop \/ StopStep
         \/ \E w \in Workers : WorkerCancelled(w)
         \/ \E fact \in Facts : Forget(fact)
  PROVE  FrameInv'
  <1> USE PipelineAssumption
  <1>0. TypeOK /\ StopInv /\ UnfinishedMatches /\ FramesAccounted
    BY DEF FrameInv
  <1>2. /\ Cardinality(InFlight) \in Nat /\ Len(queue) \in Nat /\ unfinished \in Nat
        /\ processed \in Nat /\ submitted \in Nat /\ incomplete \in Nat
        /\ unfinished = Len(queue) + Cardinality(InFlight)
    BY <1>0, InFlightFinite DEF TypeOK, UnfinishedMatches
  <1>3. CASE Start
    <2>1. /\ <<>> \in Seq(Facts \cup {Malformed})
          /\ worker' = [w \in Workers |-> [state |-> "idle", items |-> <<>>]]
      BY <1>3 DEF Start, Idle
    <2>2. InFlight' = {} /\ InFlight = {}
      BY <1>0, <1>3, <2>1 DEF Start, InFlight, StopInv
    <2>3. TypeOK'
      <3>1. /\ worker' \in [Workers -> [state : {"absent", "idle", "handling", "sinking"},
                                        items : Seq(Facts \cup {Malformed})]]
            /\ \A w \in Workers : worker'[w].state # "sinking"
        BY <2>1
      <3>2. accepting' \in BOOLEAN
        BY <1>3 DEF Start
      <3> QED BY <1>0, <1>3, <3>1, <3>2 DEF Start, TypeOK, facts
    <2>4. StopInv'
      BY <1>0, <1>3, <2>1 DEF Start, StopInv, NoneBlocked
    <2> QED BY <1>0, <1>3, <2>2, <2>3, <2>4
            DEF Start, FrameInv, UnfinishedMatches, FramesAccounted, Running
  <1>4. CASE Stop \/ SubmittersSettled \/ \E fact \in Facts : Forget(fact)
    <2>1. /\ UNCHANGED <<queue, unfinished, worker, blocked, offered, refused, submitted,
                         processed, incomplete, passed, stored, failed>>
          /\ seen' \subseteq Facts /\ accepting' \in BOOLEAN
          /\ stopPhase' \in {"idle", "settling", "joining", "aborting", "stopped"}
      BY <1>0, <1>4 DEF Stop, SubmittersSettled, Forget, facts, intake, TypeOK
    <2>2. TypeOK'
      BY <1>0, <2>1 DEF TypeOK
    <2>3. StopInv'
      BY <1>0, <1>4, <2>1 DEF Stop, SubmittersSettled, Forget, intake, StopInv, NoneBlocked
    <2>4. (Running' /\ Running) \/ (stopPhase' = stopPhase)
      BY <1>4 DEF Stop, SubmittersSettled, Forget, Running
    <2>5. InFlight' = InFlight
      BY <2>1 DEF InFlight
    <2> QED BY <1>0, <2>1, <2>2, <2>3, <2>4, <2>5
            DEF FrameInv, UnfinishedMatches, FramesAccounted, Running
  <1>5. CASE Joined \/ DrainTimeout
    <2>1. /\ UNCHANGED <<accepting, queue, unfinished, worker, blocked, offered, refused,
                         submitted, processed, seen, passed, stored, failed>>
          /\ stopPhase = "joining" /\ stopPhase' = "aborting"
      BY <1>5 DEF Joined, DrainTimeout, intake, facts
    <2>2. submitted = processed + Len(queue) + Cardinality(InFlight) /\ incomplete = 0
      BY <1>0, <2>1 DEF FramesAccounted, Running
    <2>3. incomplete' = Len(queue) + Cardinality(InFlight)
      BY <1>2, <1>5, <2>2 DEF Joined, DrainTimeout
    <2>4. TypeOK'
      BY <1>0, <1>2, <2>1, <2>3 DEF TypeOK
    <2>5. StopInv'
      BY <1>0, <2>1 DEF StopInv, NoneBlocked
    <2>6. InFlight' = InFlight
      BY <2>1 DEF InFlight
    <2>7. submitted' = processed' + incomplete' /\ ~Running'
      BY <1>2, <2>1, <2>2, <2>3 DEF Running
    <2> QED BY <1>0, <2>1, <2>4, <2>5, <2>6, <2>7
            DEF FrameInv, UnfinishedMatches, FramesAccounted
  <1>6. ASSUME NEW w \in Workers, WorkerCancelled(w) PROVE FrameInv'
    <2>1. /\ UNCHANGED <<accepting, stopPhase, queue, blocked, offered, refused, submitted,
                         processed, incomplete, seen, passed, stored>>
          /\ stopPhase = "aborting"
          /\ worker' = [worker EXCEPT ![w] = [state |-> "absent", items |-> <<>>]]
      BY <1>6 DEF WorkerCancelled, intake, Absent
    <2>2. <<>> \in Seq(Facts \cup {Malformed})
      OBVIOUS
    <2>3. failed' \subseteq Facts
      BY <1>0, <1>6 DEF WorkerCancelled, TypeOK
    <2>5. /\ worker' \in [Workers -> [state : {"absent", "idle", "handling", "sinking"},
                                      items : Seq(Facts \cup {Malformed})]]
          /\ \A v \in Workers : v # w => worker'[v] = worker[v]
          /\ worker'[w].state = "absent" /\ worker'[w].items = <<>>
      BY <1>0, <2>1, <2>2 DEF TypeOK
    <2>4. unfinished' = Len(queue) + Cardinality(InFlight') /\ unfinished' \in Nat
      <3>1. CASE w \in InFlight
        <4>1. Cardinality(InFlight') = Cardinality(InFlight) - 1
          BY <2>5, <3>1, InFlightChange
        <4>2. Cardinality(InFlight) >= 1
          BY <3>1, InFlightFinite, FS_EmptySet
        <4>3. unfinished' = unfinished - 1
          BY <1>6, <3>1 DEF WorkerCancelled
        <4> QED BY <1>2, <4>1, <4>2, <4>3
      <3>2. CASE w \notin InFlight
        <4>1. InFlight' = InFlight
          BY <2>5, <3>2, InFlightChange
        <4> QED BY <1>2, <1>6, <3>2, <4>1 DEF WorkerCancelled
      <3> QED BY <3>1, <3>2
    <2>6. TypeOK'
      BY <1>0, <2>1, <2>3, <2>4, <2>5 DEF TypeOK
    <2>7. StopInv'
      BY <1>0, <2>1, <2>5 DEF StopInv, NoneBlocked
    <2> QED BY <1>0, <2>1, <2>4, <2>6, <2>7
            DEF FrameInv, UnfinishedMatches, FramesAccounted, Running
  <1>7. CASE ReleaseQueue
    <2>1. /\ UNCHANGED <<accepting, worker, blocked, offered, refused, submitted, processed,
                         incomplete, seen, passed, stored, failed>>
          /\ stopPhase = "aborting" /\ stopPhase' = "stopped" /\ queue' = <<>>
          /\ unfinished' = unfinished - Len(queue)
          /\ \A w \in Workers : worker[w].state = "absent"
      BY <1>7 DEF ReleaseQueue, intake, facts
    <2>2. InFlight = {} /\ InFlight' = {}
      BY <2>1 DEF InFlight
    <2>3. <<>> \in Seq(Frames) /\ Len(<<>>) = 0
      OBVIOUS
    <2>4. Cardinality(InFlight) = 0 /\ Cardinality(InFlight') = 0
      BY <2>2, FS_EmptySet
    <2>5. unfinished' = 0 /\ Len(queue') = 0 /\ queue' \in Seq(Frames)
      BY <1>2, <2>1, <2>3, <2>4
    <2>6. TypeOK'
      BY <1>0, <2>1, <2>5 DEF TypeOK
    <2>7. StopInv'
      BY <1>0, <2>1 DEF StopInv, NoneBlocked
    <2>8. UnfinishedMatches'
      BY <2>4, <2>5 DEF UnfinishedMatches
    <2>9. FramesAccounted'
      BY <1>0, <2>1 DEF FramesAccounted, Running
    <2> QED BY <2>6, <2>7, <2>8, <2>9 DEF FrameInv
  <1> QED BY <1>3, <1>4, <1>5, <1>6, <1>7 DEF StopStep

(* The frame accounting holds from construction until after stop(). *)
LEMMA FrameInvariant == Spec => []FrameInv
  <1>1. FrameInv /\ [Next]_vars => FrameInv'
    <2> SUFFICES ASSUME FrameInv, [Next]_vars PROVE FrameInv'
      OBVIOUS
    <2>1. CASE UNCHANGED vars
      BY <2>1 DEF vars, FrameInv, TypeOK, StopInv, UnfinishedMatches, FramesAccounted,
             InFlight, NoneBlocked, Running
    <2> QED BY <2>1, FrameIntakeStep, FrameWorkerStep, FrameStopStep DEF Next, Step
  <1> QED BY <1>1, FrameInit, PTL DEF Spec

(* Every variable keeps its type; in particular the queue never exceeds its bound. *)
THEOREM PipelineTypeCorrect == Spec => []TypeOK
  BY FrameInvariant, PTL DEF FrameInv

(* Every submitted frame is processed, queued, in flight or counted incomplete once. *)
THEOREM EveryFrameAccounted == Spec => []FramesAccounted
  BY FrameInvariant, PTL DEF FrameInv

(* task_done is called exactly once per frame, so join() neither hangs nor returns early. *)
THEOREM JoinIsExact == Spec => []UnfinishedMatches
  BY FrameInvariant, PTL DEF FrameInv

(* What stop() reports of the frames and what join() waits for are both exact. *)
THEOREM CountsAreExact == Spec => []CountsExact
  BY EveryFrameAccounted, JoinIsExact, PTL DEF CountsExact

(* stop() leaves no frame, worker or submitter behind. *)
THEOREM StopLeavesQuiet == Spec => []StoppedIsQuiet
  <1>1. FrameInv => StoppedIsQuiet
    <2> SUFFICES ASSUME FrameInv, stopPhase = "stopped" PROVE
             /\ queue = <<>> /\ unfinished = 0 /\ NoneBlocked
             /\ \A w \in Workers : worker[w] = Absent
      BY DEF StoppedIsQuiet
    <2>1. /\ queue = <<>> /\ NoneBlocked
          /\ \A w \in Workers : worker[w].state = "absent" /\ worker[w].items = <<>>
      BY DEF FrameInv, StopInv
    <2>2. \A w \in Workers : worker[w] = Absent
      BY <2>1 DEF FrameInv, TypeOK, Absent
    <2>3. InFlight = {}
      BY <2>1 DEF InFlight
    <2>4. unfinished = 0
      BY <2>1, <2>3, FS_EmptySet DEF FrameInv, UnfinishedMatches
    <2> QED BY <2>1, <2>2, <2>4
  <1> QED BY <1>1, FrameInvariant, PTL

(* A fact is passed over as a duplicate only after it was handed to the sink. *)
THEOREM NoFactVanishes == Spec => []NoSilentLoss
  <1>1. FrameInv /\ FactInv /\ [Next]_vars => FactInv'
    <2> SUFFICES ASSUME FrameInv, FactInv, [Next]_vars PROVE FactInv'
      OBVIOUS
    <2>0. TypeOK /\ seen \subseteq passed
      BY DEF FrameInv, FactInv
    <2> DEFINE Sinking(w, fact) == worker[w].state = "sinking" /\ Head(worker[w].items) = fact
    <2>1. ASSUME seen' \subseteq seen, passed' = passed, stored \subseteq stored',
                 failed \subseteq failed',
                 \A v \in Workers, fact \in Facts :
                     Sinking(v, fact) => Sinking(v, fact)' \/ fact \in stored' \cup failed'
          PROVE  FactInv'
      BY <2>0, <2>1 DEF FactInv, NoSilentLoss, TypeOK
    <2>2. ASSUME NEW w \in Workers, CheckFact(w) PROVE FactInv'
      <3>0. PICK fact : fact = Head(worker[w].items)
        OBVIOUS
      <3>1. /\ passed' = passed \cup {fact} /\ stored' = stored /\ failed' = failed
            /\ seen' \subseteq seen \cup {fact} /\ worker[w].state = "handling"
        BY <2>2, <3>0 DEF CheckFact
      <3>2. \A v \in Workers : v # w => worker'[v] = worker[v]
        BY <2>0, <2>2 DEF CheckFact, Set, TypeOK
      <3>3. fact \in passed \/ Sinking(w, fact)'
        BY <2>0, <2>2, <3>0 DEF CheckFact, Set, TypeOK
      <3>4. ASSUME NEW g \in passed
            PROVE  \/ g \in stored' \cup failed'
                   \/ \E v \in Workers : Sinking(v, g)'
        <4>1. CASE g \in stored \cup failed
          BY <3>1, <4>1
        <4>2. CASE \E v \in Workers : Sinking(v, g)
          <5>1. PICK v \in Workers : Sinking(v, g)
            BY <4>2
          <5>2. v # w
            BY <3>1, <5>1
          <5> QED BY <3>2, <5>1, <5>2
        <4> QED BY <4>1, <4>2 DEF FactInv, NoSilentLoss
      <3>5. \A g \in passed' : g \in passed \/ g = fact
        BY <3>1
      <3>6. NoSilentLoss'
        <4> SUFFICES ASSUME NEW g \in passed'
                     PROVE  g \in stored' \cup failed' \/ \E v \in Workers : Sinking(v, g)'
          BY Zenon DEF NoSilentLoss
        <4>1. CASE g \in passed
          BY <3>4, <4>1
        <4>2. CASE g \notin passed
          <5>1. g = fact
            BY <3>5, <4>2
          <5>2. Sinking(w, fact)'
            BY <3>3, <4>2, <5>1
          <5> QED BY <5>1, <5>2
        <4> QED BY <4>1, <4>2
      <3> QED BY <2>0, <3>1, <3>6 DEF FactInv
    <2>3. ASSUME NEW w \in Workers, SinkReturns(w) PROVE FactInv'
      <3>1. /\ seen' = seen /\ passed' = passed
            /\ stored \subseteq stored' /\ failed \subseteq failed'
            /\ Head(worker[w].items) \in stored' \cup failed'
        BY <2>3 DEF SinkReturns
      <3>2. \A v \in Workers : v # w => worker'[v] = worker[v]
        BY <2>0, <2>3 DEF SinkReturns, Set, TypeOK
      <3> QED BY <2>1, <3>1, <3>2
    <2>4. ASSUME NEW w \in Workers, WorkerCancelled(w) PROVE FactInv'
      <3>1. /\ seen' = seen /\ passed' = passed /\ stored' = stored
            /\ failed \subseteq failed'
            /\ worker[w].state = "sinking" => Head(worker[w].items) \in failed'
        BY <2>4 DEF WorkerCancelled
      <3>2. \A v \in Workers : v # w => worker'[v] = worker[v]
        BY <2>0, <2>4 DEF WorkerCancelled, TypeOK
      <3> QED BY <2>1, <3>1, <3>2
    <2>5. ASSUME NEW w \in Workers, GetFrame(w) \/ SkipMalformed(w) \/ FrameDone(w)
          PROVE  FactInv'
      <3>1. UNCHANGED facts /\ worker[w].state # "sinking"
        BY <2>5 DEF GetFrame, SkipMalformed, FrameDone
      <3>2. \A v \in Workers : v # w => worker'[v] = worker[v]
        BY <2>0, <2>5 DEF GetFrame, SkipMalformed, FrameDone, Set, TypeOK
      <3> QED BY <2>1, <3>1, <3>2 DEF facts
    <2>6. CASE Start
      <3>1. \A w \in Workers : worker[w].state = "absent"
        BY <2>6 DEF Start, FrameInv, StopInv
      <3> QED BY <2>1, <2>6, <3>1 DEF Start, facts
    <2>7. CASE \E fact \in Facts : Forget(fact)
      BY <2>1, <2>7 DEF Forget
    <2>8. CASE \/ Stop \/ RefuseFrame \/ SubmitNowait \/ StopStep \/ UNCHANGED vars
               \/ \E s \in Submitters : Submit(s) \/ SubmitResumes(s) \/ SubmitCancelled(s)
      <3>1. UNCHANGED <<facts, worker>>
        BY <2>8 DEF Stop, RefuseFrame, SubmitNowait, StopStep, SubmittersSettled, Joined,
               DrainTimeout, ReleaseQueue, Submit, SubmitResumes, SubmitCancelled, vars, facts
      <3> QED BY <2>1, <3>1 DEF facts
    <2> QED BY <2>2, <2>3, <2>4, <2>5, <2>6, <2>7, <2>8 DEF Next, Step
  <1>2. FactInv => NoSilentLoss
    BY DEF FactInv
  <1> QED BY <1>1, <1>2, FrameInit, FrameInvariant, PTL DEF Spec
=============================================================================
