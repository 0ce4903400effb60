--------------------------- MODULE PassiveService ---------------------------
(***************************************************************************)
(* The passive observer process (passive_service.py): one task receives    *)
(* frames, the pipeline's workers parse them into tables that neighbor.py, *)
(* mdns.py and dhcp.py keep in memory, and a maintenance task reads the    *)
(* kernel's neighbors and ages the tables the workers also write.          *)
(*                                                                         *)
(* The sink is a coroutine without an await, so a worker handles a frame,  *)
(* and maintenance everything after its command has answered, in one step. *)
(* PassivePipeline has the queue and its drain in detail; here the queue   *)
(* is never full (MaxFrames is below its 256 slots) and its deduplication, *)
(* which only drops what the sink was given before, is left out.           *)
(***************************************************************************)
EXTENDS Integers, Sequences, FiniteSets, SequencesExt

CONSTANTS
    Frames,        \* frames on the wire, as the parsers see them
    KernelTables,  \* what "ip -j neigh" may print: sequences of neighbor keys
    NoMac,         \* the MAC of a neighbor the kernel has not resolved
    MaxEntries,    \* max_entries, max_cache_entries and max_tracked_leases
    MaxAge,        \* max_age of a neighbor
    DedupeWindow,  \* dedupe_window of the tracker
    MaxLag,        \* the longest a command runs or a frame waits in the queue
    MaxFrames,     \* bound on frames received
    MaxTime,       \* bound on the clock
    MaxFaults      \* bound on failing calls

ASSUME ServiceAssumption ==
    /\ MaxEntries \in Nat \ {0} /\ MaxAge \in Nat \ {0} /\ DedupeWindow \in Nat
    /\ \A keys \in KernelTables : keys \in Seq(ToSet(keys))
    /\ \A f \in Frames : f.protocol = "mdns" => Len(f.records) \in Nat
    /\ MaxLag \in Nat /\ MaxFrames \in 0 .. 255 /\ MaxTime \in Nat /\ MaxFaults \in Nat

VARIABLES
    now,
    stopping,   \* the stop event
    service,    \* where run_service is
    run,        \* status of its collector_runs row
    failed,     \* observe() raised
    received,
    queue,      \* frames with their observed_at
    neighbors,  \* NeighborTracker._entries, oldest first
    cache,      \* MDNSParser._cache, oldest first
    leases,     \* DhcpParser._leases, oldest first
    poll,       \* where the maintenance task is, and its observed_at
    out,        \* what the last step gave to the sink
    heard,      \* history: newest evidence the tracker was shown, per neighbor
    disclosed,  \* history: pairs of neighbors named in a conflict
    faults

tables == <<neighbors, cache, leases, heard, disclosed>>
lifecycle == <<stopping, service, run, failed>>
vars == <<now, lifecycle, received, queue, tables, out, poll, faults>>

Init ==
    /\ now = 0 /\ stopping = FALSE /\ service = "opening" /\ run = "none" /\ failed = FALSE
    /\ received = 0 /\ queue = <<>> /\ poll = [at |-> "off", time |-> 0]
    /\ neighbors = <<>> /\ cache = <<>> /\ leases = <<>>
    /\ out = {} /\ heard = <<>> /\ disclosed = {}
    /\ faults = 0

(* A step that gives the sink nothing and leaves the tables alone. *)
NoFacts == out' = {} /\ UNCHANGED tables

Fault == faults < MaxFaults /\ faults' = faults + 1

(***************************************************************************)
(* The bounded tables: a sequence of records with a key, oldest first.     *)
(***************************************************************************)
Keys(table) == {table[i].key : i \in DOMAIN table}
Entry(table, key) == CHOOSE e \in ToSet(table) : e.key = key

(* The entries at some of its places, in their order. *)
At(table, places) ==
    LET upTo[n \in 0 .. Len(table)] ==
            IF n = 0 THEN <<>>
            ELSE IF n \in places THEN Append(upTo[n - 1], table[n]) ELSE upTo[n - 1]
    IN  upTo[Len(table)]

Without(table, key) == At(table, {i \in DOMAIN table : table[i].key # key})

(* move_to_end of a new or updated entry, and popitem(last=False) beyond the bound. *)
Put(table, entry) ==
    LET all == Append(Without(table, entry.key), entry)
    IN  IF Len(all) > MaxEntries THEN Tail(all) ELSE all

(* NeighborTracker: a key is <<address, mac>>. *)
Conflicting(k, l) == /\ k # l /\ k[2] # NoMac /\ l[2] # NoMac
                     /\ k[1] = l[1] \/ k[2] = l[2]

(* A tracker and the observations it has returned. *)
Tracker(table, output) == [table |-> table, output |-> output]

(* Mutant: evidence inside the dedupe window does not refresh the entry. *)
Observe_frozen(tracker, key, time) ==
    LET table == tracker.table
        known == key \in Keys(table)
        quiet == known /\ time - Entry(table, key).emitted < DedupeWindow
        rivals == {k \in Keys(table) : Conflicting(k, key)}
    IN  IF quiet THEN tracker
        ELSE Tracker(Put(table, [key |-> key, last |-> time, emitted |-> time]),
                     tracker.output
                     \cup {[kind |-> "neighbor_observation", key |-> key]}
                     \cup (IF known THEN {}
                           ELSE {[kind |-> "neighbor_conflict", key |-> key, other |-> k] : k \in rivals}))

(* Mutant: only the latest entry is looked at for a conflict. *)
Observe_latest(tracker, key, time) ==
    LET table == tracker.table
        known == key \in Keys(table)
        quiet == known /\ time - Entry(table, key).emitted < DedupeWindow
        rivals == {k \in Keys(table) : Conflicting(k, key) /\ k = Last(table).key}
        entry == [key |-> key, last |-> time,
                  emitted |-> IF quiet THEN Entry(table, key).emitted ELSE time]
    IN  Tracker(Put(table, entry),
                tracker.output
                \cup (IF known THEN {}
                      ELSE {[kind |-> "neighbor_conflict", key |-> key, other |-> k] : k \in rivals}))

(* NeighborTracker.observe. *)
Observe(tracker, key, time) ==
    LET table == tracker.table
        known == key \in Keys(table)
        quiet == known /\ time - Entry(table, key).emitted < DedupeWindow
        rivals == {k \in Keys(table) : Conflicting(k, key)}
        entry == [key |-> key, last |-> time,
                  emitted |-> IF quiet THEN Entry(table, key).emitted ELSE time]
    IN  Tracker(Put(table, entry),
                tracker.output
                \cup (IF quiet THEN {} ELSE {[kind |-> "neighbor_observation", key |-> key]})
                \cup (IF known THEN {}
                      ELSE {[kind |-> "neighbor_conflict", key |-> key, other |-> k] : k \in rivals}))

(* Every neighbor the kernel shows, one after the other. *)
ObserveAll(tracker, keys, time) ==
    LET after[n \in 0 .. Len(keys)] ==
            IF n = 0 THEN tracker ELSE Observe(after[n - 1], keys[n], time)
    IN  after[Len(keys)]

(* NeighborTracker.expire. *)
ExpireNeighbors(tracker, time) ==
    LET table == tracker.table
        due == {i \in DOMAIN table : table[i].last + MaxAge <= time}
    IN  Tracker(At(table, DOMAIN table \ due),
                tracker.output \cup {[kind |-> "neighbor_expired", key |-> table[i].key] : i \in due})

(* MDNSParser.expire. *)
ExpireCache(tracker, time) ==
    LET table == tracker.table
        due == {i \in DOMAIN table : table[i].expires <= time}
    IN  Tracker(At(table, DOMAIN table \ due),
                tracker.output \cup {[kind |-> "mdns_expired", key |-> table[i].key] : i \in due})

(* One resource record of a response: a goodbye has a ttl of zero. *)
Record(tracker, record, time) ==
    IF record.ttl = 0
      THEN Tracker(Without(tracker.table, record.key),
                   tracker.output \cup {[kind |-> "mdns_goodbye", key |-> record.key]})
      ELSE Tracker(Put(tracker.table, [key |-> record.key, expires |-> time + record.ttl]),
                   tracker.output \cup {[kind |-> "mdns_announce", key |-> record.key]})

RecordAll(tracker, records, time) ==
    LET after[n \in 0 .. Len(records)] ==
            IF n = 0 THEN tracker ELSE Record(after[n - 1], records[n], time)
    IN  after[Len(records)]

(* DhcpParser: only an acknowledgement binds an address. *)
Lease(tracker, frame) ==
    LET reuse == /\ frame.key \in Keys(tracker.table)
                 /\ Entry(tracker.table, frame.key).client # frame.client
    IN  Tracker(IF frame.ack THEN Put(tracker.table, [key |-> frame.key, client |-> frame.client])
                             ELSE tracker.table,
                {[kind |-> "dhcp_message", key |-> frame.key]}
                \cup (IF frame.ack /\ reuse THEN {[kind |-> "dhcp_address_reuse", key |-> frame.key]}
                      ELSE {}))

Later(s, t) == IF s > t THEN s ELSE t

(* The neighbors table and its history after evidence for some keys at one time. *)
Hear(keys, time) ==
    heard' = [k \in DOMAIN heard \cup keys |->
                 IF k \notin DOMAIN heard THEN time
                 ELSE IF k \in keys THEN Later(heard[k], time) ELSE heard[k]]

Disclose(output) ==
    /\ out' = output
    /\ disclosed' = disclosed \cup
          {{o.key, o.other} : o \in {x \in output : x.kind = "neighbor_conflict"}}

(***************************************************************************)
(* run_service and observe.                                                *)
(***************************************************************************)
(* The run row is inserted before the packet socket is opened. *)
Open ==
    /\ service = "opening"
    /\ \/ /\ run' = "running" /\ service' = "observing" /\ poll' = [poll EXCEPT !.at = "ready"]
          /\ UNCHANGED <<failed, faults>>
       \/ /\ Fault /\ run' = "none" /\ service' = "over" /\ failed' = TRUE /\ UNCHANGED poll
       \/ /\ Fault /\ run' = "running" /\ service' = "finishing" /\ failed' = TRUE
          /\ UNCHANGED poll
    /\ NoFacts
    /\ UNCHANGED <<now, stopping, received, queue>>

(* SIGTERM or SIGINT. *)
Signal ==
    /\ service \notin {"opening", "over"} /\ ~stopping
    /\ stopping' = TRUE
    /\ NoFacts
    /\ UNCHANGED <<now, service, run, failed, received, queue, poll, faults>>

(* A frame is stamped and submitted; what decode_ethernet does not know is dropped. *)
Receive ==
    /\ service = "observing" /\ ~stopping
    /\ received < MaxFrames /\ received' = received + 1
    /\ \E f \in Frames :
          queue' = IF f.protocol = "unsupported" THEN queue
                   ELSE Append(queue, [frame |-> f, time |-> now])
    /\ NoFacts
    /\ UNCHANGED <<now, lifecycle, poll, faults>>

(* The stop event is seen: capture is closed and the pipeline refuses new frames. *)
SeeStop ==
    /\ service = "observing" /\ stopping
    /\ service' = "draining"
    /\ NoFacts
    /\ UNCHANGED <<now, stopping, run, failed, received, queue, poll, faults>>

ReceiveFails ==
    /\ service = "observing" /\ Fault
    /\ service' = "draining" /\ failed' = TRUE
    /\ NoFacts
    /\ UNCHANGED <<now, stopping, run, received, queue, poll>>

(* pipeline.stop returns, at its deadline with frames left; maintenance is told to stop. *)
Drained ==
    /\ service = "draining" /\ queue = <<>>
    /\ service' = "joining" /\ stopping' = TRUE
    /\ NoFacts
    /\ UNCHANGED <<now, run, failed, received, queue, poll, faults>>

DrainTimeout ==
    /\ service = "draining" /\ queue # <<>>
    /\ queue' = <<>>
    /\ service' = "joining" /\ stopping' = TRUE
    /\ NoFacts
    /\ UNCHANGED <<now, run, failed, received, poll, faults>>

Joined ==
    /\ service = "joining" /\ poll.at = "over"
    /\ service' = "finishing"
    /\ NoFacts
    /\ UNCHANGED <<now, stopping, run, failed, received, queue, poll, faults>>

(* finish_run; when it raises on the way out of a good run, it is tried again as failed. *)
FinishRun ==
    /\ service = "finishing"
    /\ \/ /\ run' = IF failed THEN "failed" ELSE "succeeded"
          /\ service' = "over" /\ UNCHANGED <<failed, faults>>
       \/ /\ Fault /\ UNCHANGED run
          /\ service' = IF failed THEN "over" ELSE "finishing"
          /\ failed' = TRUE
    /\ NoFacts
    /\ UNCHANGED <<now, stopping, received, queue, poll>>

(***************************************************************************)
(* PassiveEventPipeline._handle_frame with the parsers of build_runtime.   *)
(***************************************************************************)
HandleArp(frame, time) ==
    LET next == Observe(Tracker(neighbors, {}), frame.key, time)
    IN  /\ neighbors' = next.table /\ Disclose(next.output) /\ Hear({frame.key}, time)
        /\ UNCHANGED <<cache, leases>>

(* The cache is aged first, then the message is parsed. *)
HandleMdns(frame, time) ==
    LET aged == ExpireCache(Tracker(cache, {}), time)
        next == RecordAll(aged, frame.records, time)
    IN  /\ cache' = next.table /\ Disclose(next.output)
        /\ UNCHANGED <<neighbors, leases, heard>>

(* When parsing raises, the worker drops what the aging had returned. *)
HandleMalformedMdns(time) ==
    /\ cache' = ExpireCache(Tracker(cache, {}), time).table
    /\ Disclose({})
    /\ UNCHANGED <<neighbors, leases, heard>>

HandleDhcp(frame) ==
    LET next == Lease(Tracker(leases, {}), frame)
    IN  /\ leases' = next.table /\ Disclose(next.output)
        /\ UNCHANGED <<neighbors, cache, heard>>

(* LLDP and CDP keep no state, nor does a parser that raises at once. *)
HandleLink(output) == Disclose(output) /\ UNCHANGED <<neighbors, cache, leases, heard>>

(* Its parser may find any payload malformed. *)
HandleFrame ==
    /\ service \in {"observing", "draining"} /\ queue # <<>>
    /\ queue' = Tail(queue)
    /\ LET f == Head(queue).frame
           time == Head(queue).time
       IN  \/ f.protocol = "arp" /\ HandleArp(f, time)
           \/ f.protocol = "mdns" /\ (HandleMdns(f, time) \/ HandleMalformedMdns(time))
           \/ f.protocol = "dhcp" /\ HandleDhcp(f)
           \/ f.protocol = "lldp" /\ HandleLink({[kind |-> "lldp", key |-> f.key]})
           \/ f.protocol # "mdns" /\ HandleLink({})
    /\ UNCHANGED <<now, lifecycle, received, poll, faults>>

(***************************************************************************)
(* maintenance_loop.                                                       *)
(***************************************************************************)
(* Mutant: the stop event is not looked at again after the interval. *)
BeginPoll_unchecked ==
    /\ poll.at = "ready"
    /\ poll' = [at |-> "polling", time |-> now]
    /\ NoFacts
    /\ UNCHANGED <<now, lifecycle, received, queue, faults>>

(* observed_at is taken before the command runs. *)
BeginPoll ==
    /\ poll.at = "ready"
    /\ poll' = IF stopping THEN [poll EXCEPT !.at = "over"] ELSE [at |-> "polling", time |-> now]
    /\ NoFacts
    /\ UNCHANGED <<now, lifecycle, received, queue, faults>>

(* The command answers, or fails and is passed over; then both tables are aged. *)
EndPoll ==
    /\ poll.at = "polling"
    /\ \E keys \in KernelTables \cup {<<>>} :
          LET shown == ObserveAll(Tracker(neighbors, {}), keys, poll.time)
              aged == ExpireNeighbors(shown, poll.time)
              clean == ExpireCache(Tracker(cache, {}), poll.time)
          IN  /\ neighbors' = aged.table /\ cache' = clean.table
              /\ Disclose(aged.output \cup clean.output)
              /\ Hear(ToSet(keys), poll.time)
    /\ poll' = [poll EXCEPT !.at = "waiting"]
    /\ UNCHANGED <<now, lifecycle, received, queue, leases, faults>>

(* The interval is over, or the stop event cuts it short. *)
Wake ==
    /\ poll.at = "waiting" /\ (stopping \/ poll.time < now)
    /\ poll' = [poll EXCEPT !.at = "ready"]
    /\ NoFacts
    /\ UNCHANGED <<now, lifecycle, received, queue, faults>>

(* The command is killed at its timeout, and the queue is served.  After capture nothing
   is stamped any more, so the clock may as well stand. *)
Tick ==
    /\ now < MaxTime /\ service = "observing"
    /\ poll.at = "polling" => now < poll.time + MaxLag
    /\ \A i \in DOMAIN queue : now < queue[i].time + MaxLag
    /\ now' = now + 1
    /\ NoFacts
    /\ UNCHANGED <<lifecycle, received, queue, poll, faults>>

Service == Open \/ SeeStop \/ Drained \/ Joined \/ FinishRun
Maintenance == BeginPoll \/ EndPoll \/ Wake

Next == Service \/ Signal \/ Receive \/ ReceiveFails \/ DrainTimeout \/ HandleFrame \/ Maintenance \/ Tick

Spec == Init /\ [][Next]_vars

(* The event loop runs every task that is ready, and commands and drains have deadlines. *)
FairSpec == Spec /\ WF_vars(Service) /\ WF_vars(HandleFrame) /\ WF_vars(Maintenance)

-----------------------------------------------------------------------------
(* Every variable has its type, no table outgrows its bound or holds a key twice, and no
   entry is from the future. *)
TypeOK ==
    /\ now \in 0 .. MaxTime /\ stopping \in BOOLEAN /\ failed \in BOOLEAN
    /\ service \in {"opening", "observing", "draining", "joining", "finishing", "over"}
    /\ run \in {"none", "running", "succeeded", "failed"}
    /\ poll \in [at : {"off", "ready", "polling", "waiting", "over"}, time : 0 .. now]
    /\ \A table \in {neighbors, cache, leases} :
          Len(table) <= MaxEntries /\ Len(table) = Cardinality(Keys(table))
    /\ \A i \in DOMAIN neighbors : neighbors[i].last \in 0 .. now /\ neighbors[i].emitted \in 0 .. now
    /\ received \in 0 .. MaxFrames /\ Len(queue) <= received
    /\ faults \in 0 .. MaxFaults

(* A neighbor is declared gone only when nothing was heard of it for its age, up to the
   time a command takes: a poll that overlaps with frames sets last_seen back to when it
   began, and a frame that waited in the queue to when it was received. *)
GoneOnlyIfSilent ==
    \A o \in out : o.kind = "neighbor_expired" => heard[o.key] + MaxAge <= now + MaxLag

(* Two tracked neighbors that share an address or a MAC were named in a conflict, whether
   frames or the kernel showed them, in whatever order and however often they came back. *)
ConflictsDisclosed ==
    \A k, l \in Keys(neighbors) : Conflicting(k, l) => {k, l} \in disclosed

(* The tables of the trackers keep their bounds and keys, and no eviction at the bound
   hides a conflict: NeighborTracker.observe compares before it evicts. *)
TablesSound == TypeOK /\ ConflictsDisclosed

(* Once told to stop, the service ends, wherever maintenance and the queue are; and no
   single failing call, not even of finish_run, leaves its row open. *)
ServiceEnds ==
    stopping ~> (service = "over" /\ (run \in {"succeeded", "failed"} \/ faults > 1))
=============================================================================
