---------------------------- MODULE AdDetection ----------------------------
(***************************************************************************)
(* The credential-free detection of domain controllers (ad_detection.py)   *)
(* and the command that runs it (discover ad of cli.py), for one approved  *)
(* domain.  SRV queries are asked one after the other, stored services add *)
(* hosts, and then one task for each host looks up its addresses and asks  *)
(* the approved ones for their RootDSE, under a semaphore.                 *)
(*                                                                         *)
(* DNS names are abstracted to hosts of the domain; a record that          *)
(* _validate_srv or _hostname refuses is the host Malformed.  The issues   *)
(* dns_unreachable, dns_error and dns_oversized are all "dns", and         *)
(* malformed_address and target_refused are "address".                     *)
(***************************************************************************)
EXTENDS Integers, FiniteSets

CONSTANTS
    Hosts,            \* hosts of the domain that may be named
    Malformed,        \* a record that names no host of the domain
    HostAddresses,    \* their addresses
    ApprovedRange,    \* those in the approved ranges
    StoredEvidence,   \* sets of << host, address >> the services table may hold
    SrvQueries,       \* how many SRV queries are asked; the second is for Kerberos
    ProbeConcurrency

ASSUME DetectionAssumption ==
    /\ IsFiniteSet(Hosts) /\ Malformed \notin Hosts /\ ApprovedRange \subseteq HostAddresses
    /\ SrvQueries \in Nat /\ ProbeConcurrency \in Nat \ {0}

VARIABLES
    phase,      \* of the command: "idle", "dns", "stored", "probe", "persist", ended
    asked,      \* SRV queries asked so far
    states,     \* states[h]: what is known of host h
    task,       \* task[h]: where one(h) is, and the addresses it has to ask
    detected,   \* the issues, as << category, subject >>
    answers,    \* << host, address, answer >> of every RootDSE query made
    observed,   \* hosts whose candidate is in the database
    runRow      \* the status of the row in collector_runs

detectionVars == << phase, asked, states, task, detected, answers, observed, runRow >>

Unknown == [known |-> FALSE, addresses |-> {}, ldap |-> FALSE, confirmed |-> FALSE]
NoTask == [at |-> "none", todo |-> {}]

DetectionStart(first) ==
    /\ phase = first
    /\ asked = 0
    /\ states = [h \in Hosts |-> Unknown]
    /\ task = [h \in Hosts |-> NoTask]
    /\ detected = {} /\ answers = {} /\ observed = {} /\ runRow = "none"

(* discover ad: refused without a domain or a repository; else a row and   *)
(* the detector, which may refuse the domains or sites.  The handler then  *)
(* closes the row as failed, if the repository lets it.                    *)
Discover ==
    /\ phase = "idle"
    /\ \/ phase' = "refused" /\ UNCHANGED runRow
       \/ phase' = "dns" /\ runRow' = "running"
       \/ phase' = "ended" /\ runRow' \in {"failed", "running"}
    /\ UNCHANGED << asked, states, task, detected, answers, observed >>

-----------------------------------------------------------------------------
(* _dns_evidence, one query: an issue, or records, of which the malformed  *)
(* are an issue.  Only LDAP queries make a host a candidate.               *)
QuerySrv ==
    /\ phase = "dns" /\ asked < SrvQueries
    /\ asked' = asked + 1
    /\ \/ /\ \E category \in {"dns_unreachable", "dns_error", "dns_oversized"} :
                detected' = detected \union {<< category, asked' >>}
          /\ UNCHANGED states
       \/ \E records \in SUBSET (Hosts \union {Malformed}) :
             /\ detected' = IF Malformed \in records
                            THEN detected \union {<< "malformed_srv", asked' >>} ELSE detected
             /\ states' = [h \in Hosts |->
                  IF h \in records
                  THEN [states[h] EXCEPT !.known = TRUE, !.ldap = @ \/ asked' # 2]
                  ELSE states[h]]
    /\ UNCHANGED << phase, task, answers, observed, runRow >>

(* _stored_evidence, and the start of a task for every host named.  Rows   *)
(* of the services table beyond the limit were not read: no issue.         *)
AddStored ==
    /\ phase = "dns" /\ asked = SrvQueries
    /\ \E services \in StoredEvidence :
          LET Of(h) == { s[2] : s \in { x \in services : x[1] = h } }
          IN  /\ states' = [h \in Hosts |->
                   IF Of(h) = {} THEN states[h]
                   ELSE [states[h] EXCEPT !.known = TRUE, !.addresses = Of(h)]]
              /\ detected' = IF \E s \in services : s[1] = Malformed
                             THEN detected \union {<< "malformed_service", "stored" >>}
                             ELSE detected
    /\ task' = [h \in Hosts |-> IF states'[h].known THEN [at |-> "lookup", todo |-> {}] ELSE NoTask]
    /\ phase' = "probe"
    /\ UNCHANGED << asked, answers, observed, runRow >>

-----------------------------------------------------------------------------
(* The approval that trusts the addresses of the inventory.                *)
ApproveAddresses_stored(h, found) ==
    LET trusted == found \intersect (ApprovedRange \union states[h].addresses)
    IN  /\ detected' = detected \union { << "address", h >> : a \in found \ trusted }
        /\ states' = [states EXCEPT ![h].addresses = trusted]
        /\ task' = [task EXCEPT ![h] = [at |-> "wait", todo |-> trusted]]

(* The approval of a host's addresses: a refused one is an issue and       *)
(* leaves the candidate.  So is a malformed one, which never joined it.    *)
ApproveAddresses(h, found) ==
    /\ detected' = detected \union { << "address", h >> : a \in found \ ApprovedRange }
    /\ states' = [states EXCEPT ![h].addresses = found \intersect ApprovedRange]
    /\ task' = [task EXCEPT ![h] = [at |-> "wait", todo |-> found \intersect ApprovedRange]]

(* A host with stored addresses is not looked up, however old they are.    *)
UseStored(h) ==
    /\ task[h].at = "lookup" /\ states[h].addresses # {}
    /\ ApproveAddresses(h, states[h].addresses)
    /\ UNCHANGED << phase, asked, answers, observed, runRow >>

(* resolve_ipv4: any addresses, none (without an issue), or a failure that *)
(* ends the task.                                                          *)
LookUp(h) ==
    /\ task[h].at = "lookup" /\ states[h].addresses = {}
    /\ \/ \E found \in SUBSET (HostAddresses \union {Malformed}) : ApproveAddresses(h, found)
       \/ /\ detected' = detected \union {<< "dns", h >>}
          /\ task' = [task EXCEPT ![h] = [at |-> "done", todo |-> {}]]
          /\ UNCHANGED states
    /\ UNCHANGED << phase, asked, answers, observed, runRow >>

Probing == { h \in Hosts : task[h].at = "probe" }

(* async with semaphore: the next address is asked.                        *)
StartProbe(h) ==
    /\ task[h].at = "wait" /\ task[h].todo # {}
    /\ Cardinality(Probing) < ProbeConcurrency
    /\ task' = [task EXCEPT ![h].at = "probe"]
    /\ UNCHANGED << phase, asked, states, detected, answers, observed, runRow >>

(* The answer: it confirms the domain and ends the task, or is an issue    *)
(* and the next address is tried.                                          *)
ProbeReturns(h) ==
    /\ task[h].at = "probe"
    /\ \E a \in task[h].todo, answer \in {"ad", "not_ad", "malformed", "unreachable"} :
          /\ answers' = answers \union {<< h, a, answer >>}
          /\ IF answer = "ad"
               THEN /\ states' = [states EXCEPT ![h].confirmed = TRUE]
                    /\ task' = [task EXCEPT ![h] = [at |-> "done", todo |-> {}]]
                    /\ UNCHANGED detected
               ELSE /\ detected' = detected \union {<< "rootdse", a >>}
                    /\ task' = [task EXCEPT ![h] = [at |-> "wait", todo |-> @.todo \ {a}]]
                    /\ UNCHANGED states
    /\ UNCHANGED << phase, asked, observed, runRow >>

TaskEnds(h) ==
    /\ task[h].at = "wait" /\ task[h].todo = {}
    /\ task' = [task EXCEPT ![h].at = "done"]
    /\ UNCHANGED << phase, asked, states, detected, answers, observed, runRow >>

-----------------------------------------------------------------------------
Candidates == { h \in Hosts : states[h].ldap \/ states[h].confirmed }

(* gather returns when every task has, and the result is made.             *)
Detected ==
    /\ phase = "probe"
    /\ \A h \in Hosts : task[h].at \in {"none", "done"}
    /\ phase' = "persist"
    /\ UNCHANGED << asked, states, task, detected, answers, observed, runRow >>

(* persist_detection, the errors and the row.  Each observation is its own *)
(* transaction: a failure leaves those before it, and the handler closes   *)
(* the row as failed if the repository lets it.                            *)
PersistDetection ==
    /\ phase = "persist"
    /\ \/ /\ observed' = Candidates
          /\ runRow' = IF detected # {} THEN "partial" ELSE "succeeded"
       \/ /\ observed' \in SUBSET Candidates
          /\ runRow' \in {"failed", "running"}
    /\ phase' = "ended"
    /\ UNCHANGED << asked, states, task, detected, answers >>

DetectionNext ==
    \/ Discover \/ QuerySrv \/ AddStored \/ Detected \/ PersistDetection
    \/ \E h \in Hosts : UseStored(h) \/ LookUp(h) \/ StartProbe(h) \/ ProbeReturns(h) \/ TaskEnds(h)

DetectionSpec == DetectionStart("idle") /\ [][DetectionNext]_detectionVars

-----------------------------------------------------------------------------
(* Whatever DNS and the stored services say, and however the tasks         *)
(* interleave: only approved addresses are asked, and no more at a time    *)
(* than the semaphore admits; a host is confirmed by an answer of its own  *)
(* only; each approved address of one that is not confirmed was asked, and *)
(* is among the issues; and a run recorded as succeeded has no issue and   *)
(* has stored every host it found an address of, confirmed.                *)
(* (_resolve_and_probe, persist_detection, discover ad.)                   *)
DetectionHonest ==
    /\ \A x \in answers : x[2] \in ApprovedRange
    /\ Cardinality(Probing) <= ProbeConcurrency
    /\ \A h \in Hosts : states[h].confirmed <=> \E x \in answers : x[1] = h /\ x[3] = "ad"
    /\ phase \in {"persist", "ended"} =>
           \A h \in Hosts : states[h].known /\ ~states[h].confirmed =>
               \A a \in states[h].addresses :
                   /\ << "rootdse", a >> \in detected
                   /\ \E x \in answers : x[1] = h /\ x[2] = a
    /\ runRow = "succeeded" =>
           /\ detected = {}
           /\ \A h \in Hosts : states[h].known /\ states[h].addresses # {} =>
                  states[h].confirmed /\ h \in observed
=============================================================================
