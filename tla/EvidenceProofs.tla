--------------------------- MODULE EvidenceProofs ---------------------------
(***************************************************************************)
(* The evidence the inventory stands on, for any input: what the detection *)
(* of domain controllers stores, for any hosts, addresses and concurrency; *)
(* what the topology snapshot shows, for any evidence; the devices         *)
(* correlate() makes of any batch of observations; and the tables in which *)
(* the passive observer keeps what it hears, for any frames and polls.     *)
(***************************************************************************)
EXTENDS PassiveService, AdDetection, Topology, Correlation, FiniteSetTheorems,
        WellFoundedInduction, TLAPS

(* The least of a set of natural numbers is one of them.                   *)
LEMMA MinIsMember ==
  ASSUME NEW T, T \subseteq Nat, T # {}
  PROVE  Min(T) \in T /\ \A y \in T : Min(T) <= y
<1> DEFINE R == { p \in Nat \X Nat : p[1] < p[2] }
<1>1. IsWellFoundedOn(R, Nat)
  BY NatLessThanWellFounded, Zenon DEF OpToRel
<1> HIDE DEF R
<1>2. PICK x \in T : \A y \in T : << y, x >> \notin R
  BY <1>1, WFMin
<1>3. ASSUME NEW y \in T
      PROVE  x <= y
  <2>1. x \in Nat /\ y \in Nat
    OBVIOUS
  <2>2. ~(y < x)
    <3>1. << y, x >> \notin R
      BY <1>2
    <3>2. << y, x >> \in Nat \X Nat /\ << y, x >>[1] = y /\ << y, x >>[2] = x
      BY <2>1
    <3> QED BY <3>1, <3>2 DEF R
  <2> QED BY <2>1, <2>2
<1> QED BY <1>3 DEF Min

-----------------------------------------------------------------------------
(* The fields of what is known of a host, and what a task holds: it is     *)
(* only ever given approved addresses to ask.                              *)
HostShape(s) == s = [known |-> s.known, addresses |-> s.addresses, ldap |-> s.ldap,
                     confirmed |-> s.confirmed]

DetectionTypes ==
    /\ states = [h \in Hosts |-> states[h]] /\ \A h \in Hosts : HostShape(states[h])
    /\ task \in [Hosts -> [at : {"none", "lookup", "wait", "probe", "done"},
                           todo : SUBSET ApprovedRange]]
    /\ \A x \in answers : x[2] \in ApprovedRange

(* Where the command is, and where its tasks then are: before the tasks    *)
(* start there is no answer, afterwards every host named has had one, and  *)
(* a run is recorded as succeeded only when all is over.                   *)
PhaseInv ==
    /\ phase \in {"idle", "refused"} => \A h \in Hosts : ~states[h].known
    /\ phase \in {"idle", "refused", "dns"} =>
           answers = {} /\ \A h \in Hosts : task[h].at = "none" /\ ~states[h].confirmed
    /\ phase \notin {"idle", "dns"} => \A h \in Hosts : task[h].at = "none" => ~states[h].known
    /\ phase \in {"persist", "ended"} => \A h \in Hosts : task[h].at \in {"none", "done"}
    /\ \A h \in Hosts : task[h].at \in {"none", "lookup", "done"} => task[h].todo = {}
    /\ runRow = "succeeded" => phase = "ended"

(* An approved address of a host that is not confirmed was asked and is an *)
(* issue, or the host's task has still to ask it.                          *)
AskedInv ==
    \A h \in Hosts : task[h].at \in {"wait", "probe", "done"} /\ ~states[h].confirmed =>
        \A a \in states[h].addresses :
            \/ a \in task[h].todo
            \/ /\ << "rootdse", a >> \in detected
               /\ \E x \in answers : x[1] = h /\ x[2] = a

(* A host is confirmed by an answer of its own.                            *)
ConfirmedInv == \A h \in Hosts : states[h].confirmed <=> \E x \in answers : x[1] = h /\ x[3] = "ad"

SemaphoreInv == Cardinality(Probing) <= ProbeConcurrency

SucceededInv ==
    runRow = "succeeded" =>
        /\ detected = {}
        /\ \A h \in Hosts : states[h].known /\ states[h].addresses # {} =>
               states[h].confirmed /\ h \in observed

DetectionInv ==
    /\ DetectionTypes /\ PhaseInv /\ AskedInv /\ ConfirmedInv /\ SemaphoreInv /\ SucceededInv

-----------------------------------------------------------------------------
(* A task's change of place changes the probing hosts by that host only.   *)
LEMMA ProbingBound ==
  ASSUME NEW h \in Hosts, SemaphoreInv, \A g \in Hosts \ {h} : task'[g].at = task[g].at,
         task'[h].at = "probe" => Cardinality(Probing) < ProbeConcurrency
  PROVE  SemaphoreInv'
<1>1. IsFiniteSet(Probing) /\ Cardinality(Probing) \in Nat
  <2>1. Probing \subseteq Hosts
    BY DEF Probing
  <2> QED BY <2>1, DetectionAssumption, FS_Subset, FS_CardinalityType
<1>2. CASE task'[h].at = "probe"
  <2>1. Probing' = Probing \union {h}
    BY <1>2 DEF Probing
  <2>2. Cardinality(Probing \union {h}) \in {Cardinality(Probing), Cardinality(Probing) + 1}
    BY <1>1, FS_AddElement
  <2> QED BY <1>1, <1>2, <2>1, <2>2, DetectionAssumption DEF SemaphoreInv
<1>3. CASE task'[h].at # "probe"
  <2>1. Probing' = Probing \ {h}
    BY <1>3 DEF Probing
  <2>2. Cardinality(Probing \ {h}) \in {Cardinality(Probing), Cardinality(Probing) - 1}
    BY <1>1, FS_RemoveElement
  <2> QED BY <1>1, <2>1, <2>2, DetectionAssumption DEF SemaphoreInv
<1> QED BY <1>2, <1>3

(* The issues and the answers only grow, so the other hosts keep theirs.   *)
LEMMA AskedStep ==
  ASSUME AskedInv, NEW h \in Hosts, detected \subseteq detected', answers \subseteq answers',
         \A g \in Hosts \ {h} : states'[g] = states[g] /\ task'[g] = task[g],
         ASSUME task'[h].at \in {"wait", "probe", "done"}, ~states'[h].confirmed,
                NEW a \in states'[h].addresses
         PROVE  \/ a \in task'[h].todo
                \/ << "rootdse", a >> \in detected' /\ \E x \in answers' : x[1] = h /\ x[2] = a
  PROVE  AskedInv'
<1> SUFFICES ASSUME NEW g \in Hosts, task'[g].at \in {"wait", "probe", "done"},
                    ~states'[g].confirmed, NEW a \in states'[g].addresses
             PROVE  \/ a \in task'[g].todo
                    \/ << "rootdse", a >> \in detected' /\ \E x \in answers' : x[1] = g /\ x[2] = a
  BY DEF AskedInv
<1>1. CASE g = h
  BY <1>1
<1>2. CASE g # h
  <2>1. states'[g] = states[g] /\ task'[g] = task[g]
    BY <1>2
  <2> QED BY <2>1 DEF AskedInv
<1> QED BY <1>1, <1>2

LEMMA DetectionInitially == DetectionStart("idle") => DetectionInv
<1> SUFFICES ASSUME DetectionStart("idle") PROVE DetectionInv
  OBVIOUS
<1> USE DEF DetectionStart
<1>1. DetectionTypes
  BY DEF DetectionTypes, HostShape, Unknown, NoTask
<1>2. PhaseInv /\ AskedInv /\ ConfirmedInv /\ SucceededInv
  BY DEF PhaseInv, AskedInv, ConfirmedInv, SucceededInv, Unknown, NoTask
<1>3. SemaphoreInv
  <2>1. Probing = {}
    BY DEF Probing, NoTask
  <2> QED BY <2>1, FS_EmptySet, DetectionAssumption DEF SemaphoreInv
<1> QED BY <1>1, <1>2, <1>3 DEF DetectionInv

(* Before the tasks: the row, the SRV queries and the stored services.     *)
LEMMA PreparationKeeps ==
  ASSUME DetectionInv, Discover \/ QuerySrv \/ AddStored
  PROVE  DetectionInv'
<1> USE DEF DetectionInv
<1>1. CASE Discover
  <2> USE <1>1 DEF Discover
  <2>1. DetectionTypes' BY DEF DetectionTypes
  <2>2. PhaseInv' BY DEF PhaseInv
  <2>3. AskedInv' /\ ConfirmedInv' BY DEF AskedInv, ConfirmedInv
  <2>4. SemaphoreInv' BY DEF SemaphoreInv, Probing
  <2>5. SucceededInv' BY DEF SucceededInv, PhaseInv
  <2> QED BY <2>1, <2>2, <2>3, <2>4, <2>5
<1>2. CASE QuerySrv
  <2>1. /\ phase = "dns" /\ UNCHANGED << phase, task, answers, observed, runRow >>
        /\ states' = [h \in Hosts |-> states'[h]] /\ \A h \in Hosts : HostShape(states'[h])
        /\ \A h \in Hosts : states'[h].confirmed = states[h].confirmed
    <3>1. CASE UNCHANGED states
      BY <1>2, <3>1 DEF QuerySrv, DetectionTypes
    <3>2. ASSUME NEW records,
                 states' = [h \in Hosts |->
                    IF h \in records
                    THEN [states[h] EXCEPT !.known = TRUE, !.ldap = states[h].ldap \/ asked' # 2]
                    ELSE states[h]]
          PROVE  /\ states' = [h \in Hosts |-> states'[h]]
                 /\ \A h \in Hosts : HostShape(states'[h]) /\ states'[h].confirmed = states[h].confirmed
      <4>1. states' = [h \in Hosts |-> states'[h]]
        BY <3>2
      <4>2. ASSUME NEW h \in Hosts
            PROVE  HostShape(states'[h]) /\ states'[h].confirmed = states[h].confirmed
        <5> DEFINE ldap == states[h].ldap \/ asked' # 2
        <5>1. states'[h] \in {states[h], [states[h] EXCEPT !.known = TRUE, !.ldap = ldap]}
          BY <3>2
        <5> HIDE DEF ldap
        <5> QED BY <5>1 DEF HostShape, DetectionTypes
      <4> QED BY <4>1, <4>2
    <3> QED BY <1>2, <3>1, <3>2 DEF QuerySrv
  <2>2. DetectionTypes' BY <2>1 DEF DetectionTypes
  <2>3. PhaseInv' BY <2>1 DEF PhaseInv
  <2>4. AskedInv' /\ ConfirmedInv' BY <2>1 DEF AskedInv, ConfirmedInv, PhaseInv
  <2>5. SemaphoreInv' BY <2>1 DEF SemaphoreInv, Probing
  <2>6. SucceededInv' BY <2>1 DEF SucceededInv, PhaseInv
  <2> QED BY <2>2, <2>3, <2>4, <2>5, <2>6
<1>3. CASE AddStored
  <2>1. /\ phase = "dns" /\ phase' = "probe" /\ UNCHANGED << answers, observed, runRow >>
        /\ task' = [h \in Hosts |-> IF states'[h].known THEN [at |-> "lookup", todo |-> {}] ELSE NoTask]
    BY <1>3 DEF AddStored
  <2>2. /\ states' = [h \in Hosts |-> states'[h]] /\ \A h \in Hosts : HostShape(states'[h])
        /\ \A h \in Hosts : states'[h].confirmed = states[h].confirmed
    <3>1. PICK services \in StoredEvidence :
            states' = [h \in Hosts |->
                   IF { s[2] : s \in { x \in services : x[1] = h } } = {} THEN states[h]
                   ELSE [states[h] EXCEPT !.known = TRUE,
                                          !.addresses = { s[2] : s \in { x \in services : x[1] = h } }]]
      BY <1>3 DEF AddStored
    <3>2. states' = [h \in Hosts |-> states'[h]]
      BY <3>1
    <3>3. ASSUME NEW h \in Hosts
          PROVE  HostShape(states'[h]) /\ states'[h].confirmed = states[h].confirmed
      <4> DEFINE of == { s[2] : s \in { x \in services : x[1] = h } }
      <4>1. states'[h] \in {states[h], [states[h] EXCEPT !.known = TRUE, !.addresses = of]}
        BY <3>1
      <4> HIDE DEF of
      <4> QED BY <4>1 DEF HostShape, DetectionTypes
    <3> QED BY <3>2, <3>3
  <2>3. DetectionTypes' BY <2>1, <2>2 DEF DetectionTypes, NoTask
  <2>4. PhaseInv' BY <2>1, <2>2 DEF PhaseInv, NoTask
  <2>5. AskedInv' /\ ConfirmedInv' BY <2>1, <2>2 DEF AskedInv, ConfirmedInv, PhaseInv, NoTask
  <2>6. SemaphoreInv'
    <3>1. Probing' = {} BY <2>1 DEF Probing, NoTask
    <3> QED BY <3>1, FS_EmptySet, DetectionAssumption DEF SemaphoreInv
  <2>7. SucceededInv' BY <2>1 DEF SucceededInv, PhaseInv
  <2> QED BY <2>3, <2>4, <2>5, <2>6, <2>7
<1> QED BY <1>1, <1>2, <1>3

(* The steps of one task leave the others alone, and a task is only at     *)
(* work while the command waits for it.                                    *)
LEMMA TaskKeeps ==
  ASSUME DetectionInv, NEW h \in Hosts,
         UseStored(h) \/ LookUp(h) \/ StartProbe(h) \/ ProbeReturns(h) \/ TaskEnds(h)
  PROVE  DetectionInv'
<1> USE DEF DetectionInv
<1>1. /\ phase \notin {"idle", "refused", "dns", "persist", "ended"}
      /\ UNCHANGED << phase, observed, runRow >>
  BY DEF PhaseInv, UseStored, LookUp, StartProbe, ProbeReturns, TaskEnds
<1>2. PhaseInv /\ runRow' # "succeeded" /\ SucceededInv'
  BY <1>1 DEF PhaseInv, SucceededInv
<1>3. CASE \E found :
              ApproveAddresses(h, found) /\ task[h].at = "lookup" /\ UNCHANGED answers
  <2>1. PICK found :
              ApproveAddresses(h, found) /\ task[h].at = "lookup" /\ UNCHANGED answers
    BY <1>3
  <2>10. /\ task'[h].at = "wait" /\ task'[h].todo = found \intersect ApprovedRange
        /\ states'[h].known = states[h].known /\ states'[h].confirmed = states[h].confirmed
        /\ states'[h].addresses = found \intersect ApprovedRange
        /\ \A g \in Hosts \ {h} : states'[g] = states[g] /\ task'[g] = task[g]
    BY <2>1 DEF ApproveAddresses, DetectionTypes, HostShape
  <2>11. DetectionTypes' BY <2>1 DEF ApproveAddresses, DetectionTypes, HostShape
  <2>12. PhaseInv' BY <1>1, <1>2, <2>10 DEF PhaseInv
  <2>13. detected \subseteq detected' /\ UNCHANGED answers
    BY <2>1 DEF ApproveAddresses, DetectionTypes
  <2>14. AskedInv'
    <3>1. ASSUME task'[h].at \in {"wait", "probe", "done"}, ~states'[h].confirmed,
                 NEW b \in states'[h].addresses
          PROVE  \/ b \in task'[h].todo
                 \/ << "rootdse", b >> \in detected' /\ \E x \in answers' : x[1] = h /\ x[2] = b
      BY <3>1, <2>10, <2>13 DEF AskedInv
    <3> QED BY <3>1, <2>10, <2>13, AskedStep
  <2>15. ConfirmedInv' BY <2>10, <2>13 DEF ConfirmedInv
  <2>16. SemaphoreInv' BY <2>10, <2>13, ProbingBound
  <2> QED BY <1>2, <2>11, <2>12, <2>14, <2>15, <2>16
<1>4. CASE /\ task[h].at = "lookup" /\ states[h].addresses = {}
           /\ \E x : detected' = detected \union {x}
           /\ task' = [task EXCEPT ![h] = [at |-> "done", todo |-> {}]]
           /\ UNCHANGED << states, answers >>
  <2>10. /\ task'[h].at = "done" /\ task'[h].todo = {}
        /\ states'[h].known = states[h].known /\ states'[h].confirmed = states[h].confirmed
        /\ states'[h].addresses = {}
        /\ \A g \in Hosts \ {h} : states'[g] = states[g] /\ task'[g] = task[g]
    BY <1>4 DEF DetectionTypes, HostShape
  <2>11. DetectionTypes' BY <1>4 DEF DetectionTypes, HostShape
  <2>12. PhaseInv' BY <1>1, <1>2, <2>10 DEF PhaseInv
  <2>13. detected \subseteq detected' /\ UNCHANGED answers
    BY <1>4 DEF DetectionTypes
  <2>14. AskedInv'
    <3>1. ASSUME task'[h].at \in {"wait", "probe", "done"}, ~states'[h].confirmed,
                 NEW b \in states'[h].addresses
          PROVE  \/ b \in task'[h].todo
                 \/ << "rootdse", b >> \in detected' /\ \E x \in answers' : x[1] = h /\ x[2] = b
      BY <3>1, <2>10, <2>13 DEF AskedInv
    <3> QED BY <3>1, <2>10, <2>13, AskedStep
  <2>15. ConfirmedInv' BY <2>10, <2>13 DEF ConfirmedInv
  <2>16. SemaphoreInv' BY <2>10, <2>13, ProbingBound
  <2> QED BY <1>2, <2>11, <2>12, <2>14, <2>15, <2>16
<1>5. CASE StartProbe(h)
  <2>10. /\ task'[h].at = "probe" /\ task'[h].todo = task[h].todo
        /\ states'[h].known = states[h].known /\ states'[h].confirmed = states[h].confirmed
        /\ states'[h].addresses = states[h].addresses
        /\ \A g \in Hosts \ {h} : states'[g] = states[g] /\ task'[g] = task[g]
    BY <1>5 DEF StartProbe, DetectionTypes, HostShape
  <2>11. DetectionTypes' BY <1>5 DEF StartProbe, DetectionTypes, HostShape
  <2>12. PhaseInv' BY <1>1, <1>2, <2>10 DEF PhaseInv
  <2>13. task[h].at = "wait" /\ UNCHANGED << detected, answers >> /\ Cardinality(Probing) < ProbeConcurrency
    BY <1>5 DEF StartProbe, DetectionTypes
  <2>14. AskedInv'
    <3>1. ASSUME task'[h].at \in {"wait", "probe", "done"}, ~states'[h].confirmed,
                 NEW b \in states'[h].addresses
          PROVE  \/ b \in task'[h].todo
                 \/ << "rootdse", b >> \in detected' /\ \E x \in answers' : x[1] = h /\ x[2] = b
      BY <3>1, <2>10, <2>13 DEF AskedInv
    <3> QED BY <3>1, <2>10, <2>13, AskedStep
  <2>15. ConfirmedInv' BY <2>10, <2>13 DEF ConfirmedInv
  <2>16. SemaphoreInv' BY <2>10, <2>13, ProbingBound
  <2> QED BY <1>2, <2>11, <2>12, <2>14, <2>15, <2>16
<1>6. CASE ProbeReturns(h)
  <2>1. PICK a \in task[h].todo, answer \in {"ad", "not_ad", "malformed", "unreachable"} :
          /\ answers' = answers \union {<< h, a, answer >>}
          /\ IF answer = "ad"
               THEN /\ states' = [states EXCEPT ![h].confirmed = TRUE]
                    /\ task' = [task EXCEPT ![h] = [at |-> "done", todo |-> {}]]
                    /\ UNCHANGED detected
               ELSE /\ detected' = detected \union {<< "rootdse", a >>}
                    /\ task' = [task EXCEPT ![h] = [at |-> "wait", todo |-> task[h].todo \ {a}]]
                    /\ UNCHANGED states
    BY <1>6 DEF ProbeReturns
  <2>2. task[h].at = "probe" /\ a \in ApprovedRange
    BY <1>6, <2>1 DEF ProbeReturns, DetectionTypes
  <2>3. CASE answer = "ad"
    <3>1. /\ states' = [states EXCEPT ![h].confirmed = TRUE]
          /\ task' = [task EXCEPT ![h] = [at |-> "done", todo |-> {}]]
      BY <2>1, <2>3
    <3>2. answers' = answers \union {<< h, a, "ad" >>} /\ UNCHANGED detected
      BY <2>1, <2>3
    <3>10. /\ task'[h].at = "done" /\ task'[h].todo = {}
          /\ states'[h].known = states[h].known /\ states'[h].confirmed = TRUE
          /\ states'[h].addresses = states[h].addresses
          /\ \A g \in Hosts \ {h} : states'[g] = states[g] /\ task'[g] = task[g]
      BY <3>1 DEF DetectionTypes, HostShape
    <3>11. DetectionTypes'
      <4>1. /\ states' = [g \in Hosts |-> states'[g]] /\ \A g \in Hosts : HostShape(states'[g])
            /\ task' \in [Hosts -> [at : {"none", "lookup", "wait", "probe", "done"},
                                   todo : SUBSET ApprovedRange]]
        BY <3>1 DEF DetectionTypes, HostShape
      <4>2. \A x \in answers' : x[2] \in ApprovedRange
        BY <2>2, <3>2 DEF DetectionTypes
      <4> QED BY <4>1, <4>2 DEF DetectionTypes
    <3>12. PhaseInv' BY <1>1, <1>2, <3>10 DEF PhaseInv
    <3>14. AskedInv'
      <4>1. ASSUME task'[h].at \in {"wait", "probe", "done"}, ~states'[h].confirmed,
                   NEW b \in states'[h].addresses
            PROVE  \/ b \in task'[h].todo
                   \/ << "rootdse", b >> \in detected' /\ \E x \in answers' : x[1] = h /\ x[2] = b
        BY <4>1, <3>10, <3>2, <2>2 DEF AskedInv
      <4> QED BY <4>1, <3>10, <3>2, AskedStep
    <3>15. ConfirmedInv'
      <4>1. << h, a, "ad" >> \in answers' /\ << h, a, "ad" >>[1] = h /\ << h, a, "ad" >>[3] = "ad"
        BY <3>2
      <4>2. ASSUME NEW g \in Hosts \ {h}
            PROVE  states'[g].confirmed <=> \E x \in answers' : x[1] = g /\ x[3] = "ad"
        BY <3>2, <3>10 DEF ConfirmedInv
      <4> QED BY <3>10, <4>1, <4>2 DEF ConfirmedInv
    <3>16. SemaphoreInv' BY <3>10, <3>2, ProbingBound
    <3> QED BY <1>2, <3>11, <3>12, <3>14, <3>15, <3>16
  <2>4. CASE answer # "ad"
    <3> DEFINE rest == task[h].todo \ {a}
    <3>1. /\ UNCHANGED states
          /\ task' = [task EXCEPT ![h] = [at |-> "wait", todo |-> rest]]
      BY <2>1, <2>4
    <3>2. /\ detected' = detected \union {<< "rootdse", a >>}
          /\ answers' = answers \union {<< h, a, answer >>}
      BY <2>1, <2>4
    <3>3. rest \subseteq ApprovedRange
      BY DEF DetectionTypes
    <3> HIDE DEF rest
    <3>10. /\ task'[h].at = "wait" /\ task'[h].todo = rest
          /\ states'[h].known = states[h].known /\ states'[h].confirmed = states[h].confirmed
          /\ states'[h].addresses = states[h].addresses
          /\ \A g \in Hosts \ {h} : states'[g] = states[g] /\ task'[g] = task[g]
      BY <3>1 DEF DetectionTypes, HostShape
    <3>11. DetectionTypes'
      <4>1. /\ states' = [g \in Hosts |-> states'[g]] /\ \A g \in Hosts : HostShape(states'[g])
            /\ task' \in [Hosts -> [at : {"none", "lookup", "wait", "probe", "done"},
                                   todo : SUBSET ApprovedRange]]
        BY <3>1, <3>3 DEF DetectionTypes, HostShape
      <4>2. \A x \in answers' : x[2] \in ApprovedRange
        BY <2>2, <3>2 DEF DetectionTypes
      <4> QED BY <4>1, <4>2 DEF DetectionTypes
    <3>12. PhaseInv' BY <1>1, <1>2, <3>10 DEF PhaseInv
    <3>14. AskedInv'
      <4>1. ASSUME task'[h].at \in {"wait", "probe", "done"}, ~states'[h].confirmed,
                   NEW b \in states'[h].addresses
            PROVE  \/ b \in task'[h].todo
                   \/ << "rootdse", b >> \in detected' /\ \E x \in answers' : x[1] = h /\ x[2] = b
        <5>1. CASE b = a
          <6>1. << h, a, answer >> \in answers' /\ << h, a, answer >>[1] = h /\ << h, a, answer >>[2] = a
            BY <3>2
          <6> QED BY <5>1, <6>1, <3>2
        <5>2. CASE b # a
          <6>1. \/ b \in task[h].todo
                \/ << "rootdse", b >> \in detected /\ \E x \in answers : x[1] = h /\ x[2] = b
            BY <4>1, <3>10, <2>2 DEF AskedInv
          <6> QED BY <5>2, <6>1, <3>2, <3>10 DEF rest
        <5> QED BY <5>1, <5>2
      <4> QED BY <4>1, <3>10, <3>2, AskedStep
    <3>15. ConfirmedInv' BY <3>10, <3>2, <2>2, <2>4 DEF ConfirmedInv
    <3>16. SemaphoreInv' BY <3>10, <3>2, ProbingBound
    <3> QED BY <1>2, <3>11, <3>12, <3>14, <3>15, <3>16
  <2> QED BY <2>3, <2>4
<1>7. CASE TaskEnds(h)
  <2>10. /\ task'[h].at = "done" /\ task'[h].todo = {}
        /\ states'[h].known = states[h].known /\ states'[h].confirmed = states[h].confirmed
        /\ states'[h].addresses = states[h].addresses
        /\ \A g \in Hosts \ {h} : states'[g] = states[g] /\ task'[g] = task[g]
    BY <1>7 DEF TaskEnds, DetectionTypes, HostShape
  <2>11. DetectionTypes' BY <1>7 DEF TaskEnds, DetectionTypes, HostShape
  <2>12. PhaseInv' BY <1>1, <1>2, <2>10 DEF PhaseInv
  <2>13. task[h].at = "wait" /\ task[h].todo = {} /\ UNCHANGED << detected, answers >>
    BY <1>7 DEF TaskEnds, DetectionTypes
  <2>14. AskedInv'
    <3>1. ASSUME task'[h].at \in {"wait", "probe", "done"}, ~states'[h].confirmed,
                 NEW b \in states'[h].addresses
          PROVE  \/ b \in task'[h].todo
                 \/ << "rootdse", b >> \in detected' /\ \E x \in answers' : x[1] = h /\ x[2] = b
      BY <3>1, <2>10, <2>13 DEF AskedInv
    <3> QED BY <3>1, <2>10, <2>13, AskedStep
  <2>15. ConfirmedInv' BY <2>10, <2>13 DEF ConfirmedInv
  <2>16. SemaphoreInv' BY <2>10, <2>13, ProbingBound
  <2> QED BY <1>2, <2>11, <2>12, <2>14, <2>15, <2>16
<1>8. UseStored(h) \/ LookUp(h) =>
          \/ \E found :
                 ApproveAddresses(h, found) /\ task[h].at = "lookup" /\ UNCHANGED answers
          \/ /\ task[h].at = "lookup" /\ states[h].addresses = {}
             /\ \E x : detected' = detected \union {x}
             /\ task' = [task EXCEPT ![h] = [at |-> "done", todo |-> {}]]
             /\ UNCHANGED << states, answers >>
  BY DEF UseStored, LookUp, DetectionTypes
<1> QED BY <1>3, <1>4, <1>5, <1>6, <1>7, <1>8

(* gather, and what the command stores of the result.                      *)
LEMMA ResultKeeps ==
  ASSUME DetectionInv, Detected \/ PersistDetection
  PROVE  DetectionInv'
<1> USE DEF DetectionInv
<1>1. UNCHANGED << asked, states, task, detected, answers >>
  BY DEF Detected, PersistDetection
<1>2. DetectionTypes' /\ AskedInv' /\ ConfirmedInv' /\ SemaphoreInv'
  BY <1>1 DEF DetectionTypes, AskedInv, ConfirmedInv, SemaphoreInv, Probing
<1>3. PhaseInv'
  BY <1>1 DEF PhaseInv, Detected, PersistDetection
<1>4. SucceededInv'
  BY <1>1 DEF SucceededInv, PhaseInv, AskedInv, Detected, PersistDetection, Candidates
<1> QED BY <1>2, <1>3, <1>4

(* The detection of domain controllers is honest: whatever DNS answers and *)
(* the services table holds, and however the probes of the hosts           *)
(* interleave, only approved addresses are asked, within the semaphore, a  *)
(* host is confirmed by its own answer, and a run is recorded as succeeded *)
(* only with every host found confirmed and stored (_resolve_and_probe,    *)
(* persist_detection).                                                     *)
THEOREM DetectionIsHonest == DetectionSpec => []DetectionHonest
<1>1. DetectionInv /\ [DetectionNext]_detectionVars => DetectionInv'
  <2> SUFFICES ASSUME DetectionInv, [DetectionNext]_detectionVars PROVE DetectionInv'
    OBVIOUS
  <2>1. CASE UNCHANGED detectionVars
    BY <2>1 DEF detectionVars, DetectionInv, DetectionTypes, PhaseInv, AskedInv, ConfirmedInv,
                SemaphoreInv, SucceededInv, Probing
  <2> QED BY <2>1, PreparationKeeps, TaskKeeps, ResultKeeps DEF DetectionNext
<1>2. DetectionInv => DetectionHonest
  BY DEF DetectionInv, DetectionTypes, PhaseInv, AskedInv, ConfirmedInv, SemaphoreInv, SucceededInv,
         DetectionHonest
<1> QED BY <1>1, <1>2, DetectionInitially, PTL DEF DetectionSpec
-----------------------------------------------------------------------------
(* The items taken so far, those of them that are valid at the snapshot,   *)
(* and the edges these give with the subnets known.                        *)
Taken == evidence \ left

Shown == { e \in Taken : e.from <= AsOf /\ AsOf < e.until }

Given == UNION { Adds(e).edges : e \in Shown }

(* An edge: whether it is inferred follows from its kind.                  *)
EdgeShape(x) ==
    /\ x = [source |-> x.source, target |-> x.target, kind |-> x.kind, by |-> x.by,
            confidence |-> x.confidence, from |-> x.from, until |-> x.until,
            inferred |-> x.kind = "inferred_subnet_membership"]
    /\ x.confidence \in Nat /\ x.from \in Nat /\ x.until \in Nat

(* The evidence is one of the scenes, taken stage by stage.                *)
TakenInv ==
    /\ evidence \in Scenes /\ left \subseteq evidence
    /\ \A e \in Taken, d \in left : Stage(e) <= Stage(d)

SubnetsInv ==
    /\ subnets \in Seq(evidence)
    /\ \A i \in DOMAIN subnets :
           subnets[i].kind = "subnet" /\ << "subnet", subnets[i].cidr >> \in nodes

NodesInv == nodes = {Local} \union UNION { Adds(e).nodes : e \in Shown }

(* One edge for each key that is given, and none given is better.          *)
EdgesInv ==
    /\ edges \subseteq Given
    /\ \A x, y \in edges : SameKey(x, y) => x = y
    /\ \A x \in Given : \E y \in edges : SameKey(x, y) /\ ~Better(x, y)
    /\ \A x \in edges : EdgeShape(x) /\ {x.source, x.target} \subseteq nodes

NotesInv == \A n \in notes : \E e \in Shown : n \in Adds(e).notes

CountInv ==
    /\ excluded \in [expired : Nat, future : Nat]
    /\ excluded.expired + excluded.future = Cardinality(Taken \ Shown)

TopologyInv == TakenInv /\ SubnetsInv /\ NodesInv /\ EdgesInv /\ NotesInv /\ CountInv

-----------------------------------------------------------------------------
LEMMA StageFacts ==
  \A e : /\ Stage(e) \in {1, 2, 3}
         /\ Stage(e) = 1 <=> e.kind = "subnet"
BY DEF Stage

LEMMA EdgeFacts ==
  ASSUME NEW e, NEW s, NEW t, NEW kind, NEW c \in Nat, e.from \in Nat, e.until \in Nat
  PROVE  LET x == Edge(e, s, t, kind, c)
         IN  EdgeShape(x) /\ x.source = s /\ x.target = t /\ x.kind = kind
BY DEF Edge, EdgeShape

(* A subnet that holds an address is one of those listed, and there is at  *)
(* most one.                                                               *)
LEMMA SubnetForFacts ==
  ASSUME SubnetsInv, NEW address
  PROVE  \/ SubnetFor(address) = {}
         \/ \E i \in DOMAIN subnets : SubnetFor(address) = {subnets[i]}
<1> DEFINE holds == { i \in DOMAIN subnets : address \in subnets[i].cidr }
           best  == { i \in holds : \A j \in holds :
                          Cardinality(subnets[i].cidr) <= Cardinality(subnets[j].cidr) }
<1>1. best \subseteq DOMAIN subnets /\ best \subseteq Nat
  BY DEF SubnetsInv
<1>2. best # {} => Min(best) \in best
  BY <1>1, MinIsMember
<1>3. SubnetFor(address) = IF best = {} THEN {} ELSE {subnets[Min(best)]}
  BY DEF SubnetFor
<1> HIDE DEF best
<1> QED BY <1>1, <1>2, <1>3

(* What an item says: edges with keys of their own, between its own nodes, *)
(* the local device and the subnets known.                                 *)
ItemSound(N, E) ==
    /\ \A x \in E : /\ EdgeShape(x)
                    /\ {x.source, x.target} \subseteq nodes \union N
    /\ \A x, y \in E : SameKey(x, y) => x = y

LEMMA MembershipFacts ==
  ASSUME TakenInv, SubnetsInv, NEW e \in evidence, NEW device, NEW address, NEW c \in Nat
  PROVE  /\ \A x \in Membership(e, device, address, c) :
                /\ EdgeShape(x) /\ x.source = device /\ x.target \in nodes
                /\ x.kind = "inferred_subnet_membership"
         /\ \A x, y \in Membership(e, device, address, c) : x = y
<1>1. e.from \in Nat /\ e.until \in Nat
  BY ScenesAssumption DEF TakenInv
<1>2. CASE SubnetFor(address) = {}
  BY <1>2 DEF Membership
<1>3. ASSUME NEW i \in DOMAIN subnets, SubnetFor(address) = {subnets[i]}
      PROVE  LET x == Edge(e, device, << "subnet", subnets[i].cidr >>, "inferred_subnet_membership",
                           Min({c, subnets[i].confidence}))
             IN  /\ Membership(e, device, address, c) = {x}
                 /\ EdgeShape(x) /\ x.source = device /\ x.target \in nodes
                 /\ x.kind = "inferred_subnet_membership"
  <2>1. subnets[i] \in evidence /\ subnets[i].kind = "subnet" /\ << "subnet", subnets[i].cidr >> \in nodes
    BY DEF SubnetsInv
  <2>2. subnets[i].confidence \in Nat
    BY <2>1, ScenesAssumption DEF TakenInv
  <2>3. Min({c, subnets[i].confidence}) \in Nat
    BY <2>2, MinIsMember
  <2>4. Membership(e, device, address, c) =
            {Edge(e, device, << "subnet", subnets[i].cidr >>, "inferred_subnet_membership",
                  Min({c, subnets[i].confidence}))}
    BY <1>3 DEF Membership
  <2> QED BY <1>1, <2>1, <2>3, <2>4, EdgeFacts
<1> QED BY <1>2, <1>3, SubnetForFacts

(* The cases of build_topology's loop body.                                *)
LEMMA AddsCases ==
  ASSUME NEW e
  PROVE  /\ e.kind = "subnet" => Adds(e) = Contribution({<< "subnet", e.cidr >>}, {})
         /\ e.kind = "vlan" =>
               LET v == << "vlan", e.vlan >>
                   nets == { << "subnet", c >> : c \in {e.cidr} \ {Absent} }
               IN  Adds(e) = Contribution({v} \union nets,
                                 { Edge(e, v, n, "vlan_subnet", e.confidence) : n \in nets })
         /\ \/ e.kind \in {"subnet", "vlan"} \/ Adds(e) \in {LinkLayer(e), Mdns(e), Dhcp(e), Neighbor(e)}
            \/ Adds(e).edges = {} /\ Adds(e).nodes = {}
<1>1. e.kind = "subnet" => Adds(e) = Contribution({<< "subnet", e.cidr >>}, {})
  BY Zenon DEF Adds
<1>2. e.kind = "vlan" =>
               LET v == << "vlan", e.vlan >>
                   nets == { << "subnet", c >> : c \in {e.cidr} \ {Absent} }
               IN  Adds(e) = Contribution({v} \union nets,
                                 { Edge(e, v, n, "vlan_subnet", e.confidence) : n \in nets })
  BY Zenon DEF Adds
<1>3. \/ e.kind \in {"subnet", "vlan"} \/ Adds(e) \in {LinkLayer(e), Mdns(e), Dhcp(e), Neighbor(e)}
      \/ Adds(e) = [Nothing EXCEPT !.notes = {<< e.kind, e.address >>}]
      \/ Adds(e) = Nothing
  BY Zenon DEF Adds
<1>4. ASSUME \/ Adds(e) = [Nothing EXCEPT !.notes = {<< e.kind, e.address >>}] \/ Adds(e) = Nothing
      PROVE  Adds(e).edges = {} /\ Adds(e).nodes = {}
  BY <1>4 DEF Nothing, Contribution
<1> QED BY <1>1, <1>2, <1>3, <1>4

LEMMA MdnsCases ==
  ASSUME NEW e
  PROVE  \/ Mdns(e) = Nothing
         \/ Mdns(e) = Contribution({<< "service", e.service >>, << "instance", e.instance >>},
                        {Edge(e, << "service", e.service >>, << "instance", e.instance >>, "advertises", 95)})
         \/ Mdns(e) = Contribution({<< "instance", e.instance >>, Device("hostname", e.hostname)},
                        {Edge(e, << "instance", e.instance >>, Device("hostname", e.hostname), "service_host", 95)})
         \/ Mdns(e) = Contribution({Device("hostname", e.hostname)},
                        Membership(e, Device("hostname", e.hostname), e.address, 70))
<1> DEFINE Needs == CASE e.kind = "mdns_service"  -> {e.service, e.instance}
                      [] e.kind = "mdns_instance" -> {e.instance, e.hostname}
                      [] OTHER                    -> {e.hostname, e.address}
           Silent == e.action # "announce" \/ Absent \in Needs
<1>1. CASE Silent
  <2>1. Mdns(e) = Nothing
    BY <1>1, Zenon DEF Mdns
  <2> QED BY <2>1
<1>2. CASE ~Silent /\ e.kind = "mdns_service"
  BY <1>2, Zenon DEF Mdns
<1>3. CASE ~Silent /\ e.kind = "mdns_instance"
  BY <1>3, Zenon DEF Mdns
<1>4. CASE ~Silent /\ e.kind \notin {"mdns_service", "mdns_instance"}
  BY <1>4, Zenon DEF Mdns
<1> QED BY <1>1, <1>2, <1>3, <1>4

LEMMA ContributionFacts ==
  \A N, E : Contribution(N, E).nodes = N /\ Contribution(N, E).edges = E
            /\ Contribution(N, E).claims = {} /\ Contribution(N, E).notes = {}
BY DEF Contribution

(* No edge, and one edge between two nodes of the item.                    *)
LEMMA SmallSound ==
  ASSUME NEW N
  PROVE  /\ ItemSound(N, {})
         /\ \A x : EdgeShape(x) /\ {x.source, x.target} \subseteq nodes \union N => ItemSound(N, {x})
BY DEF ItemSound

LEMMA ItemFacts ==
  ASSUME TakenInv, SubnetsInv, NodesInv, NEW e \in evidence
  PROVE  ItemSound(Adds(e).nodes, Adds(e).edges)
<1>1. e.from \in Nat /\ e.until \in Nat /\ (e.kind \in {"subnet", "vlan"} => e.confidence \in Nat)
  BY ScenesAssumption DEF TakenInv
<1>2. Local \in nodes
  BY DEF NodesInv
<1>3. CASE e.kind = "subnet"
  <2>1. Adds(e) = Contribution({<< "subnet", e.cidr >>}, {})
    BY <1>3, AddsCases
  <2> QED BY <2>1, ContributionFacts, SmallSound
<1>4. CASE e.kind = "vlan"
  <2> DEFINE v == << "vlan", e.vlan >>
             nets == { << "subnet", c >> : c \in {e.cidr} \ {Absent} }
             E == { Edge(e, v, n, "vlan_subnet", e.confidence) : n \in nets }
  <2>1. Adds(e).nodes = {v} \union nets /\ Adds(e).edges = E
    <3>1. Adds(e) = Contribution({v} \union nets, E)
      BY <1>4, AddsCases
    <3> QED BY <3>1, ContributionFacts
  <2>2. \A n \in nets : LET x == Edge(e, v, n, "vlan_subnet", e.confidence)
                        IN  EdgeShape(x) /\ x.source = v /\ x.target = n
    BY <1>1, <1>4, EdgeFacts
  <2> HIDE DEF v, nets
  <2> QED BY <2>1, <2>2 DEF ItemSound, SameKey
<1>5. ItemSound(LinkLayer(e).nodes, LinkLayer(e).edges)
  <2>1. CASE Absent \in {e.chassis, e.port}
    <3>1. LinkLayer(e).nodes = {} /\ LinkLayer(e).edges = {}
      BY <2>1 DEF LinkLayer
    <3> QED BY <3>1, SmallSound
  <2>2. CASE Absent \notin {e.chassis, e.port}
    <3> DEFINE remote == Device("chassis", e.chassis)
               vlans  == { << "vlan", v >> : v \in {e.vlan} \intersect 0..4094 }
               up == Edge(e, Local, remote, "link_layer_neighbor", 99)
               E == { Edge(e, remote, v, "observed_vlan", 95) : v \in vlans }
    <3>1. LinkLayer(e).nodes = {remote} \union vlans /\ LinkLayer(e).edges = {up} \union E
      BY <2>2 DEF LinkLayer
    <3>2. EdgeShape(up) /\ up.source = Local /\ up.target = remote /\ up.kind = "link_layer_neighbor"
      BY <1>1, EdgeFacts
    <3>3. \A v \in vlans : LET x == Edge(e, remote, v, "observed_vlan", 95)
                           IN  EdgeShape(x) /\ x.source = remote /\ x.target = v /\ x.kind = "observed_vlan"
      BY <1>1, EdgeFacts
    <3> HIDE DEF remote, vlans, up
    <3> QED BY <1>2, <3>1, <3>2, <3>3 DEF ItemSound, SameKey
  <2> QED BY <2>1, <2>2
<1>6. ItemSound(Mdns(e).nodes, Mdns(e).edges)
  <2> DEFINE host == Device("hostname", e.hostname)
             M == Membership(e, host, e.address, 70)
  <2>1. ASSUME NEW s, NEW t, NEW kind
        PROVE  ItemSound({s, t}, {Edge(e, s, t, kind, 95)})
    BY <1>1, EdgeFacts, SmallSound
  <2>2. ItemSound({host}, M)
    <3>1. /\ \A x \in M : EdgeShape(x) /\ x.source = host /\ x.target \in nodes
          /\ \A x, y \in M : x = y
      BY MembershipFacts
    <3> HIDE DEF host, M
    <3> QED BY <3>1 DEF ItemSound
  <2>3. ItemSound({}, {})
    BY SmallSound
  <2>4. \/ Mdns(e) = Contribution({}, {}) \/ Mdns(e) = Contribution({host}, M)
        \/ \E s, t, kind : Mdns(e) = Contribution({s, t}, {Edge(e, s, t, kind, 95)})
    BY MdnsCases DEF Nothing
  <2> HIDE DEF host, M
  <2>5. ASSUME NEW s, NEW t, NEW kind, Mdns(e) = Contribution({s, t}, {Edge(e, s, t, kind, 95)})
        PROVE  ItemSound(Mdns(e).nodes, Mdns(e).edges)
    BY <2>1, <2>5, ContributionFacts
  <2>6. CASE Mdns(e) \in {Contribution({}, {}), Contribution({host}, M)}
    BY <2>2, <2>3, <2>6, ContributionFacts
  <2> QED BY <2>4, <2>5, <2>6
<1>7. ItemSound(Dhcp(e).nodes, Dhcp(e).edges)
  <2> DEFINE client == IF e.mac # Absent THEN Device("mac", e.mac) ELSE Device("client_id", e.client)
             servers == { Device("ipv4", s) : s \in {e.server} \ {Absent} }
             M == Membership(e, client, e.address, 90)
             E == { Edge(e, s, client, "dhcp_lease", 90) : s \in servers }
  <2>1. \/ Dhcp(e) = Nothing
        \/ Dhcp(e) = Contribution({client} \union servers, M \union E)
    BY DEF Dhcp
  <2>2. /\ \A x \in M : EdgeShape(x) /\ x.source = client /\ x.target \in nodes
                        /\ x.kind = "inferred_subnet_membership"
        /\ \A x, y \in M : x = y
    BY MembershipFacts
  <2>3. \A s \in servers : LET x == Edge(e, s, client, "dhcp_lease", 90)
                           IN  EdgeShape(x) /\ x.source = s /\ x.target = client /\ x.kind = "dhcp_lease"
    BY <1>1, EdgeFacts
  <2>4. ItemSound({client} \union servers, M \union E)
    <3> HIDE DEF client, servers, M
    <3> QED BY <2>2, <2>3 DEF ItemSound, SameKey
  <2> HIDE DEF client, servers, M, E
  <2> QED BY <2>1, <2>4, ContributionFacts, SmallSound DEF Nothing
<1>8. ItemSound(Neighbor(e).nodes, Neighbor(e).edges)
  <2> DEFINE device == Device("mac", e.mac)
             M == Membership(e, device, e.address, 75)
  <2>1. \/ Neighbor(e) = Nothing
        \/ Neighbor(e) = Contribution({device}, M)
    BY DEF Neighbor
  <2>2. ItemSound({device}, M)
    <3>1. /\ \A x \in M : EdgeShape(x) /\ x.source = device /\ x.target \in nodes
          /\ \A x, y \in M : x = y
      BY MembershipFacts
    <3> HIDE DEF device, M
    <3> QED BY <3>1 DEF ItemSound
  <2> HIDE DEF device, M
  <2> QED BY <2>1, <2>2, ContributionFacts, SmallSound DEF Nothing
<1> QED BY <1>3, <1>4, <1>5, <1>6, <1>7, <1>8, AddsCases, SmallSound

-----------------------------------------------------------------------------
(* The merge of edges with one key: Better is a strict order that tells    *)
(* two edges with one key apart.                                           *)
LEMMA BetterOrder ==
  ASSUME NEW x, NEW y, NEW z, EdgeShape(x), EdgeShape(y), EdgeShape(z)
  PROVE  /\ ~Better(x, x)
         /\ Better(x, y) /\ Better(y, z) => Better(x, z)
         /\ SameKey(x, y) /\ ~Better(x, y) /\ ~Better(y, x) => x = y
<1>1. ~Better(x, x)
  BY DEF EdgeShape, Better
<1>2. Better(x, y) /\ Better(y, z) => Better(x, z)
  BY DEF EdgeShape, Better
<1>3. ASSUME SameKey(x, y), ~Better(x, y), ~Better(y, x)
      PROVE  x = y
  <2>1. x.confidence = y.confidence /\ x.from = y.from /\ x.until = y.until
    BY <1>3 DEF EdgeShape, Better
  <2>2. x.source = y.source /\ x.target = y.target /\ x.kind = y.kind /\ x.by = y.by
    BY <1>3 DEF SameKey
  <2> QED BY <2>1, <2>2 DEF EdgeShape
<1> QED BY <1>1, <1>2, <1>3

(* _Builder.edge keeps one edge for each key, the best of all given.       *)
LEMMA MergeKeepsBest ==
  ASSUME NEW E, NEW X, NEW G, E \subseteq G,
         \A x \in G \union X : EdgeShape(x),
         \A x, y \in E : SameKey(x, y) => x = y,
         \A x, y \in X : SameKey(x, y) => x = y,
         \A x \in G : \E y \in E : SameKey(x, y) /\ ~Better(x, y)
  PROVE  /\ AddEdges(E, X) \subseteq E \union X
         /\ \A x, y \in AddEdges(E, X) : SameKey(x, y) => x = y
         /\ \A x \in G \union X : \E y \in AddEdges(E, X) : SameKey(x, y) /\ ~Better(x, y)
<1> DEFINE Old == { y \in E : \A x \in X : SameKey(x, y) => ~Better(x, y) }
           New == { x \in X : \A y \in E : SameKey(x, y) => Better(x, y) }
<1>1. AddEdges(E, X) = Old \union New
  BY DEF AddEdges
<1>2. \A x, y, z : /\ SameKey(x, x) /\ (SameKey(x, y) => SameKey(y, x))
                   /\ SameKey(x, y) /\ SameKey(y, z) => SameKey(x, z)
  BY DEF SameKey
<1>3. ASSUME NEW x \in AddEdges(E, X), NEW y \in AddEdges(E, X), SameKey(x, y)
      PROVE  x = y
  <2>1. CASE x \in Old /\ y \in New
    BY <1>2, <1>3, <2>1
  <2>2. CASE x \in New /\ y \in Old
    BY <1>2, <1>3, <2>2
  <2> QED BY <1>1, <1>3, <2>1, <2>2
<1>4. ASSUME NEW x \in G
      PROVE  \E y \in Old \union New : SameKey(x, y) /\ ~Better(x, y)
  <2>1. PICK y \in E : SameKey(x, y) /\ ~Better(x, y)
    BY <1>4
  <2>2. CASE y \in Old
    BY <2>1, <2>2
  <2>3. CASE y \notin Old
    <3>1. PICK z \in X : SameKey(z, y) /\ Better(z, y)
      BY <2>3
    <3>2. z \in New
      <4>1. ASSUME NEW w \in E, SameKey(z, w)
            PROVE  Better(z, w)
        <5>1. SameKey(w, y)
          BY <1>2, <3>1, <4>1
        <5> QED BY <3>1, <5>1
      <4> QED BY <4>1
    <3>3. SameKey(x, z)
      BY <1>2, <2>1, <3>1
    <3>4. ~Better(x, z)
      BY <2>1, <3>1, BetterOrder
    <3> QED BY <3>2, <3>3, <3>4
  <2> QED BY <2>2, <2>3
<1>5. ASSUME NEW x \in X
      PROVE  \E y \in Old \union New : SameKey(x, y) /\ ~Better(x, y)
  <2>1. CASE x \in New
    BY <1>2, <2>1, BetterOrder
  <2>2. CASE x \notin New
    <3>1. PICK y \in E : SameKey(x, y) /\ ~Better(x, y)
      BY <2>2
    <3>2. y \in Old
      <4>1. ASSUME NEW z \in X, SameKey(z, y)
            PROVE  ~Better(z, y)
        <5>1. SameKey(z, x)
          BY <1>2, <3>1, <4>1
        <5> QED BY <3>1, <5>1
      <4> QED BY <4>1
    <3> QED BY <3>1, <3>2
  <2> QED BY <2>1, <2>2
<1> HIDE DEF Old, New
<1>6. Old \union New \subseteq E \union X
  BY DEF Old, New
<1> QED BY <1>1, <1>3, <1>4, <1>5, <1>6

-----------------------------------------------------------------------------
(* What an item says depends on the subnets known, and on nothing else.    *)
LEMMA AddsUnchanged ==
  ASSUME UNCHANGED subnets, NEW e
  PROVE  Adds(e)' = Adds(e)
<1>1. ASSUME NEW address
      PROVE  SubnetFor(address)' = SubnetFor(address)
  BY DEF SubnetFor
<1>2. ASSUME NEW device, NEW address, NEW c
      PROVE  Membership(e, device, address, c)' = Membership(e, device, address, c)
  BY <1>1 DEF Membership
<1>3. Mdns(e)' = Mdns(e)
  BY <1>2, Zenon DEF Mdns
<1>4. Dhcp(e)' = Dhcp(e)
  BY <1>2, Zenon DEF Dhcp
<1>5. Neighbor(e)' = Neighbor(e)
  BY <1>2, Zenon DEF Neighbor
<1> QED BY <1>3, <1>4, <1>5, Zenon DEF Adds

(* A subnet gives its node, and neither edge nor conflict.                 *)
LEMMA SubnetAdds ==
  ASSUME NEW e, e.kind = "subnet"
  PROVE  /\ Adds(e).nodes = {<< "subnet", e.cidr >>} /\ Adds(e).edges = {} /\ Adds(e).notes = {}
         /\ Adds(e)' = Adds(e)
<1>1. Adds(e) = Contribution({<< "subnet", e.cidr >>}, {})
  BY AddsCases
<1>2. Adds(e)' = Contribution({<< "subnet", e.cidr >>}, {})
  BY Zenon DEF Adds
<1> QED BY <1>1, <1>2, ContributionFacts

LEMMA TopologyInitially == TopologyInit => TopologyInv
<1> SUFFICES ASSUME NEW items \in Scenes, TopologyStart(items) PROVE TopologyInv
  BY DEF TopologyInit
<1>1. Taken = {} /\ Shown = {} /\ Given = {}
  BY DEF TopologyStart, Taken, Shown, Given
<1>2. TakenInv
  BY <1>1 DEF TopologyStart, TakenInv
<1>3. SubnetsInv /\ NodesInv /\ EdgesInv /\ NotesInv
  BY <1>1 DEF TopologyStart, SubnetsInv, NodesInv, EdgesInv, NotesInv
<1>4. CountInv
  <2>1. Taken \ Shown = {}
    BY <1>1
  <2> QED BY <2>1, FS_EmptySet DEF TopologyStart, CountInv
<1> QED BY <1>2, <1>3, <1>4 DEF TopologyInv

(* Taking the next item in its stage.                                      *)
LEMMA TakeNext ==
  ASSUME TakenInv, NEW e \in left, Due(e), left' = left \ {e}, UNCHANGED evidence
  PROVE  /\ TakenInv' /\ Taken' = Taken \union {e} /\ e \notin Taken /\ e \in evidence
         /\ e.from \in Nat /\ e.until \in Nat
         /\ Active(e) => Shown' = Shown \union {e} /\ Taken' \ Shown' = Taken \ Shown
         /\ ~Active(e) => Shown' = Shown /\ Taken' \ Shown' = (Taken \ Shown) \union {e}
<1>1. /\ Taken' = Taken \union {e} /\ e \notin Taken /\ e \in evidence
      /\ e.from \in Nat /\ e.until \in Nat
  BY ScenesAssumption DEF TakenInv, Taken
<1>2. TakenInv'
  BY <1>1 DEF TakenInv, Due
<1>3. Active(e) <=> e.from <= AsOf /\ AsOf < e.until
  BY <1>1, TimeAssumption DEF Active, Future, Expired
<1>4. Active(e) => Shown' = Shown \union {e}
  BY <1>1, <1>3 DEF Shown
<1>5. ~Active(e) => Shown' = Shown
  BY <1>1, <1>3 DEF Shown
<1>6. Shown \subseteq Taken
  BY DEF Shown
<1> QED BY <1>1, <1>2, <1>4, <1>5, <1>6

(* An item left out is counted.                                            *)
LEMMA ExcludeKeeps ==
  ASSUME TopologyInv, NEW e \in left, Exclude(e)
  PROVE  TopologyInv'
<1> USE DEF TopologyInv
<1>1. /\ Due(e) /\ ~Active(e) /\ left' = left \ {e}
      /\ UNCHANGED << evidence, subnets, nodes, edges, claims, notes >>
  BY DEF Exclude
<1>2. /\ TakenInv' /\ Taken' = Taken \union {e} /\ e \notin Taken
      /\ Shown' = Shown /\ Taken' \ Shown' = (Taken \ Shown) \union {e}
  BY <1>1, TakeNext
<1>3. \A d : Adds(d)' = Adds(d)
  BY <1>1, AddsUnchanged
<1>4. SubnetsInv'
  BY <1>1 DEF SubnetsInv
<1>5. NodesInv' /\ NotesInv'
  BY <1>1, <1>2, <1>3 DEF NodesInv, NotesInv
<1>6. EdgesInv'
  <2>1. Given' = Given
    BY <1>2, <1>3 DEF Given
  <2> QED BY <1>1, <2>1 DEF EdgesInv
<1>7. CountInv'
  <2>1. IsFiniteSet(Taken \ Shown)
    <3>1. IsFiniteSet(evidence) /\ Taken \ Shown \subseteq evidence
      BY ScenesAssumption DEF TakenInv, Taken
    <3> QED BY <3>1, FS_Subset
  <2>2. Cardinality((Taken \ Shown) \union {e}) = Cardinality(Taken \ Shown) + 1
    BY <1>2, <2>1, FS_AddElement
  <2>3. \/ excluded' = [excluded EXCEPT !.future = excluded.future + 1]
        \/ excluded' = [excluded EXCEPT !.expired = excluded.expired + 1]
    BY DEF Exclude
  <2>4. /\ excluded' \in [expired : Nat, future : Nat]
        /\ excluded'.expired + excluded'.future = excluded.expired + excluded.future + 1
    BY <2>3 DEF CountInv
  <2> QED BY <1>2, <2>2, <2>4 DEF CountInv
<1> QED BY <1>2, <1>4, <1>5, <1>6, <1>7

(* A subnet comes before every item that looks one up, so it changes what  *)
(* none of those taken says.                                               *)
LEMMA IncludeSubnetKeeps ==
  ASSUME TopologyInv, NEW e \in left, Include(e), e.kind = "subnet"
  PROVE  TopologyInv'
<1> USE DEF TopologyInv
<1>1. /\ Due(e) /\ Active(e) /\ left' = left \ {e} /\ UNCHANGED << evidence, excluded >>
      /\ nodes' = nodes \union Adds(e).nodes /\ edges' = AddEdges(edges, Adds(e).edges)
      /\ notes' = notes \union Adds(e).notes /\ subnets' = Append(subnets, e)
  BY DEF Include
<1>2. /\ TakenInv' /\ Taken' = Taken \union {e} /\ e \notin Taken /\ e \in evidence
      /\ Shown' = Shown \union {e} /\ Taken' \ Shown' = Taken \ Shown
  BY <1>1, TakeNext
<1>3. \A d \in Shown' : d.kind = "subnet"
  BY <1>2, StageFacts DEF TakenInv, Shown
<1>4. \A d \in Shown' : /\ Adds(d).nodes = {<< "subnet", d.cidr >>} /\ Adds(d).edges = {}
                        /\ Adds(d).notes = {} /\ Adds(d)' = Adds(d)
  BY <1>3, SubnetAdds
<1>5. Adds(e).edges = {} /\ Adds(e).notes = {} /\ Adds(e).nodes = {<< "subnet", e.cidr >>}
  BY <1>2, <1>4
<1>6. SubnetsInv'
  <2>1. subnets \in Seq(evidence) /\ Append(subnets, e) \in Seq(evidence)
    BY <1>2 DEF SubnetsInv
  <2>2. ASSUME NEW i \in DOMAIN Append(subnets, e)
        PROVE  Append(subnets, e)[i].kind = "subnet" /\ << "subnet", Append(subnets, e)[i].cidr >> \in nodes'
    <3>1. \/ i \in DOMAIN subnets /\ Append(subnets, e)[i] = subnets[i]
          \/ Append(subnets, e)[i] = e
      BY <2>1
    <3> QED BY <1>1, <1>5, <3>1 DEF SubnetsInv
  <2> QED BY <1>1, <2>1, <2>2 DEF SubnetsInv
<1>7. NodesInv'
  BY <1>1, <1>2, <1>4 DEF NodesInv
<1>8. NotesInv'
  <2>1. notes' = notes /\ \A d \in Shown : d \in Shown' /\ Adds(d)' = Adds(d)
    BY <1>1, <1>2, <1>4, <1>5
  <2> QED BY <2>1 DEF NotesInv
<1>9. EdgesInv'
  <2>1. Given = {} /\ Given' = {}
    BY <1>2, <1>4 DEF Given
  <2>2. edges = {} /\ edges' = {}
    BY <1>1, <1>5, <2>1 DEF EdgesInv, AddEdges
  <2> QED BY <2>1, <2>2 DEF EdgesInv
<1>10. CountInv'
  BY <1>1, <1>2 DEF CountInv
<1> QED BY <1>2, <1>6, <1>7, <1>8, <1>9, <1>10

(* Every other item leaves the subnets alone, and merges its edges.        *)
LEMMA IncludeOtherKeeps ==
  ASSUME TopologyInv, NEW e \in left, Include(e), e.kind # "subnet"
  PROVE  TopologyInv'
<1> USE DEF TopologyInv
<1>1. /\ Due(e) /\ Active(e) /\ left' = left \ {e} /\ UNCHANGED << evidence, excluded, subnets >>
      /\ nodes' = nodes \union Adds(e).nodes /\ edges' = AddEdges(edges, Adds(e).edges)
      /\ notes' = notes \union Adds(e).notes
  BY DEF Include
<1>2. /\ TakenInv' /\ Taken' = Taken \union {e} /\ e \notin Taken /\ e \in evidence
      /\ Shown' = Shown \union {e} /\ Taken' \ Shown' = Taken \ Shown
  BY <1>1, TakeNext
<1>3. \A d : Adds(d)' = Adds(d)
  BY <1>1, AddsUnchanged
<1>4. SubnetsInv'
  BY <1>1 DEF SubnetsInv
<1>5. NodesInv'
  BY <1>1, <1>2, <1>3 DEF NodesInv
<1>6. NotesInv'
  BY <1>1, <1>2, <1>3 DEF NotesInv
<1>7. EdgesInv'
  <2> DEFINE X == Adds(e).edges
  <2>1. Given' = Given \union X
    BY <1>2, <1>3 DEF Given
  <2>2. /\ \A x \in X : EdgeShape(x) /\ {x.source, x.target} \subseteq nodes'
        /\ \A x, y \in X : SameKey(x, y) => x = y
    BY <1>1, <1>2, ItemFacts DEF ItemSound
  <2>3. \A x \in Given : EdgeShape(x)
    <3>1. ASSUME NEW d \in Shown, NEW x \in Adds(d).edges
          PROVE  EdgeShape(x)
      <4>1. d \in evidence
        BY DEF Shown, Taken
      <4> QED BY <4>1, ItemFacts DEF ItemSound
    <3> QED BY <3>1 DEF Given
  <2> HIDE DEF X
  <2>4. /\ edges' \subseteq edges \union X
        /\ \A x, y \in edges' : SameKey(x, y) => x = y
        /\ \A x \in Given \union X : \E y \in edges' : SameKey(x, y) /\ ~Better(x, y)
    <3>1. edges' = AddEdges(edges, X)
      BY <1>1 DEF X
    <3>2. /\ edges \subseteq Given /\ \A x \in Given \union X : EdgeShape(x)
          /\ \A x, y \in edges : SameKey(x, y) => x = y
          /\ \A x \in Given : \E y \in edges : SameKey(x, y) /\ ~Better(x, y)
      BY <2>2, <2>3 DEF EdgesInv
    <3> QED BY <2>2, <3>1, <3>2, MergeKeepsBest
  <2>5. \A x \in edges' : EdgeShape(x) /\ {x.source, x.target} \subseteq nodes'
    BY <1>1, <2>2, <2>4 DEF EdgesInv
  <2>6. edges' \subseteq Given'
    BY <2>1, <2>4 DEF EdgesInv
  <2> QED BY <2>1, <2>4, <2>5, <2>6 DEF EdgesInv
<1>8. CountInv'
  BY <1>1, <1>2 DEF CountInv
<1> QED BY <1>2, <1>4, <1>5, <1>6, <1>7, <1>8

(* At the end of any order of the evidence the graph is the one its valid  *)
(* part gives.                                                             *)
LEMMA TopologyInvShows ==
  ASSUME TopologyInv, left = {}
  PROVE  GraphShowsValidEvidence
<1> USE DEF TopologyInv
<1> DEFINE valid == { e \in evidence : e.from <= AsOf /\ AsOf < e.until }
           given == UNION { Adds(e).edges : e \in valid }
<1>1. Taken = evidence /\ Shown = valid /\ Given = given
  BY DEF Taken, Shown, Given
<1>2. edges = { x \in Given : \A y \in Given : SameKey(x, y) => ~Better(y, x) }
  <2>1. \A x, y, z : (SameKey(x, y) => SameKey(y, x)) /\ (SameKey(x, y) /\ SameKey(y, z) => SameKey(x, z))
    BY DEF SameKey
  <2>2. ASSUME NEW x \in edges, NEW y \in Given, SameKey(x, y)
        PROVE  ~Better(y, x)
    <3>1. PICK z \in edges : SameKey(y, z) /\ ~Better(y, z)
      BY DEF EdgesInv
    <3>2. z = x
      BY <2>1, <2>2, <3>1 DEF EdgesInv
    <3> QED BY <3>1, <3>2
  <2>3. ASSUME NEW x \in Given, \A y \in Given : SameKey(x, y) => ~Better(y, x)
        PROVE  x \in edges
    <3>1. PICK z \in edges : SameKey(x, z) /\ ~Better(x, z)
      BY DEF EdgesInv
    <3>2. z \in Given /\ EdgeShape(z)
      BY DEF EdgesInv
    <3>3. EdgeShape(x)
      <4>1. PICK d \in Shown : x \in Adds(d).edges
        BY DEF Given
      <4>2. d \in evidence
        BY DEF Shown, Taken
      <4> QED BY <4>1, <4>2, ItemFacts DEF ItemSound
    <3>4. ~Better(z, x)
      BY <2>3, <3>1, <3>2
    <3>5. x = z
      BY <3>1, <3>2, <3>3, <3>4, BetterOrder
    <3> QED BY <3>5
  <2>4. edges \subseteq Given
    BY DEF EdgesInv
  <2> QED BY <2>2, <2>3, <2>4
<1>3. \A x \in edges : {x.source, x.target} \subseteq nodes
  BY DEF EdgesInv
<1>4. nodes = {Local} \union UNION { Adds(e).nodes : e \in valid }
  BY <1>1 DEF NodesInv
<1>5. excluded.expired + excluded.future = Cardinality(evidence \ valid)
  BY <1>1 DEF CountInv
<1>6. \A n \in Conflicts : n[1] # "vlan_disagreement" => \E e \in valid : n \in Adds(e).notes
  BY <1>1 DEF Conflicts, Disagreements, NotesInv
<1>7. edges = { x \in given : \A y \in given : SameKey(x, y) => ~Better(y, x) }
  BY <1>1, <1>2
<1> QED BY <1>3, <1>4, <1>5, <1>6, <1>7 DEF GraphShowsValidEvidence

(* The topology is what the evidence valid at the snapshot says, for any   *)
(* evidence in any order: edges between nodes of the graph, for each key   *)
(* the best one given, none missing and none without valid evidence, and   *)
(* every item left out counted (build_topology, _Builder.edge, _subnet_for,*)
(* _Builder.active).                                                       *)
THEOREM GraphIsEvidence == TopologySpec => []GraphShowsValidEvidence
<1>1. TopologyInv /\ [TopologyNext]_topologyVars => TopologyInv'
  <2> SUFFICES ASSUME TopologyInv, [TopologyNext]_topologyVars PROVE TopologyInv'
    OBVIOUS
  <2>1. CASE UNCHANGED topologyVars
    <3>1. UNCHANGED << evidence, left, subnets, nodes, edges, claims, notes, excluded >>
      BY <2>1 DEF topologyVars
    <3>2. \A d : Adds(d)' = Adds(d)
      BY <3>1, AddsUnchanged
    <3>3. Taken' = Taken /\ Shown' = Shown
      BY <3>1 DEF Taken, Shown
    <3>4. Given' = Given
      BY <3>2, <3>3 DEF Given
    <3>5. TakenInv' /\ SubnetsInv' /\ CountInv'
      BY <3>1, <3>3 DEF TopologyInv, TakenInv, SubnetsInv, CountInv
    <3>6. NodesInv' /\ NotesInv' /\ EdgesInv'
      BY <3>1, <3>2, <3>3, <3>4 DEF TopologyInv, NodesInv, NotesInv, EdgesInv
    <3> QED BY <3>5, <3>6 DEF TopologyInv
  <2> QED BY <2>1, ExcludeKeeps, IncludeSubnetKeeps, IncludeOtherKeeps DEF TopologyNext
<1>2. TopologyInv => GraphShowsValidEvidence
  <2>1. left # {} => GraphShowsValidEvidence
    BY DEF GraphShowsValidEvidence
  <2> QED BY <2>1, TopologyInvShows
<1> QED BY <1>1, <1>2, TopologyInitially, PTL DEF TopologySpec
-----------------------------------------------------------------------------
(* A labelling of the observations that says what find would return, for   *)
(* each of them, without walking the forest: one label for each tree, the  *)
(* root's own name.                                                        *)
Forest(L) ==
    /\ parent \in [Ids -> Ids] /\ L \in [Ids -> Ids]
    /\ \A o \in Ids : parent[o] <= o
    /\ \A o \in Ids : L[parent[o]] = L[o] /\ L[L[o]] = L[o]
    /\ \A o \in Ids : parent[o] = o <=> L[o] = o

(* The observations of a tree, and the decisions made within it.           *)
Class(L, r) == { o \in Ids : L[o] = r }
JoinsOf(L, r) == { d \in decisions : L[d.left] = r /\ L[d.right] = r }

Busy == {"find_first", "find_other", "union_left", "union_right"}

(* Where the calls of find have got to.                                    *)
PlaceInv(L) ==
    /\ obs \in Batches
    /\ pending \subseteq StableIndex
    /\ at \in Busy \union {"group", "done"}
    /\ at \in Busy <=> pending # {}
    /\ at \in Busy => item \in Ids
    /\ at \in {"find_first", "union_left"} => L[item] = L[First[2]]
    /\ at \in {"find_other", "union_right"} => L[item] = L[Other[2]] /\ root = L[First[2]]
    /\ at \in {"union_left", "union_right"} => L[First[2]] # L[Other[2]]

(* A claim that is behind the loop has its observation in the tree of the  *)
(* first claim of its key.                                                 *)
LinkedInv(L) == \A c \in StableIndex : c \in pending \/ L[c[2]] = L[FirstClaim(c)[2]]

(* No tree leaves a set that no strong claim leads out of.                 *)
ClosedInv(L) == \A S \in SUBSET Ids : Closed(S) => \A o \in Ids : o \in S <=> L[o] \in S

(* The decision of the pair at hand, whose trees are not joined yet.       *)
NewJoin == [left |-> First[2], right |-> Other[2], key |-> Other[1],
            confidence |-> Min({First[3], Other[3]})]

(* A decision joins two observations of one tree, all but the one at hand, *)
(* and a tree of n observations holds n - 1.                               *)
DecidedInv(L) ==
    /\ IsFiniteSet(decisions)
    /\ \A d \in decisions : /\ d.left \in Ids /\ d.right \in Ids
                            /\ d.confidence \in Nat /\ d.confidence >= Threshold
    /\ \A d \in decisions : \/ L[d.left] = L[d.right]
                            \/ at \in {"union_left", "union_right"} /\ d = NewJoin
    /\ at \in {"union_left", "union_right"} => NewJoin \in decisions
    /\ \A r \in Ids : L[r] = r => Cardinality(JoinsOf(L, r)) = Cardinality(Class(L, r)) - 1

LabelInv(L) == Forest(L) /\ PlaceInv(L) /\ LinkedInv(L) /\ ClosedInv(L) /\ DecidedInv(L)

CorrelationInv ==
    /\ \E L \in [Ids -> Ids] : LabelInv(L)
    /\ at # "done" => devices = {}
    /\ at = "done" => DevicesSound

-----------------------------------------------------------------------------
(* The claims of stable_index.                                             *)
LEMMA ClaimFacts ==
  ASSUME obs \in Batches, NEW c \in StableIndex
  PROVE  /\ c = << c[1], c[2], c[3] >> /\ c[1] \in StableKeys /\ c[2] \in Ids
         /\ c[1] \in Nat /\ c[2] \in Nat /\ c[3] \in Nat /\ c[3] >= Threshold
<1>1. PICK o \in Ids : c \in { << e.key, o, e.confidence >> :
                             e \in { d \in AllIdentifiers(o) : Stable(d) /\ d.confidence >= Threshold } }
  BY DEF StableIndex
<1>2. PICK e \in AllIdentifiers(o) : /\ Stable(e) /\ e.confidence >= Threshold
                                     /\ c = << e.key, o, e.confidence >>
  BY <1>1
<1>3. e.confidence \in Nat /\ o \in Nat
  BY BatchesAssumption DEF Ids, AllIdentifiers
<1>4. e.key \in StableKeys /\ e.key \in Nat
  BY <1>2, KeysAssumption DEF Stable
<1>5. c[1] = e.key /\ c[2] = o /\ c[3] = e.confidence
  BY <1>2
<1> QED BY <1>2, <1>3, <1>4, <1>5

(* Sorted claims have a first one.                                         *)
LEMMA EarliestIsMember ==
  ASSUME obs \in Batches, NEW held, held \subseteq StableIndex, held # {}
  PROVE  Earliest(held) \in held
<1>1. \A c \in held : /\ c = << c[1], c[2], c[3] >>
                      /\ c[1] \in Nat /\ c[2] \in Nat /\ c[3] \in Nat
  BY ClaimFacts
<1> DEFINE K == { c[1] : c \in held }
<1>2. Min(K) \in K /\ \A y \in K : Min(K) <= y
  <2>1. K \subseteq Nat /\ K # {}
    BY <1>1
  <2> HIDE DEF K
  <2> QED BY <2>1, MinIsMember
<1> DEFINE Cs == { c \in held : c[1] = Min(K) }
           O == { c[2] : c \in Cs }
<1>3. Min(O) \in O /\ \A y \in O : Min(O) <= y
  <2>1. O \subseteq Nat /\ O # {}
    BY <1>1, <1>2
  <2> HIDE DEF O
  <2> QED BY <2>1, MinIsMember
<1> DEFINE Ds == { c \in Cs : c[2] = Min(O) }
           F == { c[3] : c \in Ds }
<1>4. Min(F) \in F /\ \A y \in F : Min(F) <= y
  <2>1. F \subseteq Nat /\ F # {}
    BY <1>1, <1>3
  <2> HIDE DEF F
  <2> QED BY <2>1, MinIsMember
<1>5. PICK c \in Ds : c[3] = Min(F)
  BY <1>4
<1>6. c \in held /\ c[1] = Min(K) /\ c[2] = Min(O)
  BY <1>5
<1>7. ASSUME NEW d \in held \ {c}
      PROVE  Before(c, d)
  <2>1. d[1] \in K /\ Min(K) <= d[1] /\ c[1] \in Nat /\ d[1] \in Nat
    BY <1>1, <1>2, <1>6
  <2>2. CASE d[1] # c[1]
    <3>1. c[1] < d[1]
      BY <1>6, <2>1, <2>2
    <3> QED BY <3>1 DEF Before
  <2>3. CASE d[1] = c[1] /\ d[2] # c[2]
    <3>1. d \in Cs /\ d[2] \in O
      BY <1>6, <2>3
    <3>2. c[2] < d[2]
      <4>1. Min(O) <= d[2]
        BY <1>3, <3>1
      <4> HIDE DEF O
      <4> QED BY <1>1, <1>6, <2>3, <4>1
    <3> QED BY <2>3, <3>2 DEF Before
  <2>4. CASE d[1] = c[1] /\ d[2] = c[2]
    <3>1. d \in Ds /\ d[3] \in F
      BY <1>6, <2>4
    <3>2. Min(F) <= d[3]
      BY <1>4, <3>1
    <3>3. d[3] # c[3]
      BY <1>1, <1>6, <2>4
    <3>4. c[3] < d[3]
      <4> HIDE DEF F
      <4> QED BY <1>1, <1>5, <1>6, <3>2, <3>3
    <3> QED BY <2>4, <3>4 DEF Before
  <2> QED BY <2>2, <2>3, <2>4
<1> QED BY <1>6, <1>7 DEF Earliest

LEMMA FirstClaimFacts ==
  ASSUME obs \in Batches, NEW c \in StableIndex
  PROVE  FirstClaim(c) \in StableIndex /\ FirstClaim(c)[1] = c[1]
<1> DEFINE T == { d \in StableIndex : d[1] = c[1] }
<1>1. T \subseteq StableIndex /\ T # {}
  OBVIOUS
<1>2. Earliest(T) \in T
  <2> HIDE DEF T
  <2> QED BY <1>1, EarliestIsMember
<1> QED BY <1>2 DEF FirstClaim

(* The pair the loop is comparing.                                         *)
LEMMA PairFacts ==
  ASSUME obs \in Batches, pending \subseteq StableIndex, pending # {}
  PROVE  /\ Other \in pending /\ Other \in StableIndex /\ First \in StableIndex /\ First[1] = Other[1]
         /\ First[2] \in Ids /\ Other[2] \in Ids /\ First = FirstClaim(Other)
         /\ First[3] \in Nat /\ First[3] >= Threshold /\ Other[3] \in Nat /\ Other[3] >= Threshold
<1>1. Other \in pending
  BY EarliestIsMember DEF Other
<1>2. First \in StableIndex /\ First[1] = Other[1]
  BY <1>1, FirstClaimFacts DEF First
<1>3. Other \in StableIndex
  BY <1>1
<1>4. First = FirstClaim(Other)
  BY DEF First
<1> QED BY <1>1, <1>2, <1>3, <1>4, ClaimFacts

-----------------------------------------------------------------------------
(* The evidence of a batch stays as it is.                                 *)
LEMMA ObsKept ==
  ASSUME UNCHANGED obs
  PROVE  /\ Ids' = Ids /\ StableIndex' = StableIndex
         /\ \A c : FirstClaim(c)' = FirstClaim(c)
         /\ \A S : Closed(S)' = Closed(S)
         /\ UNCHANGED pending => Other' = Other /\ First' = First /\ NewJoin' = NewJoin
<1>1. Ids' = Ids /\ StableIndex' = StableIndex
  BY DEF StableIndex, Ids, AllIdentifiers
<1>2. ASSUME NEW c PROVE FirstClaim(c)' = FirstClaim(c)
  BY <1>1 DEF FirstClaim
<1>3. ASSUME NEW S PROVE Closed(S)' = Closed(S)
  BY <1>1 DEF Closed
<1>4. ASSUME UNCHANGED pending PROVE Other' = Other
  BY <1>4 DEF Other
<1>5. ASSUME UNCHANGED pending PROVE First' = First
  BY <1>1, <1>4, <1>5 DEF First, FirstClaim
<1>6. ASSUME UNCHANGED pending PROVE NewJoin' = NewJoin
  BY <1>4, <1>5, <1>6 DEF NewJoin
<1> QED BY <1>1, <1>2, <1>3, <1>4, <1>5, <1>6

(* A find that returns has found the label.                                *)
LEMMA FoundIsLabel ==
  ASSUME NEW L, LabelInv(L), NEW call \in Busy, Returns(call)
  PROVE  /\ obs \in Batches /\ at = call /\ item \in Ids /\ L[item] = item
         /\ pending \subseteq StableIndex /\ pending # {}
BY DEF LabelInv, Forest, PlaceInv, Returns, Busy

(* The loop goes on to the next claim, whatever tree the last one is in.   *)
LEMMA NextPlace ==
  ASSUME NEW M, obs \in Batches, UNCHANGED obs, pending \subseteq StableIndex, pending # {}, NextClaim
  PROVE  PlaceInv(M)' /\ at' \in {"find_first", "group"} /\ pending' = pending \ {Other}
<1>1. /\ pending' = pending \ {Other} /\ at' = IF pending' = {} THEN "group" ELSE "find_first"
      /\ item' = IF pending' = {} THEN 0 ELSE FirstClaim(Earliest(pending'))[2]
  BY DEF NextClaim
<1>2. pending' \subseteq StableIndex' /\ StableIndex' = StableIndex /\ Ids' = Ids
  BY <1>1, ObsKept
<1>3. ASSUME pending' # {}
      PROVE  item' \in Ids' /\ item' = First'[2]
  <2>1. Earliest(pending') \in StableIndex
    BY <1>2, <1>3, EarliestIsMember
  <2>2. FirstClaim(Earliest(pending')) \in StableIndex
    BY <2>1, FirstClaimFacts
  <2>3. First' = FirstClaim(Earliest(pending'))
    BY <1>2 DEF First, Other, FirstClaim
  <2> QED BY <1>1, <1>2, <1>3, <2>2, <2>3, ClaimFacts
<1>4. at' \in {"find_first", "group"} /\ (at' = "find_first" <=> pending' # {})
  BY <1>1
<1> QED BY <1>1, <1>2, <1>3, <1>4 DEF PlaceInv, Busy

(* The invariants that only look at the labels, while no tree is joined.   *)
LEMMA SameLabels ==
  ASSUME NEW L, LabelInv(L), UNCHANGED obs
  PROVE  /\ ClosedInv(L)'
         /\ UNCHANGED pending => LinkedInv(L)'
         /\ UNCHANGED parent => Forest(L)'
         /\ UNCHANGED << decisions, at, pending >> => DecidedInv(L)'
<1> USE DEF LabelInv
<1>1. Ids' = Ids /\ StableIndex' = StableIndex /\ \A c : FirstClaim(c)' = FirstClaim(c)
  BY ObsKept
<1>2. ClosedInv(L)'
  BY <1>1, ObsKept DEF ClosedInv
<1>3. UNCHANGED pending => LinkedInv(L)'
  BY <1>1 DEF LinkedInv
<1>4. UNCHANGED parent => Forest(L)'
  BY <1>1 DEF Forest
<1>5. ASSUME UNCHANGED << decisions, at, pending >>
      PROVE  DecidedInv(L)'
  <2>1. NewJoin' = NewJoin
    BY <1>5, ObsKept
  <2>2. \A r : JoinsOf(L, r)' = JoinsOf(L, r) /\ Class(L, r)' = Class(L, r)
    BY <1>1, <1>5 DEF JoinsOf, Class
  <2> QED BY <1>1, <1>5, <2>1, <2>2 DEF DecidedInv
<1> QED BY <1>2, <1>3, <1>4, <1>5

LEMMA FindStepKeeps ==
  ASSUME NEW L, LabelInv(L), FindStep
  PROVE  LabelInv(L)'
<1> USE DEF LabelInv
<1>1. /\ at \in Busy /\ item \in Ids /\ parent[item] # item
      /\ parent' = [parent EXCEPT ![item] = parent[parent[item]]]
      /\ item' = parent[parent[item]]
      /\ UNCHANGED << obs, pending, at, root, decisions, devices, conflicts >>
  BY DEF FindStep, PlaceInv, Busy
<1>2. Ids' = Ids /\ Ids \subseteq Nat /\ StableIndex' = StableIndex /\ First' = First /\ Other' = Other
  BY <1>1, ObsKept, BatchesAssumption DEF PlaceInv, Ids
<1>3. /\ parent[item] \in Ids /\ item' \in Ids /\ item' < item
      /\ L[item'] = L[item] /\ L[item] # item
  <2>1. parent[item] \in Ids /\ parent[item] <= item /\ L[parent[item]] = L[item] /\ L[item] # item
    BY <1>1 DEF Forest
  <2>2. item' \in Ids /\ item' <= parent[item] /\ L[item'] = L[parent[item]]
    BY <1>1, <2>1 DEF Forest
  <2>3. item \in Nat /\ parent[item] \in Nat /\ item' \in Nat
    BY <1>1, <1>2, <2>1, <2>2
  <2>4. item' < item
    BY <1>1, <2>1, <2>2, <2>3
  <2> QED BY <2>1, <2>2, <2>4
<1>4. Forest(L)'
  <2>1. parent' \in [Ids -> Ids] /\ parent'[item] = item' /\ \A o \in Ids \ {item} : parent'[o] = parent[o]
    BY <1>1, <1>3 DEF Forest
  <2>2. ASSUME NEW o \in Ids
        PROVE  /\ parent'[o] <= o /\ L[parent'[o]] = L[o] /\ L[L[o]] = L[o]
               /\ parent'[o] = o <=> L[o] = o
    <3>1. CASE o = item
      BY <1>2, <1>3, <2>1, <3>1 DEF Forest
    <3>2. CASE o # item
      BY <2>1, <3>2 DEF Forest
    <3> QED BY <3>1, <3>2
  <2> QED BY <1>2, <2>1, <2>2 DEF Forest
<1>5. PlaceInv(L)'
  BY <1>1, <1>2, <1>3 DEF PlaceInv
<1> QED BY <1>1, <1>4, <1>5, SameLabels

LEMMA FirstFoundKeeps ==
  ASSUME NEW L, LabelInv(L), FirstFound
  PROVE  LabelInv(L)'
<1> USE DEF LabelInv
<1>1. /\ at = "find_first" /\ root' = item /\ item' = Other[2] /\ at' = "find_other"
      /\ UNCHANGED << obs, parent, pending, decisions, devices, conflicts >>
      /\ obs \in Batches /\ L[item] = item /\ pending \subseteq StableIndex /\ pending # {}
  BY FoundIsLabel DEF FirstFound, Busy
<1>2. Ids' = Ids /\ StableIndex' = StableIndex /\ First' = First /\ Other' = Other
  BY <1>1, ObsKept
<1>3. Other[2] \in Ids /\ L[item] = L[First[2]]
  BY <1>1, PairFacts DEF PlaceInv
<1>4. PlaceInv(L)'
  BY <1>1, <1>2, <1>3 DEF PlaceInv, Busy
<1>5. DecidedInv(L)'
  <2>1. \A r : JoinsOf(L, r)' = JoinsOf(L, r) /\ Class(L, r)' = Class(L, r)
    BY <1>1, <1>2 DEF JoinsOf, Class
  <2> QED BY <1>1, <1>2, <2>1 DEF DecidedInv
<1> QED BY <1>1, <1>4, <1>5, SameLabels

LEMMA LeftFoundKeeps ==
  ASSUME NEW L, LabelInv(L), LeftFound
  PROVE  LabelInv(L)'
<1> USE DEF LabelInv
<1>1. /\ at = "union_left" /\ root' = item /\ item' = Other[2] /\ at' = "union_right"
      /\ UNCHANGED << obs, parent, pending, decisions, devices, conflicts >>
      /\ obs \in Batches /\ L[item] = item /\ pending \subseteq StableIndex /\ pending # {}
  BY FoundIsLabel DEF LeftFound, Busy
<1>2. Ids' = Ids /\ StableIndex' = StableIndex /\ First' = First /\ Other' = Other /\ NewJoin' = NewJoin
  BY <1>1, ObsKept
<1>3. Other[2] \in Ids /\ L[item] = L[First[2]]
  BY <1>1, PairFacts DEF PlaceInv
<1>4. PlaceInv(L)'
  BY <1>1, <1>2, <1>3 DEF PlaceInv, Busy
<1>5. DecidedInv(L)'
  <2>1. \A r : JoinsOf(L, r)' = JoinsOf(L, r) /\ Class(L, r)' = Class(L, r)
    BY <1>1, <1>2 DEF JoinsOf, Class
  <2> QED BY <1>1, <1>2, <2>1 DEF DecidedInv
<1> QED BY <1>1, <1>4, <1>5, SameLabels

LEMMA AlreadyJoinedKeeps ==
  ASSUME NEW L, LabelInv(L), AlreadyJoined
  PROVE  LabelInv(L)'
<1> USE DEF LabelInv
<1>1. /\ at = "find_other" /\ root = item /\ NextClaim
      /\ UNCHANGED << obs, parent, decisions, devices, conflicts >>
      /\ obs \in Batches /\ L[item] = item /\ pending \subseteq StableIndex /\ pending # {}
  BY FoundIsLabel DEF AlreadyJoined, Busy
<1>2. Ids' = Ids /\ StableIndex' = StableIndex /\ \A c : FirstClaim(c)' = FirstClaim(c)
  BY <1>1, ObsKept
<1>3. L[Other[2]] = L[FirstClaim(Other)[2]]
  BY <1>1 DEF PlaceInv, First
<1>4. PlaceInv(L)' /\ at' \in {"find_first", "group"} /\ pending' = pending \ {Other}
  BY <1>1, NextPlace
<1>5. LinkedInv(L)'
  BY <1>2, <1>3, <1>4 DEF LinkedInv
<1>6. DecidedInv(L)'
  <2>1. \A r : JoinsOf(L, r)' = JoinsOf(L, r) /\ Class(L, r)' = Class(L, r)
    BY <1>1, <1>2 DEF JoinsOf, Class
  <2> QED BY <1>1, <1>2, <1>4, <2>1 DEF DecidedInv
<1> QED BY <1>1, <1>4, <1>5, <1>6, SameLabels

(* The decision of a pair in two trees: no tree holds it until they are    *)
(* joined.                                                                 *)
LEMMA DecideKeeps ==
  ASSUME NEW L, LabelInv(L), Decide
  PROVE  LabelInv(L)'
<1> USE DEF LabelInv
<1>1. /\ at = "find_other" /\ root # item /\ decisions' = decisions \union {NewJoin}
      /\ item' = First[2] /\ at' = "union_left"
      /\ UNCHANGED << obs, parent, pending, root, devices, conflicts >>
      /\ obs \in Batches /\ L[item] = item /\ pending \subseteq StableIndex /\ pending # {}
  BY FoundIsLabel DEF Decide, NewJoin, Busy
<1>2. Ids' = Ids /\ StableIndex' = StableIndex /\ First' = First /\ Other' = Other /\ NewJoin' = NewJoin
  BY <1>1, ObsKept
<1>3. /\ First[2] \in Ids /\ Other[2] \in Ids
      /\ First[3] \in Nat /\ First[3] >= Threshold /\ Other[3] \in Nat /\ Other[3] >= Threshold
  BY <1>1, PairFacts
<1>4. L[First[2]] # L[Other[2]]
  BY <1>1 DEF PlaceInv
<1>5. PlaceInv(L)'
  BY <1>1, <1>2, <1>3, <1>4 DEF PlaceInv, Busy
<1>6. /\ NewJoin.left = First[2] /\ NewJoin.right = Other[2]
      /\ NewJoin.confidence \in Nat /\ NewJoin.confidence >= Threshold
  <2>1. Min({First[3], Other[3]}) \in {First[3], Other[3]}
    BY <1>3, MinIsMember
  <2>2. NewJoin.confidence \in {First[3], Other[3]}
    BY <2>1 DEF NewJoin
  <2> QED BY <1>3, <2>2 DEF NewJoin
<1>7. DecidedInv(L)'
  <2>1. IsFiniteSet(decisions')
    BY <1>1, FS_AddElement DEF DecidedInv
  <2>2. \A r : JoinsOf(L, r)' = JoinsOf(L, r) /\ Class(L, r)' = Class(L, r)
    BY <1>1, <1>2, <1>4, <1>6 DEF JoinsOf, Class
  <2>3. \A d \in decisions' : /\ d.left \in Ids /\ d.right \in Ids
                              /\ d.confidence \in Nat /\ d.confidence >= Threshold
    BY <1>1, <1>3, <1>6 DEF DecidedInv
  <2>4. \A d \in decisions' : L[d.left] = L[d.right] \/ d = NewJoin
    BY <1>1 DEF DecidedInv
  <2>5. \A r \in Ids : L[r] = r => Cardinality(JoinsOf(L, r)) = Cardinality(Class(L, r)) - 1
    BY DEF DecidedInv
  <2> QED BY <1>1, <1>2, <2>1, <2>2, <2>3, <2>4, <2>5 DEF DecidedInv
<1> QED BY <1>1, <1>5, <1>7, SameLabels

(* The two roots, in order.                                                *)
LEMMA RootsInOrder ==
  ASSUME NEW x \in Nat, NEW y \in Nat, x # y
  PROVE  /\ Min({x, y}) \in {x, y} /\ Max({x, y}) \in {x, y}
         /\ Min({x, y}) < Max({x, y})
<1>1. Min({x, y}) \in {x, y} /\ \A z \in {x, y} : Min({x, y}) <= z
  BY MinIsMember
<1>2. Max({x, y}) \in {x, y} /\ \A z \in {x, y} : z <= Max({x, y})
  <2>1. \E m \in {x, y} : \A z \in {x, y} : m >= z
    <3>1. CASE x >= y
      BY <3>1
    <3>2. CASE y >= x
      BY <3>2
    <3> QED BY <3>1, <3>2
  <2> QED BY <2>1 DEF Max
<1> QED BY <1>1, <1>2

(* The tree of the greater root b hangs below the other, a, from then on:  *)
(* the observations labelled b are labelled a.                             *)
LEMMA UnionKeeps ==
  ASSUME NEW L, LabelInv(L), Union
  PROVE  \E M \in [Ids -> Ids] : LabelInv(M)'
<1> DEFINE a == Min({root, item})
           b == Max({root, item})
<1>1. /\ at = "union_right" /\ NextClaim /\ parent' = [parent EXCEPT ![b] = a]
      /\ UNCHANGED << obs, decisions, devices, conflicts >>
      /\ obs \in Batches /\ L[item] = item /\ item \in Ids
      /\ pending \subseteq StableIndex /\ pending # {}
  BY FoundIsLabel DEF Union, Busy
<1>2. /\ Ids' = Ids /\ Ids \subseteq Nat /\ IsFiniteSet(Ids) /\ StableIndex' = StableIndex
      /\ \A c : FirstClaim(c)' = FirstClaim(c)
  BY <1>1, ObsKept, BatchesAssumption DEF Ids
<1>3. /\ Other \in pending /\ Other \in StableIndex /\ First \in StableIndex /\ First[1] = Other[1]
      /\ First[2] \in Ids /\ Other[2] \in Ids /\ First = FirstClaim(Other)
  BY <1>1, PairFacts
<1>4. /\ parent \in [Ids -> Ids] /\ L \in [Ids -> Ids]
      /\ \A o \in Ids : parent[o] <= o
      /\ \A o \in Ids : L[parent[o]] = L[o] /\ L[L[o]] = L[o]
      /\ \A o \in Ids : parent[o] = o <=> L[o] = o
  BY DEF LabelInv, Forest
<1>5. item = L[Other[2]] /\ root = L[First[2]] /\ root # item
  BY <1>1 DEF LabelInv, PlaceInv
<1>6. root \in Ids /\ L[root] = root
  BY <1>3, <1>4, <1>5
<1>7. a \in {root, item} /\ b \in {root, item} /\ a < b
  <2>1. root \in Nat /\ item \in Nat
    BY <1>1, <1>2, <1>6
  <2> QED BY <1>5, <2>1, RootsInOrder
<1>8. /\ a \in Ids /\ b \in Ids /\ L[a] = a /\ L[b] = b /\ a # b
      /\ {a, b} = {L[First[2]], L[Other[2]]}
  <2>1. a # b
    <3>1. a \in Nat /\ b \in Nat
      BY <1>1, <1>2, <1>6, <1>7
    <3> HIDE DEF a, b
    <3> QED BY <1>7, <3>1
  <2> HIDE DEF a, b
  <2> QED BY <1>1, <1>5, <1>6, <1>7, <2>1
<1> HIDE DEF a, b
<1>9. PICK M \in [Ids -> Ids] : \A o \in Ids : M[o] = IF L[o] = b THEN a ELSE L[o]
  <2> DEFINE relabelled == [o \in Ids |-> IF L[o] = b THEN a ELSE L[o]]
  <2>1. relabelled \in [Ids -> Ids] /\ \A o \in Ids : relabelled[o] = IF L[o] = b THEN a ELSE L[o]
    BY <1>4, <1>8
  <2> HIDE DEF relabelled
  <2> QED BY <2>1
<1>10. Forest(M)'
  <2>1. parent' \in [Ids -> Ids] /\ parent'[b] = a /\ \A o \in Ids \ {b} : parent'[o] = parent[o]
    BY <1>1, <1>4, <1>8
  <2>2. ASSUME NEW o \in Ids
        PROVE  /\ parent'[o] <= o /\ M[parent'[o]] = M[o] /\ M[M[o]] = M[o]
               /\ parent'[o] = o <=> M[o] = o
    <3>1. M[a] = a /\ M[b] = a
      BY <1>8, <1>9
    <3>2. M[M[o]] = M[o]
      BY <1>4, <1>8, <1>9, <3>1
    <3>3. CASE o = b
      <4>1. a <= b
        BY <1>2, <1>7, <1>8
      <4> QED BY <1>8, <2>1, <3>1, <3>2, <3>3, <4>1
    <3>4. CASE o # b
      <4>1. parent'[o] = parent[o] /\ parent[o] \in Ids /\ parent[o] <= o /\ L[parent[o]] = L[o]
        BY <1>4, <2>1, <3>4
      <4>2. M[parent[o]] = M[o]
        BY <1>9, <4>1
      <4>3. parent[o] = o <=> M[o] = o
        BY <1>4, <1>8, <1>9, <3>4
      <4> QED BY <3>2, <4>1, <4>2, <4>3
    <3> QED BY <3>3, <3>4
  <2> QED BY <1>2, <1>9, <2>1, <2>2 DEF Forest
<1>11. PlaceInv(M)' /\ at' \in {"find_first", "group"} /\ pending' = pending \ {Other}
  BY <1>1, NextPlace
<1>12. M[First[2]] = a /\ M[Other[2]] = a
  BY <1>3, <1>8, <1>9
<1>13. LinkedInv(M)'
  <2>1. ASSUME NEW c \in StableIndex, c \notin pending'
        PROVE  M[c[2]] = M[FirstClaim(c)[2]]
    <3>1. c[2] \in Ids /\ FirstClaim(c)[2] \in Ids
      BY <1>1, FirstClaimFacts, ClaimFacts
    <3>2. CASE c = Other
      BY <1>3, <1>12, <3>2
    <3>3. CASE c # Other
      <4>1. L[c[2]] = L[FirstClaim(c)[2]]
        BY <1>11, <2>1, <3>3 DEF LabelInv, LinkedInv
      <4> QED BY <1>9, <3>1, <4>1
    <3> QED BY <3>2, <3>3
  <2> QED BY <1>2, <2>1 DEF LinkedInv
<1>14. ClosedInv(M)'
  <2>1. ASSUME NEW S \in SUBSET Ids, Closed(S), NEW o \in Ids
        PROVE  o \in S <=> M[o] \in S
    <3>1. \A p \in Ids : p \in S <=> L[p] \in S
      BY <2>1 DEF LabelInv, ClosedInv
    <3>2. First[2] \in S <=> Other[2] \in S
      BY <1>3, <2>1 DEF Closed
    <3>3. a \in S <=> b \in S
      BY <1>3, <1>8, <3>1, <3>2
    <3> QED BY <1>9, <3>1, <3>3
  <2> QED BY <1>1, <1>2, <2>1, ObsKept DEF ClosedInv
<1>15. DecidedInv(M)'
  <2>1. /\ IsFiniteSet(decisions)
        /\ \A d \in decisions : /\ d.left \in Ids /\ d.right \in Ids
                                /\ d.confidence \in Nat /\ d.confidence >= Threshold
        /\ \A d \in decisions : L[d.left] = L[d.right] \/ d = NewJoin
        /\ NewJoin \in decisions
        /\ \A r \in Ids : L[r] = r => Cardinality(JoinsOf(L, r)) = Cardinality(Class(L, r)) - 1
    BY <1>1 DEF LabelInv, DecidedInv
  <2>2. NewJoin.left = First[2] /\ NewJoin.right = Other[2]
    BY DEF NewJoin
  <2>3. \A d \in decisions : M[d.left] = M[d.right]
    BY <1>9, <1>12, <2>1, <2>2
  <2>4. ASSUME NEW r \in Ids, M[r] = r
        PROVE  Cardinality(JoinsOf(M, r)) = Cardinality(Class(M, r)) - 1
    <3>1. r # b
      BY <1>8, <1>9, <2>4
    <3>2. CASE r # a
      <4>1. L[r] = r
        BY <1>9, <2>4, <3>2
      <4>2. \A o \in Ids : M[o] = r <=> L[o] = r
        BY <1>9, <3>1, <3>2
      <4>3. Class(M, r) = Class(L, r) /\ JoinsOf(M, r) = JoinsOf(L, r)
        BY <2>1, <4>2 DEF Class, JoinsOf
      <4> QED BY <2>1, <4>1, <4>3
    <3>3. CASE r = a
      <4>1. \A o \in Ids : M[o] = a <=> (L[o] = a \/ L[o] = b)
        BY <1>9
      <4> DEFINE CA == Class(L, a)
                 CB == Class(L, b)
                 JA == JoinsOf(L, a)
                 JB == JoinsOf(L, b)
      <4>2. /\ Class(M, a) = CA \union CB /\ CA \intersect CB = {}
            /\ CA \subseteq Ids /\ CB \subseteq Ids
        BY <1>8, <4>1 DEF Class
      <4>3. /\ JoinsOf(M, a) = (JA \union JB) \union {NewJoin} /\ JA \intersect JB = {}
            /\ NewJoin \notin JA \union JB /\ JA \subseteq decisions /\ JB \subseteq decisions
        <5>1. L[NewJoin.left] # L[NewJoin.right]
          BY <1>5, <2>2
        <5>2. \A d \in decisions : d \in JoinsOf(M, a) <=> (d \in JA \/ d \in JB \/ d = NewJoin)
          <6>1. M[NewJoin.left] = a /\ M[NewJoin.right] = a
            BY <1>12, <2>2
          <6> QED BY <2>1, <4>1, <6>1 DEF JoinsOf
        <5>3. JoinsOf(M, a) \subseteq decisions /\ JA \subseteq decisions /\ JB \subseteq decisions
          BY DEF JoinsOf
        <5>4. JA \intersect JB = {} /\ NewJoin \notin JA \union JB
          BY <1>8, <5>1 DEF JoinsOf
        <5> HIDE DEF JA, JB
        <5> QED BY <2>1, <5>2, <5>3, <5>4
      <4>4. Cardinality(JA) = Cardinality(CA) - 1 /\ Cardinality(JB) = Cardinality(CB) - 1
        BY <1>8, <2>1
      <4> HIDE DEF CA, CB, JA, JB
      <4>5. IsFiniteSet(CA) /\ IsFiniteSet(CB) /\ IsFiniteSet(JA) /\ IsFiniteSet(JB)
        BY <1>2, <2>1, <4>2, <4>3, FS_Subset
      <4>6. Cardinality(CA \union CB) = Cardinality(CA) + Cardinality(CB) - Cardinality(CA \intersect CB)
        BY <4>5, FS_Union
      <4>7. /\ IsFiniteSet(JA \union JB)
            /\ Cardinality(JA \union JB) = Cardinality(JA) + Cardinality(JB) - Cardinality(JA \intersect JB)
        BY <4>5, FS_Union
      <4>8. Cardinality((JA \union JB) \union {NewJoin}) = Cardinality(JA \union JB) + 1
        BY <4>3, <4>7, FS_AddElement
      <4>9. Cardinality({}) = 0
        BY FS_EmptySet
      <4>10. Cardinality(CA) \in Nat /\ Cardinality(CB) \in Nat /\ Cardinality(JA) \in Nat /\ Cardinality(JB) \in Nat
        BY <4>5, FS_CardinalityType
      <4>11. Cardinality(Class(M, a)) = Cardinality(CA) + Cardinality(CB)
        <5>1. Cardinality(CA \intersect CB) = 0
          BY <4>2, <4>9
        <5> QED BY <4>2, <4>6, <4>10, <5>1
      <4>12. Cardinality(JoinsOf(M, a)) = Cardinality(JA) + Cardinality(JB) + 1
        BY <4>3, <4>7, <4>8, <4>9, <4>10
      <4> QED BY <3>3, <4>4, <4>10, <4>11, <4>12
    <3> QED BY <3>2, <3>3
  <2>5. \A r : JoinsOf(M, r)' = JoinsOf(M, r) /\ Class(M, r)' = Class(M, r)
    BY <1>1, <1>2 DEF JoinsOf, Class
  <2> QED BY <1>1, <1>2, <1>11, <2>1, <2>3, <2>4, <2>5 DEF DecidedInv
<1> QED BY <1>9, <1>10, <1>11, <1>13, <1>14, <1>15 DEF LabelInv

-----------------------------------------------------------------------------
(* Nothing is joined at the start, and the claims the loop skips are the   *)
(* first ones of their keys.                                               *)
LEMMA StartLabels ==
  ASSUME CorrelateInit
  PROVE  \E L \in [Ids -> Ids] : LabelInv(L)
<1>1. /\ obs \in Batches /\ parent = [o \in Ids |-> o]
      /\ pending = { c \in StableIndex : c # FirstClaim(c) }
      /\ at = IF pending = {} THEN "group" ELSE "find_first"
      /\ item = IF pending = {} THEN 0 ELSE First[2]
      /\ decisions = {}
  BY DEF CorrelateInit, CorrelateStart
<1>2. Ids \subseteq Nat
  BY <1>1, BatchesAssumption DEF Ids
<1>3. PICK L \in [Ids -> Ids] : \A o \in Ids : L[o] = o
  <2>1. parent \in [Ids -> Ids] /\ \A o \in Ids : parent[o] = o
    BY <1>1
  <2> QED BY <2>1
<1>4. Forest(L)
  BY <1>1, <1>2, <1>3 DEF Forest
<1>5. PlaceInv(L)
  <2>1. pending # {} => item \in Ids /\ item = First[2]
    BY <1>1, PairFacts
  <2>2. at \in {"group", "find_first"} /\ (at = "find_first" <=> pending # {})
    BY <1>1
  <2> QED BY <1>1, <2>1, <2>2 DEF PlaceInv, Busy
<1>6. LinkedInv(L)
  BY <1>1 DEF LinkedInv
<1>7. ClosedInv(L)
  BY <1>3 DEF ClosedInv
<1>8. DecidedInv(L)
  <2>1. at \notin {"union_left", "union_right"}
    BY <1>1
  <2>2. ASSUME NEW r \in Ids
        PROVE  Cardinality(JoinsOf(L, r)) = Cardinality(Class(L, r)) - 1
    <3>1. JoinsOf(L, r) = {} /\ Class(L, r) = {r}
      BY <1>1, <1>3 DEF JoinsOf, Class
    <3> QED BY <3>1, FS_EmptySet, FS_Singleton
  <2> QED BY <1>1, <2>1, <2>2, FS_EmptySet DEF DecidedInv
<1> QED BY <1>4, <1>5, <1>6, <1>7, <1>8 DEF LabelInv

(* find returns the label: the walk goes down in the order of the IDs, so  *)
(* there is no first observation for which it returns another.             *)
LEMMA RootIsLabel ==
  ASSUME NEW L, Forest(L), obs \in Batches
  PROVE  \A o \in Ids : Root[o] = L[o]
<1>1. /\ parent \in [Ids -> Ids] /\ L \in [Ids -> Ids]
      /\ \A o \in Ids : parent[o] <= o
      /\ \A o \in Ids : L[parent[o]] = L[o] /\ L[L[o]] = L[o]
      /\ \A o \in Ids : parent[o] = o <=> L[o] = o
  BY DEF Forest
<1>2. Ids \subseteq Nat
  BY BatchesAssumption DEF Ids
<1>3. L = [o \in Ids |-> IF parent[o] = o THEN o ELSE L[parent[o]]]
  BY <1>1
<1>4. Root = [o \in Ids |-> IF parent[o] = o THEN o ELSE Root[parent[o]]]
  BY <1>3 DEF Root
<1>5. \A o \in Ids : Root[o] = IF parent[o] = o THEN o ELSE Root[parent[o]]
  BY <1>4
<1> DEFINE Wrong == { o \in Ids : Root[o] # L[o] }
<1>6. ASSUME Wrong # {}
      PROVE  FALSE
  <2>1. Wrong \subseteq Nat
    BY <1>2
  <2>2. PICK o \in Wrong : \A p \in Wrong : o <= p
    <3> HIDE DEF Wrong
    <3> QED BY <1>6, <2>1, MinIsMember
  <2>3. o \in Ids /\ Root[o] # L[o] /\ parent[o] \in Ids
    BY <1>1, <2>2
  <2>4. parent[o] # o /\ Root[o] = Root[parent[o]]
    BY <1>1, <1>5, <2>3
  <2>5. parent[o] \notin Wrong
    <3>1. parent[o] <= o /\ o \in Nat /\ parent[o] \in Nat
      BY <1>1, <1>2, <2>3
    <3> HIDE DEF Wrong
    <3> QED BY <2>2, <2>4, <3>1
  <2>6. Root[parent[o]] = L[parent[o]]
    BY <2>3, <2>5
  <2> QED BY <1>1, <2>3, <2>4, <2>6
<1> QED BY <1>6

(* A canonical device is a tree of the forest.                             *)
LEMMA GroupFacts ==
  ASSUME NEW L, LabelInv(L), NEW g \in Groups
  PROVE  \E r \in Ids : L[r] = r /\ g = Class(L, r) /\ r \in g
<1>1. Forest(L) /\ obs \in Batches
  BY DEF LabelInv, PlaceInv
<1>2. \A o \in Ids : Root[o] = L[o]
  BY <1>1, RootIsLabel
<1>3. PICK o \in Ids : g = { p \in Ids : Root[p] = Root[o] }
  BY DEF Groups
<1>4. g = Class(L, L[o])
  BY <1>2, <1>3 DEF Class
<1>5. L[o] \in Ids /\ L[L[o]] = L[o]
  BY <1>1 DEF Forest
<1> QED BY <1>4, <1>5 DEF Class

(* Whatever the walks, the forest keeps to closed sets.                    *)
LEMMA ForestIsClosed ==
  ASSUME NEW L, LabelInv(L)
  PROVE  \A S \in SUBSET Ids : Closed(S) => \A o \in Ids : o \in S <=> parent[o] \in S
<1> SUFFICES ASSUME NEW S \in SUBSET Ids, Closed(S), NEW o \in Ids
             PROVE  o \in S <=> parent[o] \in S
  OBVIOUS
<1>1. \A p \in Ids : p \in S <=> L[p] \in S
  BY DEF LabelInv, ClosedInv
<1>2. parent[o] \in Ids /\ L[parent[o]] = L[o]
  BY DEF LabelInv, Forest
<1> QED BY <1>1, <1>2

(* Once every claim is behind the loop, the trees are closed.              *)
LEMMA TreesAreClosed ==
  ASSUME NEW L, LabelInv(L), pending = {}, NEW r \in Ids
  PROVE  Closed(Class(L, r))
<1> SUFFICES ASSUME NEW c \in StableIndex, NEW d \in StableIndex, c[1] = d[1], c[2] \in Class(L, r)
             PROVE  d[2] \in Class(L, r)
  BY DEF Closed
<1>1. obs \in Batches
  BY DEF LabelInv, PlaceInv
<1>2. FirstClaim(c) = FirstClaim(d)
  BY DEF FirstClaim
<1>3. L[c[2]] = L[FirstClaim(c)[2]] /\ L[d[2]] = L[FirstClaim(d)[2]]
  BY DEF LabelInv, LinkedInv
<1>4. d[2] \in Ids
  BY <1>1, ClaimFacts
<1> QED BY <1>2, <1>3, <1>4 DEF Class

(* Two trees have no key in common.                                        *)
LEMMA KeysDiffer ==
  ASSUME NEW L, LabelInv(L), pending = {}, NEW g \in Groups, NEW h \in Groups,
         CanonicalKey(g) = CanonicalKey(h)
  PROVE  g = h
<1>1. obs \in Batches /\ Ids \subseteq Nat
  BY BatchesAssumption DEF LabelInv, PlaceInv, Ids
<1>2. PICK r \in Ids : g = Class(L, r) /\ r \in g
  BY GroupFacts
<1>3. PICK s \in Ids : h = Class(L, s) /\ s \in h
  BY GroupFacts
<1> DEFINE StableOf(m) == { c[1] : c \in { d \in StableIndex : d[2] \in m } }
<1>4. \A m : CanonicalKey(m) = IF StableOf(m) # {} THEN << "identifier", Min(StableOf(m)) >>
                               ELSE << "observation", Min(m) >>
  BY DEF CanonicalKey
<1>5. \A m : StableOf(m) \subseteq Nat
  BY <1>1, ClaimFacts
<1>6. \E o \in g : o \in h
  <2>1. CASE StableOf(g) # {} /\ StableOf(h) # {}
    <3>1. Min(StableOf(g)) = Min(StableOf(h))
      <4> HIDE DEF StableOf
      <4> QED BY <1>4, <2>1
    <3>2. Min(StableOf(g)) \in StableOf(g) /\ Min(StableOf(h)) \in StableOf(h)
      <4> HIDE DEF StableOf
      <4> QED BY <1>5, <2>1, MinIsMember
    <3>3. PICK c \in StableIndex : c[2] \in g /\ c[1] = Min(StableOf(g))
      BY <3>2
    <3>4. PICK d \in StableIndex : d[2] \in h /\ d[1] = Min(StableOf(h))
      BY <3>2
    <3>5. c[1] = d[1]
      BY <3>1, <3>3, <3>4
    <3>6. d[2] \in g
      BY <1>2, <3>3, <3>5, TreesAreClosed DEF Closed
    <3> QED BY <3>4, <3>6
  <2>2. CASE StableOf(g) = {} /\ StableOf(h) = {}
    <3>1. Min(g) = Min(h)
      <4> HIDE DEF StableOf
      <4> QED BY <1>4, <2>2
    <3>2. g \subseteq Nat /\ h \subseteq Nat /\ g # {} /\ h # {}
      BY <1>1, <1>2, <1>3 DEF Class
    <3>3. Min(g) \in g /\ Min(h) \in h
      BY <3>2, MinIsMember
    <3> QED BY <3>1, <3>3
  <2>3. ASSUME NEW x, NEW y
        PROVE  << "identifier", x >> # << "observation", y >>
    OBVIOUS
  <2>4. (StableOf(g) = {}) <=> (StableOf(h) = {})
    <3> HIDE DEF StableOf
    <3> QED BY <1>4, <2>3
  <2> QED BY <2>1, <2>2, <2>4
<1> QED BY <1>2, <1>3, <1>6 DEF Class

(* A device is explained by one decision fewer than it has observations,   *)
(* and by none that is weak.                                               *)
LEMMA Explained ==
  ASSUME NEW L, LabelInv(L), at = "group", NEW g \in Groups
  PROVE  /\ Cardinality(Joins(g)) = Cardinality(g) - 1
         /\ Cardinality(g) > 1 => Confidence(g) >= Threshold
<1>1. PICK r \in Ids : L[r] = r /\ g = Class(L, r) /\ r \in g
  BY GroupFacts
<1>2. \A d \in decisions : d.left \in Ids /\ d.right \in Ids /\ d.confidence \in Nat /\ d.confidence >= Threshold
  BY DEF LabelInv, DecidedInv
<1>3. Joins(g) = JoinsOf(L, r) /\ Joins(g) \subseteq decisions
  BY <1>1, <1>2 DEF Joins, JoinsOf, Class
<1>4. Cardinality(Joins(g)) = Cardinality(g) - 1
  BY <1>1, <1>3 DEF LabelInv, DecidedInv
<1>5. ASSUME Cardinality(g) > 1
      PROVE  Confidence(g) >= Threshold
  <2>1. Joins(g) # {}
    <3>1. Cardinality(g) \in Nat
      <4>1. IsFiniteSet(g)
        BY <1>1, BatchesAssumption, FS_Subset DEF Class, LabelInv, PlaceInv, Ids
      <4> QED BY <4>1, FS_CardinalityType
    <3> QED BY <1>4, <1>5, <3>1, FS_EmptySet
  <2> DEFINE C == { d.confidence : d \in Joins(g) }
  <2>2. C \subseteq Nat /\ C # {} /\ \A x \in C : x >= Threshold
    BY <1>2, <1>3, <2>1
  <2>3. Confidence(g) = Min(C)
    BY <2>1 DEF Confidence
  <2> HIDE DEF C
  <2> QED BY <2>2, <2>3, MinIsMember
<1> QED BY <1>4, <1>5

LEMMA GroupIsSound ==
  ASSUME NEW L, LabelInv(L), Group
  PROVE  DevicesSound' /\ LabelInv(L)'
<1>1. /\ at = "group" /\ at' = "done" /\ UNCHANGED << obs, parent, pending, item, root, decisions >>
      /\ devices' = { [key |-> CanonicalKey(g), members |-> g, confidence |-> Confidence(g)] : g \in Groups }
  BY DEF Group
<1>2. pending = {} /\ obs \in Batches
  BY <1>1 DEF LabelInv, PlaceInv, Busy
<1>3. Ids' = Ids /\ (\A S : Closed(S)' = Closed(S)) /\ (\A S : Joins(S)' = Joins(S))
  BY <1>1, ObsKept DEF Joins
<1>4. \A d \in devices' : \E g \in Groups : /\ d.key = CanonicalKey(g) /\ d.members = g
                                            /\ d.confidence = Confidence(g)
                                            /\ d = [key |-> CanonicalKey(g), members |-> g, confidence |-> Confidence(g)]
  BY <1>1
<1>5. GroupsAreComponents'
  <2>1. \A S \in SUBSET Ids' : Closed(S)' => \A o \in Ids' : o \in S <=> parent'[o] \in S
    BY <1>1, <1>3, ForestIsClosed
  <2>2. ASSUME NEW o \in Ids
        PROVE  \E d \in devices' : o \in d.members
    <3> DEFINE g == { p \in Ids : Root[p] = Root[o] }
    <3>1. g \in Groups /\ o \in g
      BY DEF Groups
    <3>2. [key |-> CanonicalKey(g), members |-> g, confidence |-> Confidence(g)] \in devices'
      <4> HIDE DEF g
      <4> QED BY <1>1, <3>1
    <3> HIDE DEF g
    <3> QED BY <3>1, <3>2
  <2>3. ASSUME NEW d \in devices'
        PROVE  Closed(d.members)'
    <3>1. PICK g \in Groups : d.members = g
      BY <1>4
    <3>2. Closed(g)
      BY <1>2, GroupFacts, TreesAreClosed
    <3>3. Closed(d.members)
      BY <3>1, <3>2
    <3> QED BY <1>3, <3>3
  <2> QED BY <1>3, <2>1, <2>2, <2>3 DEF GroupsAreComponents
<1>6. KeysIdentify'
  <2>1. ASSUME NEW d \in devices', NEW e \in devices', d.key = e.key
        PROVE  d = e
    BY <1>2, <1>4, <2>1, KeysDiffer
  <2>2. ASSUME NEW d \in devices'
        PROVE  /\ Cardinality(Joins(d.members)) = Cardinality(d.members) - 1
               /\ Cardinality(d.members) > 1 => d.confidence >= Threshold
    BY <1>1, <1>4, Explained
  <2> QED BY <1>3, <2>1, <2>2 DEF KeysIdentify
<1>7. LabelInv(L)'
  <2>1. PlaceInv(L)'
    BY <1>1, <1>2, <1>3, ObsKept DEF LabelInv, PlaceInv, Busy
  <2>2. DecidedInv(L)'
    <3>1. \A r : JoinsOf(L, r)' = JoinsOf(L, r) /\ Class(L, r)' = Class(L, r)
      BY <1>1, <1>3 DEF JoinsOf, Class
    <3> QED BY <1>1, <1>3, <3>1 DEF LabelInv, DecidedInv
  <2> QED BY <1>1, <2>1, <2>2, SameLabels DEF LabelInv
<1> QED BY <1>5, <1>6, <1>7 DEF DevicesSound

(* Before the end there is no device, and only the forest to speak of.     *)
LEMMA InvIsSound ==
  ASSUME CorrelationInv
  PROVE  DevicesSound
<1>1. CASE at = "done"
  BY <1>1 DEF CorrelationInv
<1>2. CASE at # "done"
  <2>1. devices = {}
    BY <1>2 DEF CorrelationInv
  <2>2. GroupsAreComponents
    BY <1>2, ForestIsClosed DEF CorrelationInv, GroupsAreComponents
  <2> QED BY <2>1, <2>2 DEF KeysIdentify, DevicesSound
<1> QED BY <1>1, <1>2

(* The devices correlate() returns are exactly the connected components of *)
(* the shared stable evidence, whatever the walks of find and the order of *)
(* the claims: no two have a key in common, and a device of n observations *)
(* is explained by n - 1 decisions, none below the threshold.              *)
THEOREM DevicesAreSound == CorrelateSpec => []DevicesSound
<1>1. CorrelateInit => CorrelationInv
  <2> SUFFICES ASSUME CorrelateInit PROVE CorrelationInv
    OBVIOUS
  <2>1. devices = {} /\ at # "done"
    BY DEF CorrelateInit, CorrelateStart
  <2> QED BY <2>1, StartLabels DEF CorrelationInv
<1>2. CorrelationInv /\ [CorrelateNext]_correlationVars => CorrelationInv'
  <2> SUFFICES ASSUME CorrelationInv, [CorrelateNext]_correlationVars
               PROVE  CorrelationInv'
    OBVIOUS
  <2>1. PICK L \in [Ids -> Ids] : LabelInv(L)
    BY DEF CorrelationInv
  <2>2. L \in [Ids -> Ids]' \/ ~UNCHANGED obs
    BY <2>1 DEF Ids
  <2>3. ASSUME LabelInv(L)', UNCHANGED << obs, devices >>, at # "done", at' # "done"
        PROVE  CorrelationInv'
    BY <2>2, <2>3 DEF CorrelationInv
  <2>4. CASE FindStep
    BY <2>1, <2>3, <2>4, FindStepKeeps DEF FindStep
  <2>5. CASE FirstFound
    BY <2>1, <2>3, <2>5, FirstFoundKeeps DEF FirstFound, Returns
  <2>6. CASE AlreadyJoined
    BY <2>1, <2>3, <2>6, AlreadyJoinedKeeps DEF AlreadyJoined, Returns, NextClaim
  <2>7. CASE Decide
    BY <2>1, <2>3, <2>7, DecideKeeps DEF Decide, Returns
  <2>8. CASE LeftFound
    BY <2>1, <2>3, <2>8, LeftFoundKeeps DEF LeftFound, Returns
  <2>9. CASE Union
    <3>1. PICK M \in [Ids -> Ids] : LabelInv(M)'
      BY <2>1, <2>9, UnionKeeps
    <3>2. UNCHANGED << obs, devices >> /\ at # "done" /\ at' # "done"
      BY <2>9 DEF Union, Returns, NextClaim
    <3>3. M \in [Ids -> Ids]'
      BY <3>2 DEF Ids
    <3> QED BY <3>1, <3>2, <3>3 DEF CorrelationInv
  <2>10. CASE Group
    <3>1. DevicesSound' /\ LabelInv(L)'
      BY <2>1, <2>10, GroupIsSound
    <3>2. at' = "done" /\ UNCHANGED obs
      BY <2>10 DEF Group
    <3> QED BY <2>2, <3>1, <3>2 DEF CorrelationInv
  <2>11. CASE UNCHANGED correlationVars
    <3>1. UNCHANGED << obs, parent, pending, at, item, root, decisions, devices, conflicts >>
      BY <2>11 DEF correlationVars
    <3>2. LabelInv(L)'
      <4>1. Forest(L)' /\ ClosedInv(L)' /\ LinkedInv(L)' /\ DecidedInv(L)'
        BY <2>1, <3>1, SameLabels
      <4>2. PlaceInv(L)'
        BY <2>1, <3>1, ObsKept DEF LabelInv, PlaceInv
      <4> QED BY <4>1, <4>2 DEF LabelInv
    <3>3. DevicesSound' = DevicesSound
      <4>1. \A S : Joins(S)' = Joins(S)
        BY <3>1 DEF Joins
      <4>2. Ids' = Ids /\ \A S : Closed(S)' = Closed(S)
        BY <3>1, ObsKept
      <4> QED BY <3>1, <4>1, <4>2 DEF DevicesSound, GroupsAreComponents, KeysIdentify
    <3> QED BY <2>2, <3>1, <3>2, <3>3 DEF CorrelationInv
  <2> QED BY <2>4, <2>5, <2>6, <2>7, <2>8, <2>9, <2>10, <2>11 DEF CorrelateNext
<1>3. CorrelationInv => DevicesSound
  BY InvIsSound
<1> QED BY <1>1, <1>2, <1>3, PTL DEF CorrelateSpec
-----------------------------------------------------------------------------
(* Induction over the natural numbers, as a fact about a set of them.      *)
LEMMA AllNaturals ==
  ASSUME NEW T, 0 \in T, \A n \in Nat : n \in T => n + 1 \in T
  PROVE  \A n \in Nat : n \in T
<1> DEFINE Missing == Nat \ T
<1>1. ASSUME Missing # {}
      PROVE  FALSE
  <2>1. Missing \subseteq Nat
    OBVIOUS
  <2>2. PICK m \in Missing : \A k \in Missing : m <= k
    <3> HIDE DEF Missing
    <3> QED BY <1>1, <2>1, MinIsMember
  <2>3. m \in Nat /\ m # 0 /\ m \notin T
    BY <2>2
  <2>4. m - 1 \in Nat /\ ~(m <= m - 1)
    BY <2>3
  <2>5. m - 1 \in T
    BY <2>2, <2>4
  <2>6. (m - 1) + 1 \in T
    BY <2>4, <2>5
  <2> QED BY <2>3, <2>6
<1> QED BY <1>1

(* An OrderedDict: a key stands in one place.                              *)
Unique(table) == \A i, j \in DOMAIN table : table[i].key = table[j].key => i = j

Bounded(table) == /\ \E E : table \in Seq(E)
                  /\ Len(table) <= MaxEntries
                  /\ Unique(table)

(* The function At is defined by.                                          *)
Selects(table, places, N, f) ==
    f = [n \in 0 .. N |-> IF n = 0 THEN <<>>
                          ELSE IF n \in places THEN Append(f[n - 1], table[n]) ELSE f[n - 1]]

LEMMA SelectsExists ==
  ASSUME NEW table, NEW places
  PROVE  \A N \in Nat : \E f : Selects(table, places, N, f)
<1> DEFINE T == { N \in Nat : \E f : Selects(table, places, N, f) }
<1>1. 0 \in T
  <2> DEFINE f == [n \in 0 .. 0 |-> << >>]
  <2>1. Selects(table, places, 0, f)
    <3>1. 0 .. 0 = {0}
      OBVIOUS
    <3> QED BY <3>1 DEF Selects
  <2> QED BY <2>1
<1>2. ASSUME NEW N \in Nat, N \in T
      PROVE  N + 1 \in T
  <2>1. PICK f : Selects(table, places, N, f)
    BY <1>2
  <2>2. /\ DOMAIN f = 0 .. N
        /\ \A n \in 0 .. N : f[n] = IF n = 0 THEN <<>>
                                    ELSE IF n \in places THEN Append(f[n - 1], table[n]) ELSE f[n - 1]
    BY <2>1 DEF Selects
  <2> DEFINE last == IF N + 1 \in places THEN Append(f[N], table[N + 1]) ELSE f[N]
             g == [n \in 0 .. N + 1 |-> IF n = N + 1 THEN last ELSE f[n]]
  <2>3. ASSUME NEW n \in 0 .. N + 1
        PROVE  g[n] = IF n = 0 THEN <<>>
                      ELSE IF n \in places THEN Append(g[n - 1], table[n]) ELSE g[n - 1]
    <3>1. CASE n = N + 1
      <4>1. n # 0 /\ n - 1 = N /\ N \in 0 .. N + 1 /\ N # N + 1
        BY <3>1
      <4>2. g[n] = last /\ g[n - 1] = f[N]
        BY <3>1, <4>1
      <4> QED BY <3>1, <4>1, <4>2
    <3>2. CASE n # N + 1
      <4>1. n \in 0 .. N /\ g[n] = f[n]
        BY <3>2
      <4>2. n # 0 => n - 1 \in 0 .. N + 1 /\ n - 1 # N + 1
        BY <3>2
      <4>3. n # 0 => g[n - 1] = f[n - 1]
        BY <4>2
      <4> HIDE DEF g
      <4> QED BY <2>2, <4>1, <4>3
    <3> QED BY <3>1, <3>2
  <2>4. DOMAIN g = 0 .. N + 1
    OBVIOUS
  <2>5. g = [n \in 0 .. N + 1 |-> g[n]]
    OBVIOUS
  <2>6. Selects(table, places, N + 1, g)
    <3> HIDE DEF g
    <3> QED BY <2>3, <2>5 DEF Selects
  <2> QED BY <2>6
<1>3. \A N \in Nat : N \in T
  <2> HIDE DEF T
  <2> QED BY <1>1, <1>2, AllNaturals
<1> QED BY <1>3

(* What At returns: the entries at those places, no key twice.             *)
LEMMA AtFacts ==
  ASSUME NEW table, Bounded(table), NEW places
  PROVE  /\ Bounded(At(table, places))
         /\ ToSet(At(table, places)) = { table[i] : i \in places \intersect DOMAIN table }
         /\ Len(At(table, places)) <= Len(table)
<1>1. PICK E : table \in Seq(E)
  BY DEF Bounded
<1> DEFINE N == Len(table)
<1>2. N \in Nat /\ DOMAIN table = 1 .. N /\ \A n \in 1 .. N : table[n] \in E
  BY <1>1
<1> DEFINE f == CHOOSE f : Selects(table, places, N, f)
<1>3. Selects(table, places, N, f)
  BY <1>2, SelectsExists
<1>4. At(table, places) = f[N]
  BY DEF At, Selects
<1> HIDE DEF f, N
<1>5. /\ f[0] = <<>>
      /\ \A n \in Nat : n + 1 <= N =>
             f[n + 1] = IF n + 1 \in places THEN Append(f[n], table[n + 1]) ELSE f[n]
  <2>1. \A n \in 0 .. N : f[n] = IF n = 0 THEN <<>>
                                 ELSE IF n \in places THEN Append(f[n - 1], table[n]) ELSE f[n - 1]
    BY <1>3 DEF Selects
  <2>2. f[0] = <<>>
    BY <1>2, <2>1
  <2>3. ASSUME NEW n \in Nat, n + 1 <= N
        PROVE  f[n + 1] = IF n + 1 \in places THEN Append(f[n], table[n + 1]) ELSE f[n]
    <3>1. n + 1 \in 0 .. N /\ n + 1 # 0 /\ (n + 1) - 1 = n
      BY <1>2, <2>3
    <3> QED BY <2>1, <3>1
  <2> QED BY <2>2, <2>3
<1> DEFINE Right(n) == /\ f[n] \in Seq(E) /\ Len(f[n]) <= n
                       /\ \A i \in 1 .. Len(f[n]) : \E m \in 1 .. n : m \in places /\ f[n][i] = table[m]
                       /\ \A m \in 1 .. n : m \in places => \E i \in 1 .. Len(f[n]) : f[n][i] = table[m]
                       /\ \A i, j \in 1 .. Len(f[n]) : f[n][i].key = f[n][j].key => i = j
           T == { n \in Nat : n <= N => Right(n) }
<1>6. 0 \in T
  <2>1. f[0] \in Seq(E) /\ Len(f[0]) = 0 /\ 1 .. 0 = {}
    BY <1>5
  <2>2. Right(0)
    BY <2>1
  <2> HIDE DEF Right
  <2> QED BY <2>2
<1>7. ASSUME NEW n \in Nat, n \in T
      PROVE  n + 1 \in T
  <2> SUFFICES ASSUME n + 1 <= N PROVE Right(n + 1)
    <3> HIDE DEF Right
    <3> QED OBVIOUS
  <2>1. n <= N
    BY <1>2
  <2>2. Right(n)
    <3> HIDE DEF Right
    <3> QED BY <1>7, <2>1
  <2> DEFINE s == f[n]
  <2>3. s \in Seq(E) /\ Len(s) \in Nat /\ Len(s) <= n
    BY <2>2
  <2>4. n + 1 \in 1 .. N /\ table[n + 1] \in E
    BY <1>2
  <2>5. CASE n + 1 \notin places
    <3>1. f[n + 1] = s
      BY <1>5, <2>5
    <3>2. \A m \in 1 .. n + 1 : m \in places => m \in 1 .. n
      BY <2>5
    <3>3. \A m \in 1 .. n : m \in 1 .. n + 1
      OBVIOUS
    <3>4. Len(s) <= n + 1
      BY <2>3
    <3> QED BY <2>2, <3>1, <3>2, <3>3, <3>4
  <2>6. CASE n + 1 \in places
    <3> DEFINE t == Append(s, table[n + 1])
    <3>1. f[n + 1] = t
      BY <1>5, <2>6
    <3>2. /\ t \in Seq(E) /\ Len(t) = Len(s) + 1 /\ t[Len(s) + 1] = table[n + 1]
          /\ \A i \in 1 .. Len(s) : t[i] = s[i]
      BY <2>3, <2>4
    <3> HIDE DEF t
    <3>3. \A i \in 1 .. Len(t) : i \in 1 .. Len(s) \/ i = Len(s) + 1
      BY <2>3, <3>2
    <3>4. \A i \in 1 .. Len(t) : \E m \in 1 .. n + 1 : m \in places /\ t[i] = table[m]
      <4>1. \A m \in 1 .. n : m \in 1 .. n + 1
        OBVIOUS
      <4>2. n + 1 \in 1 .. n + 1
        OBVIOUS
      <4> QED BY <2>2, <2>6, <3>2, <3>3, <4>1, <4>2
    <3>5. \A m \in 1 .. n + 1 : m \in places => \E i \in 1 .. Len(t) : t[i] = table[m]
      <4>1. ASSUME NEW m \in 1 .. n + 1, m \in places
            PROVE  \E i \in 1 .. Len(t) : t[i] = table[m]
        <5>1. CASE m = n + 1
          <6>1. Len(s) + 1 \in 1 .. Len(t)
            BY <2>3, <3>2
          <6> QED BY <3>2, <5>1, <6>1
        <5>2. CASE m # n + 1
          <6>1. m \in 1 .. n
            BY <5>2
          <6>2. PICK i \in 1 .. Len(s) : s[i] = table[m]
            BY <2>2, <4>1, <6>1
          <6>3. i \in 1 .. Len(t)
            BY <2>3, <3>2
          <6> QED BY <3>2, <6>2, <6>3
        <5> QED BY <5>1, <5>2
      <4> QED BY <4>1
    <3>6. \A i, j \in 1 .. Len(t) : t[i].key = t[j].key => i = j
      <4>1. \A i \in 1 .. Len(s) : s[i].key # table[n + 1].key
        <5>1. ASSUME NEW i \in 1 .. Len(s), s[i].key = table[n + 1].key
              PROVE  FALSE
          <6>1. PICK m \in 1 .. n : s[i] = table[m]
            BY <2>2
          <6>2. m \in DOMAIN table /\ n + 1 \in DOMAIN table /\ m # n + 1
            BY <1>2, <2>4
          <6> QED BY <5>1, <6>1, <6>2 DEF Bounded, Unique
        <5> QED BY <5>1
      <4>2. ASSUME NEW i \in 1 .. Len(t), NEW j \in 1 .. Len(t), t[i].key = t[j].key
            PROVE  i = j
        <5>1. CASE i \in 1 .. Len(s) /\ j \in 1 .. Len(s)
          BY <2>2, <3>2, <4>2, <5>1
        <5>2. CASE i \in 1 .. Len(s) /\ j = Len(s) + 1
          BY <3>2, <4>1, <4>2, <5>2
        <5>3. CASE i = Len(s) + 1 /\ j \in 1 .. Len(s)
          BY <3>2, <4>1, <4>2, <5>3
        <5> QED BY <3>3, <5>1, <5>2, <5>3
      <4> QED BY <4>2
    <3>7. Len(t) <= n + 1
      BY <2>3, <3>2
    <3> QED BY <3>1, <3>2, <3>4, <3>5, <3>6, <3>7
  <2> QED BY <2>5, <2>6
<1>8. N \in T
  <2> HIDE DEF T
  <2> QED BY <1>2, <1>6, <1>7, AllNaturals
<1>9. Right(N)
  <2> HIDE DEF Right
  <2> QED BY <1>2, <1>8
<1> HIDE DEF T
<1> DEFINE r == At(table, places)
<1>10. /\ r \in Seq(E) /\ Len(r) \in Nat /\ Len(r) <= N /\ DOMAIN r = 1 .. Len(r)
       /\ \A i \in DOMAIN r : \E m \in DOMAIN table : m \in places /\ r[i] = table[m]
       /\ \A m \in DOMAIN table : m \in places => \E i \in DOMAIN r : r[i] = table[m]
       /\ Unique(r)
  <2>1. r = f[N]
    BY <1>4
  <2> HIDE DEF r
  <2>2. r \in Seq(E) /\ Len(r) <= N
    BY <1>9, <2>1
  <2>3. Len(r) \in Nat /\ DOMAIN r = 1 .. Len(r)
    BY <2>2
  <2>4. \A i \in DOMAIN r : \E m \in DOMAIN table : m \in places /\ r[i] = table[m]
    BY <1>2, <1>9, <2>1, <2>3
  <2>5. \A m \in DOMAIN table : m \in places => \E i \in DOMAIN r : r[i] = table[m]
    BY <1>2, <1>9, <2>1, <2>3
  <2>6. Unique(r)
    BY <1>9, <2>1, <2>3 DEF Unique
  <2> QED BY <2>2, <2>3, <2>4, <2>5, <2>6
<1> HIDE DEF r
<1>11. ToSet(r) = { table[i] : i \in places \intersect DOMAIN table }
  BY <1>10 DEF ToSet
<1>12. Bounded(r)
  <2>1. Len(r) <= MaxEntries
    BY <1>2, <1>10, ServiceAssumption DEF Bounded, N
  <2> QED BY <1>10, <2>1 DEF Bounded
<1> QED BY <1>10, <1>11, <1>12 DEF r, N

(* The keys of a bounded table are as many as its entries.                 *)
LEMMA KeyCount ==
  ASSUME NEW table, Bounded(table)
  PROVE  Len(table) \in Nat /\ Len(table) = Cardinality(Keys(table))
<1>1. Len(table) \in Nat /\ DOMAIN table = 1 .. Len(table)
  BY DEF Bounded
<1> DEFINE f == [i \in 1 .. Len(table) |-> table[i].key]
<1>2. f \in Bijection(1 .. Len(table), Keys(table))
  <2>1. Unique(table)
    BY DEF Bounded
  <2>2. f \in [1 .. Len(table) -> Keys(table)]
    BY <1>1 DEF Keys
  <2>3. IsInjective(f)
    BY <1>1, <2>1 DEF IsInjective, Unique
  <2>4. \A k \in Keys(table) : \E i \in 1 .. Len(table) : f[i] = k
    BY <1>1 DEF Keys
  <2> HIDE DEF f
  <2> QED BY <2>2, <2>3, <2>4 DEF Bijection, Injection, Surjection
<1>3. IsFiniteSet(1 .. Len(table)) /\ Cardinality(1 .. Len(table)) = Len(table)
  <2>1. IsFiniteSet(1 .. Len(table))
    BY <1>1, FS_Interval
  <2>2. Cardinality(1 .. Len(table)) = IF 1 > Len(table) THEN 0 ELSE Len(table) - 1 + 1
    BY <1>1, FS_Interval
  <2> QED BY <1>1, <2>1, <2>2
<1>4. Cardinality(Keys(table)) = Cardinality(1 .. Len(table))
  <2> HIDE DEF f
  <2> QED BY <1>2, <1>3, FS_Bijection DEF ExistsBijection
<1> QED BY <1>1, <1>3, <1>4

LEMMA KeysOfEntries ==
  ASSUME NEW table
  PROVE  Keys(table) = { e.key : e \in ToSet(table) }
BY DEF Keys, ToSet

LEMMA WithoutFacts ==
  ASSUME NEW table, Bounded(table), NEW key
  PROVE  /\ Bounded(Without(table, key))
         /\ ToSet(Without(table, key)) = { e \in ToSet(table) : e.key # key }
<1> DEFINE places == { i \in DOMAIN table : table[i].key # key }
<1>1. Without(table, key) = At(table, places)
  BY DEF Without
<1>2. { table[i] : i \in places \intersect DOMAIN table } = { e \in ToSet(table) : e.key # key }
  BY DEF ToSet
<1> HIDE DEF places
<1> QED BY <1>1, <1>2, AtFacts

(* A new or updated entry, and nothing the table did not hold.             *)
LEMMA PutFacts ==
  ASSUME NEW table, Bounded(table), NEW entry
  PROVE  /\ Bounded(Put(table, entry))
         /\ \A e \in ToSet(Put(table, entry)) :
                e = entry \/ (e \in ToSet(table) /\ e.key # entry.key)
<1> DEFINE w == Without(table, entry.key)
           all == Append(w, entry)
           put == IF Len(all) > MaxEntries THEN Tail(all) ELSE all
<1>1. Bounded(w) /\ ToSet(w) = { e \in ToSet(table) : e.key # entry.key }
  BY WithoutFacts
<1>2. Put(table, entry) = put
  BY DEF Put
<1> HIDE DEF w
<1>3. PICK E : w \in Seq(E)
  BY <1>1 DEF Bounded
<1>4. Len(w) \in Nat /\ Len(w) <= MaxEntries /\ DOMAIN w = 1 .. Len(w) /\ MaxEntries \in Nat
  BY <1>1, <1>3, ServiceAssumption DEF Bounded
<1>5. /\ all \in Seq(E \union {entry}) /\ Len(all) = Len(w) + 1 /\ DOMAIN all = 1 .. Len(w) + 1
      /\ all[Len(w) + 1] = entry /\ \A i \in 1 .. Len(w) : all[i] = w[i]
  <2>1. w \in Seq(E \union {entry})
    BY <1>3
  <2> QED BY <1>4, <2>1
<1> HIDE DEF all
<1>6. \A i \in DOMAIN all : i \in 1 .. Len(w) \/ i = Len(w) + 1
  BY <1>4, <1>5
<1>7. \A i \in 1 .. Len(w) : w[i] \in ToSet(table) /\ w[i].key # entry.key
  <2>1. \A i \in 1 .. Len(w) : w[i] \in ToSet(w)
    BY <1>4 DEF ToSet
  <2> QED BY <1>1, <2>1
<1>8. Unique(all)
  <2> SUFFICES ASSUME NEW i \in DOMAIN all, NEW j \in DOMAIN all, all[i].key = all[j].key
               PROVE  i = j
    BY DEF Unique
  <2>1. CASE i \in 1 .. Len(w) /\ j \in 1 .. Len(w)
    BY <1>1, <1>4, <1>5, <2>1 DEF Bounded, Unique
  <2>2. CASE i = Len(w) + 1 /\ j \in 1 .. Len(w)
    BY <1>5, <1>7, <2>2
  <2>3. CASE i \in 1 .. Len(w) /\ j = Len(w) + 1
    BY <1>5, <1>7, <2>3
  <2> QED BY <1>6, <2>1, <2>2, <2>3
<1>9. \A i \in DOMAIN all : all[i] = entry \/ (all[i] \in ToSet(table) /\ all[i].key # entry.key)
  BY <1>5, <1>6, <1>7
<1>10. CASE Len(all) > MaxEntries
  <2> DEFINE r == Tail(all)
  <2>1. /\ r \in Seq(E \union {entry}) /\ Len(r) = Len(w) /\ DOMAIN r = 1 .. Len(w)
        /\ \A i \in 1 .. Len(w) : r[i] = all[i + 1] /\ i + 1 \in DOMAIN all
    BY <1>4, <1>5
  <2> HIDE DEF r
  <2>2. Unique(r)
    <3> SUFFICES ASSUME NEW i \in DOMAIN r, NEW j \in DOMAIN r, r[i].key = r[j].key
                 PROVE  i = j
      BY DEF Unique
    <3>1. i + 1 = j + 1
      BY <1>8, <2>1 DEF Unique
    <3> QED BY <1>4, <2>1, <3>1
  <2>3. Bounded(r)
    BY <1>4, <2>1, <2>2 DEF Bounded
  <2>4. \A e \in ToSet(r) : e = entry \/ (e \in ToSet(table) /\ e.key # entry.key)
    BY <1>9, <2>1 DEF ToSet
  <2> QED BY <1>2, <1>10, <2>3, <2>4 DEF r
<1>11. CASE ~(Len(all) > MaxEntries)
  <2>1. Bounded(all)
    BY <1>4, <1>5, <1>8, <1>11 DEF Bounded
  <2>2. \A e \in ToSet(all) : e = entry \/ (e \in ToSet(table) /\ e.key # entry.key)
    BY <1>9 DEF ToSet
  <2> QED BY <1>2, <1>11, <2>1, <2>2
<1> QED BY <1>10, <1>11

-----------------------------------------------------------------------------
(* A tracker that has been shown some keys at one time: its entries are    *)
(* those it had, or are as new as that; two that conflict were disclosed   *)
(* before or are named in its output.                                      *)
Named(output, k, l) == \E o \in output : o.kind = "neighbor_conflict" /\ {o.key, o.other} = {k, l}

Shows(t, keys, time) ==
    /\ Bounded(t.table)
    /\ \A e \in ToSet(t.table) :
           \/ e \in ToSet(neighbors) /\ e.key \notin keys
           \/ e.key \in keys /\ e.last = time /\ e.emitted \in 0 .. now
    /\ \A k, l \in Keys(t.table) : Conflicting(k, l) => {k, l} \in disclosed \/ Named(t.output, k, l)
    /\ \A o \in t.output : o.kind \in {"neighbor_observation", "neighbor_conflict"}

LEMMA ObserveKeeps ==
  ASSUME NEW t, NEW keys, NEW key, NEW time \in 0 .. now, now \in Nat, Shows(t, keys, time),
         \A e \in ToSet(neighbors) : e.emitted \in 0 .. now
  PROVE  Shows(Observe(t, key, time), keys \union {key}, time)
<1> DEFINE table == t.table
           known == key \in Keys(table)
           quiet == known /\ time - Entry(table, key).emitted < DedupeWindow
           rivals == {k \in Keys(table) : Conflicting(k, key)}
           entry == [key |-> key, last |-> time,
                     emitted |-> IF quiet THEN Entry(table, key).emitted ELSE time]
           more == (IF quiet THEN {} ELSE {[kind |-> "neighbor_observation", key |-> key]})
                   \union (IF known THEN {}
                           ELSE {[kind |-> "neighbor_conflict", key |-> key, other |-> k] : k \in rivals})
           r == Observe(t, key, time)
<1>1. r.table = Put(table, entry) /\ r.output = t.output \union more
  <2>1. r = Tracker(Put(table, entry), t.output
                    \union (IF quiet THEN {} ELSE {[kind |-> "neighbor_observation", key |-> key]})
                    \union (IF known THEN {}
                           ELSE {[kind |-> "neighbor_conflict", key |-> key, other |-> k] : k \in rivals}))
    BY DEF Observe
  <2> HIDE DEF r, entry, quiet, known, rivals
  <2> QED BY <2>1 DEF Tracker
<1> HIDE DEF r
<1>2. entry.key = key /\ entry.last = time /\ entry.emitted \in 0 .. now
  <2>1. known => Entry(table, key) \in ToSet(table)
    <3>1. known => \E e \in ToSet(table) : e.key = key
      BY KeysOfEntries
    <3> QED BY <3>1 DEF Entry
  <2>2. known => Entry(table, key).emitted \in 0 .. now
    BY <2>1 DEF Shows
  <2>3. quiet => known
    OBVIOUS
  <2> HIDE DEF quiet, known
  <2> QED BY <2>2, <2>3
<1> HIDE DEF entry
<1>3. Bounded(r.table) /\ \A e \in ToSet(r.table) : e = entry \/ (e \in ToSet(table) /\ e.key # key)
  BY <1>1, <1>2, PutFacts DEF Shows
<1>4. \A e \in ToSet(r.table) :
           \/ e \in ToSet(neighbors) /\ e.key \notin keys \union {key}
           \/ e.key \in keys \union {key} /\ e.last = time /\ e.emitted \in 0 .. now
  BY <1>2, <1>3 DEF Shows
<1>5. \A o \in more : o.kind \in {"neighbor_observation", "neighbor_conflict"}
  <2> HIDE DEF quiet, known, rivals
  <2> QED OBVIOUS
<1>6. ~known => \A k \in Keys(table) : Conflicting(k, key) => Named(more, k, key)
  <2> SUFFICES ASSUME ~known, NEW k \in rivals
               PROVE  Named(more, k, key)
    OBVIOUS
  <2> DEFINE o == [kind |-> "neighbor_conflict", key |-> key, other |-> k]
  <2>1. o \in more
    <3> HIDE DEF quiet, known, rivals
    <3> QED OBVIOUS
  <2>2. o.kind = "neighbor_conflict" /\ {o.key, o.other} = {k, key}
    OBVIOUS
  <2> HIDE DEF o, more
  <2> QED BY <2>1, <2>2 DEF Named
<1> HIDE DEF more
<1>7. \A k \in Keys(r.table) : k \in Keys(table) \/ k = key
  BY <1>2, <1>3, KeysOfEntries
<1>8. ASSUME NEW k \in Keys(r.table), NEW l \in Keys(r.table), Conflicting(k, l)
      PROVE  {k, l} \in disclosed \/ Named(r.output, k, l)
  <2>1. CASE k \in Keys(table) /\ l \in Keys(table)
    BY <1>1, <1>8, <2>1 DEF Shows, Named
  <2>2. CASE ~known /\ k \in Keys(table) /\ l = key
    BY <1>1, <1>6, <1>8, <2>2 DEF Named
  <2>3. CASE ~known /\ k = key /\ l \in Keys(table)
    <3>1. Conflicting(l, k) /\ {k, l} = {l, k}
      BY <1>8 DEF Conflicting
    <3> QED BY <1>1, <1>6, <2>3, <3>1 DEF Named
  <2>4. CASE k = key /\ l = key
    BY <1>8, <2>4 DEF Conflicting
  <2> QED BY <1>7, <2>1, <2>2, <2>3, <2>4
<1>9. \A o \in r.output : o.kind \in {"neighbor_observation", "neighbor_conflict"}
  BY <1>1, <1>5 DEF Shows
<1> QED BY <1>3, <1>4, <1>8, <1>9 DEF Shows, r

(* The function ObserveAll is defined by.                                  *)
Polls(t, keys, time, N, f) ==
    f = [n \in 0 .. N |-> IF n = 0 THEN t ELSE Observe(f[n - 1], keys[n], time)]

LEMMA PollsExists ==
  ASSUME NEW t, NEW keys, NEW time
  PROVE  \A N \in Nat : \E f : Polls(t, keys, time, N, f)
<1> DEFINE T == { N \in Nat : \E f : Polls(t, keys, time, N, f) }
<1>1. 0 \in T
  <2> DEFINE f == [n \in 0 .. 0 |-> t]
  <2>1. Polls(t, keys, time, 0, f)
    <3>1. 0 .. 0 = {0}
      OBVIOUS
    <3> QED BY <3>1 DEF Polls
  <2> QED BY <2>1
<1>2. ASSUME NEW N \in Nat, N \in T
      PROVE  N + 1 \in T
  <2>1. PICK f : Polls(t, keys, time, N, f)
    BY <1>2
  <2>2. \A n \in 0 .. N : f[n] = IF n = 0 THEN t ELSE Observe(f[n - 1], keys[n], time)
    BY <2>1 DEF Polls
  <2> DEFINE last == Observe(f[N], keys[N + 1], time)
             g == [n \in 0 .. N + 1 |-> IF n = N + 1 THEN last ELSE f[n]]
  <2>3. ASSUME NEW n \in 0 .. N + 1
        PROVE  g[n] = IF n = 0 THEN t ELSE Observe(g[n - 1], keys[n], time)
    <3>1. CASE n = N + 1
      <4>1. n # 0 /\ n - 1 = N /\ N \in 0 .. N + 1 /\ N # N + 1
        BY <3>1
      <4>2. g[n] = last /\ g[n - 1] = f[N]
        BY <3>1, <4>1
      <4> QED BY <3>1, <4>1, <4>2
    <3>2. CASE n # N + 1
      <4>1. n \in 0 .. N /\ g[n] = f[n]
        BY <3>2
      <4>2. n # 0 => n - 1 \in 0 .. N + 1 /\ n - 1 # N + 1
        BY <3>2
      <4>3. n # 0 => g[n - 1] = f[n - 1]
        BY <4>2
      <4> HIDE DEF g
      <4> QED BY <2>2, <4>1, <4>3
    <3> QED BY <3>1, <3>2
  <2>4. g = [n \in 0 .. N + 1 |-> g[n]]
    OBVIOUS
  <2>5. Polls(t, keys, time, N + 1, g)
    <3> HIDE DEF g
    <3> QED BY <2>3, <2>4 DEF Polls
  <2> QED BY <2>5
<1>3. \A N \in Nat : N \in T
  <2> HIDE DEF T
  <2> QED BY <1>1, <1>2, AllNaturals
<1> QED BY <1>3

(* The kernel's neighbors, one after the other.                            *)
LEMMA ObserveAllKeeps ==
  ASSUME NEW t, NEW keys, keys \in Seq(ToSet(keys)), NEW time \in 0 .. now, now \in Nat,
         Shows(t, {}, time), \A e \in ToSet(neighbors) : e.emitted \in 0 .. now
  PROVE  Shows(ObserveAll(t, keys, time), ToSet(keys), time)
<1> DEFINE N == Len(keys)
           f == CHOOSE f : Polls(t, keys, time, N, f)
           upTo(n) == { keys[i] : i \in 1 .. n }
<1>1. N \in Nat /\ DOMAIN keys = 1 .. N
  OBVIOUS
<1>2. Polls(t, keys, time, N, f)
  BY <1>1, PollsExists
<1>3. ObserveAll(t, keys, time) = f[N]
  BY DEF ObserveAll, Polls
<1> HIDE DEF f, N
<1>4. \A n \in 0 .. N : f[n] = IF n = 0 THEN t ELSE Observe(f[n - 1], keys[n], time)
  BY <1>2 DEF Polls
<1> DEFINE T == { n \in Nat : n <= N => Shows(f[n], upTo(n), time) }
<1>5. 0 \in T
  <2>1. f[0] = t /\ upTo(0) = {}
    BY <1>1, <1>4
  <2> HIDE DEF upTo
  <2> QED BY <2>1
<1>6. ASSUME NEW n \in Nat, n \in T
      PROVE  n + 1 \in T
  <2> SUFFICES ASSUME n + 1 <= N PROVE Shows(f[n + 1], upTo(n + 1), time)
    <3> HIDE DEF upTo
    <3> QED OBVIOUS
  <2>1. n <= N
    BY <1>1
  <2>2. Shows(f[n], upTo(n), time)
    <3> HIDE DEF upTo
    <3> QED BY <1>6, <2>1
  <2>3. f[n + 1] = Observe(f[n], keys[n + 1], time)
    <3>1. n + 1 \in 0 .. N /\ n + 1 # 0 /\ (n + 1) - 1 = n
      BY <1>1
    <3> QED BY <1>4, <3>1
  <2>4. upTo(n + 1) = upTo(n) \union {keys[n + 1]}
    <3>1. 1 .. n + 1 = (1 .. n) \union {n + 1}
      OBVIOUS
    <3> QED BY <3>1
  <2> HIDE DEF upTo
  <2> QED BY <2>2, <2>3, <2>4, ObserveKeeps
<1>7. N \in T
  <2> HIDE DEF T
  <2> QED BY <1>1, <1>5, <1>6, AllNaturals
<1>8. Shows(f[N], upTo(N), time)
  <2> HIDE DEF upTo
  <2> QED BY <1>1, <1>7
<1>9. upTo(N) = ToSet(keys)
  BY <1>1 DEF ToSet
<1> HIDE DEF upTo
<1> QED BY <1>3, <1>8, <1>9

(* NeighborTracker.expire takes entries away, and names each.              *)
LEMMA ExpireNeighborsFacts ==
  ASSUME NEW t, NEW time, Bounded(t.table)
  PROVE  LET r == ExpireNeighbors(t, time)
         IN  /\ Bounded(r.table) /\ ToSet(r.table) \subseteq ToSet(t.table)
             /\ t.output \subseteq r.output
             /\ \A o \in r.output \ t.output :
                    /\ o.kind = "neighbor_expired"
                    /\ \E e \in ToSet(t.table) : e.key = o.key /\ e.last + MaxAge <= time
<1> DEFINE table == t.table
           due == {i \in DOMAIN table : table[i].last + MaxAge <= time}
           gone == {[kind |-> "neighbor_expired", key |-> table[i].key] : i \in due}
           r == ExpireNeighbors(t, time)
<1>1. r.table = At(table, DOMAIN table \ due) /\ r.output = t.output \union gone
  BY DEF ExpireNeighbors, Tracker
<1>2. \A o \in gone : /\ o.kind = "neighbor_expired"
                      /\ \E e \in ToSet(table) : e.key = o.key /\ e.last + MaxAge <= time
  BY DEF ToSet
<1> HIDE DEF r, due, gone
<1>3. Bounded(r.table) /\ ToSet(r.table) \subseteq ToSet(table)
  <2>1. { table[i] : i \in (DOMAIN table \ due) \intersect DOMAIN table } \subseteq ToSet(table)
    BY DEF ToSet
  <2> QED BY <1>1, <2>1, AtFacts
<1> QED BY <1>1, <1>2, <1>3 DEF r

-----------------------------------------------------------------------------
(* The mDNS cache.                                                         *)
Caches(t) == /\ Bounded(t.table)
             /\ \A o \in t.output : o.kind \in {"mdns_expired", "mdns_goodbye", "mdns_announce"}

LEMMA ExpireCacheKeeps ==
  ASSUME NEW t, NEW time, Caches(t)
  PROVE  Caches(ExpireCache(t, time))
<1> DEFINE table == t.table
           due == {i \in DOMAIN table : table[i].expires <= time}
           gone == {[kind |-> "mdns_expired", key |-> table[i].key] : i \in due}
           r == ExpireCache(t, time)
<1>1. r.table = At(table, DOMAIN table \ due) /\ r.output = t.output \union gone
  BY DEF ExpireCache, Tracker
<1>2. \A o \in gone : o.kind = "mdns_expired"
  OBVIOUS
<1> HIDE DEF r, due, gone
<1>3. Bounded(r.table)
  BY <1>1, AtFacts DEF Caches
<1> QED BY <1>1, <1>2, <1>3 DEF Caches, r

LEMMA RecordKeeps ==
  ASSUME NEW t, NEW record, NEW time, Caches(t)
  PROVE  Caches(Record(t, record, time))
<1> DEFINE entry == [key |-> record.key, expires |-> time + record.ttl]
           r == Record(t, record, time)
<1>1. CASE record.ttl = 0
  <2>1. /\ r.table = Without(t.table, record.key)
        /\ r.output = t.output \union {[kind |-> "mdns_goodbye", key |-> record.key]}
    BY <1>1 DEF Record, Tracker
  <2> HIDE DEF r
  <2> QED BY <2>1, WithoutFacts DEF Caches, r
<1>2. CASE record.ttl # 0
  <2>1. /\ r.table = Put(t.table, entry)
        /\ r.output = t.output \union {[kind |-> "mdns_announce", key |-> record.key]}
    BY <1>2 DEF Record, Tracker
  <2> HIDE DEF r, entry
  <2> QED BY <2>1, PutFacts DEF Caches, r
<1> QED BY <1>1, <1>2

(* The function RecordAll is defined by.                                   *)
Parses(t, records, time, N, f) ==
    f = [n \in 0 .. N |-> IF n = 0 THEN t ELSE Record(f[n - 1], records[n], time)]

LEMMA ParsesExists ==
  ASSUME NEW t, NEW records, NEW time
  PROVE  \A N \in Nat : \E f : Parses(t, records, time, N, f)
<1> DEFINE T == { N \in Nat : \E f : Parses(t, records, time, N, f) }
<1>1. 0 \in T
  <2> DEFINE f == [n \in 0 .. 0 |-> t]
  <2>1. Parses(t, records, time, 0, f)
    <3>1. 0 .. 0 = {0}
      OBVIOUS
    <3> QED BY <3>1 DEF Parses
  <2> QED BY <2>1
<1>2. ASSUME NEW N \in Nat, N \in T
      PROVE  N + 1 \in T
  <2>1. PICK f : Parses(t, records, time, N, f)
    BY <1>2
  <2>2. \A n \in 0 .. N : f[n] = IF n = 0 THEN t ELSE Record(f[n - 1], records[n], time)
    BY <2>1 DEF Parses
  <2> DEFINE last == Record(f[N], records[N + 1], time)
             g == [n \in 0 .. N + 1 |-> IF n = N + 1 THEN last ELSE f[n]]
  <2>3. ASSUME NEW n \in 0 .. N + 1
        PROVE  g[n] = IF n = 0 THEN t ELSE Record(g[n - 1], records[n], time)
    <3>1. CASE n = N + 1
      <4>1. n # 0 /\ n - 1 = N /\ N \in 0 .. N + 1 /\ N # N + 1
        BY <3>1
      <4>2. g[n] = last /\ g[n - 1] = f[N]
        BY <3>1, <4>1
      <4> QED BY <3>1, <4>1, <4>2
    <3>2. CASE n # N + 1
      <4>1. n \in 0 .. N /\ g[n] = f[n]
        BY <3>2
      <4>2. n # 0 => n - 1 \in 0 .. N + 1 /\ n - 1 # N + 1
        BY <3>2
      <4>3. n # 0 => g[n - 1] = f[n - 1]
        BY <4>2
      <4> HIDE DEF g
      <4> QED BY <2>2, <4>1, <4>3
    <3> QED BY <3>1, <3>2
  <2>4. g = [n \in 0 .. N + 1 |-> g[n]]
    OBVIOUS
  <2>5. Parses(t, records, time, N + 1, g)
    <3> HIDE DEF g
    <3> QED BY <2>3, <2>4 DEF Parses
  <2> QED BY <2>5
<1>3. \A N \in Nat : N \in T
  <2> HIDE DEF T
  <2> QED BY <1>1, <1>2, AllNaturals
<1> QED BY <1>3

LEMMA RecordAllKeeps ==
  ASSUME NEW t, NEW records, Len(records) \in Nat, NEW time, Caches(t)
  PROVE  Caches(RecordAll(t, records, time))
<1> DEFINE N == Len(records)
           f == CHOOSE f : Parses(t, records, time, N, f)
<1>1. Parses(t, records, time, N, f)
  BY ParsesExists
<1>2. RecordAll(t, records, time) = f[N]
  BY DEF RecordAll, Parses
<1>3. N \in Nat
  OBVIOUS
<1> HIDE DEF f, N
<1>4. \A n \in 0 .. N : f[n] = IF n = 0 THEN t ELSE Record(f[n - 1], records[n], time)
  BY <1>1 DEF Parses
<1> DEFINE T == { n \in Nat : n <= N => Caches(f[n]) }
<1>5. 0 \in T
  BY <1>3, <1>4
<1>6. ASSUME NEW n \in Nat, n \in T
      PROVE  n + 1 \in T
  <2> SUFFICES ASSUME n + 1 <= N PROVE Caches(f[n + 1])
    OBVIOUS
  <2>1. n <= N
    BY <1>3
  <2>2. Caches(f[n])
    BY <1>6, <2>1
  <2>3. f[n + 1] = Record(f[n], records[n + 1], time)
    <3>1. n + 1 \in 0 .. N /\ n + 1 # 0 /\ (n + 1) - 1 = n
      BY <1>3
    <3> QED BY <1>4, <3>1
  <2> QED BY <2>2, <2>3, RecordKeeps
<1>7. N \in T
  <2> HIDE DEF T
  <2> QED BY <1>3, <1>5, <1>6, AllNaturals
<1> QED BY <1>2, <1>3, <1>7

LEMMA LeaseFacts ==
  ASSUME NEW t, NEW frame, Bounded(t.table)
  PROVE  LET r == Lease(t, frame)
         IN  /\ Bounded(r.table)
             /\ \A o \in r.output : o.kind \in {"dhcp_message", "dhcp_address_reuse"}
<1> DEFINE r == Lease(t, frame)
           entry == [key |-> frame.key, client |-> frame.client]
           reuse == /\ frame.key \in Keys(t.table) /\ Entry(t.table, frame.key).client # frame.client
<1>1. /\ r.table = IF frame.ack THEN Put(t.table, entry) ELSE t.table
      /\ r.output = {[kind |-> "dhcp_message", key |-> frame.key]}
                    \union (IF frame.ack /\ reuse THEN {[kind |-> "dhcp_address_reuse", key |-> frame.key]}
                            ELSE {})
  BY DEF Lease, Tracker
<1> HIDE DEF r, entry, reuse
<1>2. Bounded(r.table)
  BY <1>1, PutFacts
<1>3. \A o \in r.output : o.kind \in {"dhcp_message", "dhcp_address_reuse"}
  BY <1>1
<1> QED BY <1>2, <1>3 DEF r

-----------------------------------------------------------------------------
(* What the observer's state says at any moment: frames and polls are      *)
(* applied no later than they may lag, and an entry is as new as anything  *)
(* heard of its neighbor, up to that lag.                                  *)
ObserverTypes ==
    /\ now \in 0 .. MaxTime /\ stopping \in BOOLEAN /\ failed \in BOOLEAN
    /\ service \in {"opening", "observing", "draining", "joining", "finishing", "over"}
    /\ run \in {"none", "running", "succeeded", "failed"}
    /\ poll \in [at : {"off", "ready", "polling", "waiting", "over"}, time : 0 .. now]
    /\ received \in 0 .. MaxFrames /\ faults \in 0 .. MaxFaults
    /\ queue \in Seq([frame : Frames, time : Nat]) /\ Len(queue) <= received

LagInv ==
    /\ poll.at = "polling" => now <= poll.time + MaxLag
    /\ \A i \in DOMAIN queue : queue[i].time <= now /\ now <= queue[i].time + MaxLag

BoundedInv == Bounded(neighbors) /\ Bounded(cache) /\ Bounded(leases)

HeardInv ==
    /\ \A k \in DOMAIN heard : heard[k] \in 0 .. now
    /\ \A e \in ToSet(neighbors) :
           /\ e.last \in 0 .. now /\ e.emitted \in 0 .. now
           /\ e.key \in DOMAIN heard /\ heard[e.key] <= e.last + MaxLag

ObserverInv ==
    ObserverTypes /\ LagInv /\ BoundedInv /\ HeardInv /\ ConflictsDisclosed /\ GoneOnlyIfSilent

LEMMA ElementsOf ==
  ASSUME NEW R, NEW s \in Seq(R)
  PROVE  /\ \A i \in DOMAIN s : s[i] \in R
         /\ s # <<>> => 1 \in DOMAIN s /\ Head(s) = s[1]
OBVIOUS

(* A step that tells the sink nothing keeps the tables sound.              *)
LEMMA NoFactsKeeps ==
  ASSUME ObserverInv, NoFacts, now' = now \/ now' = now + 1
  PROVE  BoundedInv' /\ HeardInv' /\ ConflictsDisclosed' /\ GoneOnlyIfSilent'
<1>1. /\ UNCHANGED << neighbors, cache, leases, heard, disclosed >> /\ out' = {}
      /\ now \in Nat /\ now' \in Nat /\ now <= now'
  BY DEF NoFacts, tables, ObserverInv, ObserverTypes
<1>2. BoundedInv'
  BY <1>1 DEF ObserverInv, BoundedInv, Bounded, Unique
<1>3. HeardInv'
  <2>1. \A x : x \in 0 .. now => x \in 0 .. now'
    BY <1>1
  <2> QED BY <1>1, <2>1 DEF ObserverInv, HeardInv
<1>4. ConflictsDisclosed'
  BY <1>1 DEF ObserverInv, ConflictsDisclosed, Keys
<1>5. GoneOnlyIfSilent'
  BY <1>1 DEF GoneOnlyIfSilent
<1> QED BY <1>2, <1>3, <1>4, <1>5

(* The actions of the service and of the signals.                          *)
LEMMA LifecycleKeeps ==
  ASSUME ObserverInv,
         Open \/ Signal \/ SeeStop \/ ReceiveFails \/ Drained \/ DrainTimeout \/ Joined \/ FinishRun
  PROVE  ObserverInv'
<1>1. NoFacts /\ now' = now /\ received' = received /\ (queue' = queue \/ queue' = <<>>)
  BY DEF Open, Signal, SeeStop, ReceiveFails, Drained, DrainTimeout, Joined, FinishRun
<1>2. poll' = poll \/ poll' = [poll EXCEPT !.at = "ready"]
  BY DEF Open, Signal, SeeStop, ReceiveFails, Drained, DrainTimeout, Joined, FinishRun
<1>3. faults' = faults \/ Fault
  BY DEF Open, Signal, SeeStop, ReceiveFails, Drained, DrainTimeout, Joined, FinishRun
<1>4. /\ poll' \in [at : {"off", "ready", "polling", "waiting", "over"}, time : 0 .. now]
      /\ poll'.at = "polling" => poll' = poll
  BY <1>2 DEF ObserverInv, ObserverTypes
<1>5. faults' \in 0 .. MaxFaults
  BY <1>3, ServiceAssumption DEF Fault, ObserverInv, ObserverTypes
<1>6. stopping' \in BOOLEAN /\ failed' \in BOOLEAN
  BY DEF Open, Signal, SeeStop, ReceiveFails, Drained, DrainTimeout, Joined, FinishRun,
         ObserverInv, ObserverTypes
<1>7. /\ service' \in {"opening", "observing", "draining", "joining", "finishing", "over"}
      /\ run' \in {"none", "running", "succeeded", "failed"}
  BY DEF Open, Signal, SeeStop, ReceiveFails, Drained, DrainTimeout, Joined, FinishRun,
         ObserverInv, ObserverTypes
<1>8. queue' \in Seq([frame : Frames, time : Nat]) /\ Len(queue') <= received'
  <2>1. received \in Nat /\ queue \in Seq([frame : Frames, time : Nat]) /\ Len(queue) <= received
    BY DEF ObserverInv, ObserverTypes
  <2>2. <<>> \in Seq([frame : Frames, time : Nat]) /\ Len(<<>>) = 0
    OBVIOUS
  <2>3. CASE queue' = <<>>
    BY <1>1, <2>1, <2>2, <2>3
  <2> QED BY <1>1, <2>1, <2>3
<1>9. ObserverTypes'
  BY <1>1, <1>4, <1>5, <1>6, <1>7, <1>8 DEF ObserverInv, ObserverTypes
<1>10. LagInv'
  BY <1>1, <1>4 DEF ObserverInv, LagInv
<1> QED BY <1>1, <1>9, <1>10, NoFactsKeeps DEF ObserverInv

LEMMA ReceiveKeeps ==
  ASSUME ObserverInv, Receive
  PROVE  ObserverInv'
<1>1. /\ NoFacts /\ now' = now /\ received' = received + 1 /\ received < MaxFrames
      /\ UNCHANGED << stopping, service, run, failed, poll, faults >>
  BY DEF Receive, lifecycle
<1>2. PICK f \in Frames : \/ queue' = queue
                          \/ queue' = Append(queue, [frame |-> f, time |-> now])
  BY DEF Receive
<1>3. now \in Nat /\ received \in Nat /\ queue \in Seq([frame : Frames, time : Nat]) /\ Len(queue) <= received
  BY DEF ObserverInv, ObserverTypes
<1>4. /\ queue' \in Seq([frame : Frames, time : Nat]) /\ Len(queue') <= received + 1
      /\ \A i \in DOMAIN queue' : (i \in DOMAIN queue /\ queue'[i] = queue[i]) \/ queue'[i].time = now
  <2>1. CASE queue' = queue
    BY <1>3, <2>1
  <2>2. CASE queue' = Append(queue, [frame |-> f, time |-> now])
    <3> DEFINE x == [frame |-> f, time |-> now]
    <3>1. x \in [frame : Frames, time : Nat] /\ x.time = now
      BY <1>3
    <3> HIDE DEF x
    <3>2. /\ queue' \in Seq([frame : Frames, time : Nat]) /\ Len(queue') = Len(queue) + 1
          /\ \A i \in DOMAIN queue' : (i \in DOMAIN queue /\ queue'[i] = queue[i]) \/ queue'[i] = x
      BY <1>3, <2>2, <3>1 DEF x
    <3> QED BY <1>3, <3>1, <3>2
  <2> QED BY <1>2, <2>1, <2>2
<1>5. ObserverTypes'
  <2>1. received' \in 0 .. MaxFrames
    BY <1>1, <1>3, ServiceAssumption
  <2> QED BY <1>1, <1>4, <2>1 DEF ObserverInv, ObserverTypes
<1>6. LagInv'
  <2>1. MaxLag \in Nat /\ now <= now + MaxLag
    BY <1>3, ServiceAssumption
  <2>2. \A i \in DOMAIN queue : queue[i].time <= now /\ now <= queue[i].time + MaxLag
    BY DEF ObserverInv, LagInv
  <2>3. \A i \in DOMAIN queue' : queue'[i].time <= now /\ now <= queue'[i].time + MaxLag
    <3> SUFFICES ASSUME NEW i \in DOMAIN queue'
                 PROVE  queue'[i].time <= now /\ now <= queue'[i].time + MaxLag
      OBVIOUS
    <3>1. CASE i \in DOMAIN queue /\ queue'[i] = queue[i]
      BY <2>2, <3>1
    <3>2. CASE queue'[i].time = now
      BY <1>3, <2>1, <3>2
    <3> QED BY <1>4, <3>1, <3>2
  <2>4. poll'.at = "polling" => now' <= poll'.time + MaxLag
    BY <1>1 DEF ObserverInv, LagInv
  <2> QED BY <1>1, <2>3, <2>4 DEF LagInv
<1> QED BY <1>1, <1>5, <1>6, NoFactsKeeps DEF ObserverInv

(* The maintenance task before and after a poll.                           *)
LEMMA PollStepsKeep ==
  ASSUME ObserverInv, BeginPoll \/ Wake
  PROVE  ObserverInv'
<1>1. /\ NoFacts /\ now' = now
      /\ UNCHANGED << stopping, service, run, failed, received, queue, faults >>
  BY DEF BeginPoll, Wake, lifecycle
<1>2. \/ poll' = [poll EXCEPT !.at = "over"]
      \/ poll' = [at |-> "polling", time |-> now]
      \/ poll' = [poll EXCEPT !.at = "ready"]
  BY DEF BeginPoll, Wake
<1>3. now \in Nat /\ MaxLag \in Nat
  BY ServiceAssumption DEF ObserverInv, ObserverTypes
<1>4. /\ poll' \in [at : {"off", "ready", "polling", "waiting", "over"}, time : 0 .. now]
      /\ poll'.at = "polling" => poll'.time = now
  BY <1>2, <1>3 DEF ObserverInv, ObserverTypes
<1>5. ObserverTypes'
  BY <1>1, <1>4 DEF ObserverInv, ObserverTypes
<1>6. LagInv'
  BY <1>1, <1>3, <1>4 DEF ObserverInv, LagInv
<1> QED BY <1>1, <1>5, <1>6, NoFactsKeeps DEF ObserverInv

(* The clock waits for the queue and for the command.                      *)
LEMMA TickKeeps ==
  ASSUME ObserverInv, Tick
  PROVE  ObserverInv'
<1>1. /\ NoFacts /\ now' = now + 1 /\ now < MaxTime
      /\ UNCHANGED << stopping, service, run, failed, received, queue, poll, faults >>
      /\ poll.at = "polling" => now < poll.time + MaxLag
      /\ \A i \in DOMAIN queue : now < queue[i].time + MaxLag
  BY DEF Tick, lifecycle
<1>2. now \in Nat /\ MaxLag \in Nat /\ MaxTime \in Nat /\ poll.time \in 0 .. now
  BY ServiceAssumption DEF ObserverInv, ObserverTypes
<1>3. \A i \in DOMAIN queue : queue[i].time \in Nat
  <2>1. queue \in Seq([frame : Frames, time : Nat])
    BY DEF ObserverInv, ObserverTypes
  <2>2. \A i \in DOMAIN queue : queue[i] \in [frame : Frames, time : Nat]
    BY <2>1, ElementsOf
  <2> QED BY <2>2
<1>4. ObserverTypes'
  <2>1. now' \in 0 .. MaxTime
    BY <1>1, <1>2
  <2>2. poll \in [at : {"off", "ready", "polling", "waiting", "over"}, time : 0 .. now']
    BY <1>1, <1>2 DEF ObserverInv, ObserverTypes
  <2> QED BY <1>1, <2>1, <2>2 DEF ObserverInv, ObserverTypes
<1>5. LagInv'
  <2>1. poll.at = "polling" => now + 1 <= poll.time + MaxLag
    BY <1>1, <1>2
  <2>2. \A i \in DOMAIN queue : queue[i].time <= now + 1 /\ now + 1 <= queue[i].time + MaxLag
    BY <1>1, <1>2, <1>3 DEF ObserverInv, LagInv
  <2> QED BY <1>1, <2>1, <2>2 DEF LagInv
<1> QED BY <1>1, <1>4, <1>5, NoFactsKeeps DEF ObserverInv

-----------------------------------------------------------------------------
(* What was heard, after some keys at one time.                            *)
LEMMA HearFacts ==
  ASSUME NEW keys, NEW time \in 0 .. now, now \in Nat, Hear(keys, time),
         \A k \in DOMAIN heard : heard[k] \in 0 .. now
  PROVE  /\ DOMAIN heard' = DOMAIN heard \union keys
         /\ \A k \in DOMAIN heard' : heard'[k] \in 0 .. now
         /\ \A k \in DOMAIN heard : k \notin keys => heard'[k] = heard[k]
<1>1. heard' = [k \in DOMAIN heard \cup keys |->
                 IF k \notin DOMAIN heard THEN time
                 ELSE IF k \in keys THEN Later(heard[k], time) ELSE heard[k]]
  BY DEF Hear
<1>2. \A k \in DOMAIN heard : Later(heard[k], time) \in 0 .. now
  BY DEF Later
<1> QED BY <1>1, <1>2

(* The neighbors after evidence for some keys at one time, from which      *)
(* entries may have been taken away.                                       *)
LEMMA NeighborsKeep ==
  ASSUME ObserverInv, now' = now, NEW t, NEW keys, NEW time \in 0 .. now, now <= time + MaxLag,
         Shows(t, keys, time), Bounded(neighbors'), ToSet(neighbors') \subseteq ToSet(t.table),
         Hear(keys, time), disclosed \subseteq disclosed',
         \A k, l : Named(t.output, k, l) => {k, l} \in disclosed'
  PROVE  HeardInv' /\ ConflictsDisclosed'
<1>1. now \in Nat /\ MaxLag \in Nat
  BY ServiceAssumption DEF ObserverInv, ObserverTypes
<1>2. /\ DOMAIN heard' = DOMAIN heard \union keys
      /\ \A k \in DOMAIN heard' : heard'[k] \in 0 .. now
      /\ \A k \in DOMAIN heard : k \notin keys => heard'[k] = heard[k]
  BY <1>1, HearFacts DEF ObserverInv, HeardInv
<1>3. ASSUME NEW e \in ToSet(neighbors')
      PROVE  /\ e.last \in 0 .. now /\ e.emitted \in 0 .. now
             /\ e.key \in DOMAIN heard' /\ heard'[e.key] <= e.last + MaxLag
  <2>1. CASE e \in ToSet(neighbors) /\ e.key \notin keys
    BY <1>2, <2>1 DEF ObserverInv, HeardInv
  <2>2. CASE e.key \in keys /\ e.last = time /\ e.emitted \in 0 .. now
    <3>1. e.key \in DOMAIN heard' /\ heard'[e.key] \in 0 .. now
      BY <1>2, <2>2
    <3> QED BY <1>1, <2>2, <3>1
  <2> QED BY <2>1, <2>2 DEF Shows
<1>4. HeardInv'
  BY <1>2, <1>3 DEF HeardInv
<1>5. ConflictsDisclosed'
  <2>1. Keys(neighbors') \subseteq Keys(t.table)
    BY KeysOfEntries
  <2>2. \A k, l \in Keys(neighbors') : Conflicting(k, l) => {k, l} \in disclosed'
    BY <2>1 DEF Shows
  <2> QED BY <2>2 DEF ConflictsDisclosed, Keys
<1> QED BY <1>4, <1>5

(* The tracker as a step finds it.                                         *)
LEMMA TrackerShows ==
  ASSUME ObserverInv, NEW time
  PROVE  Shows(Tracker(neighbors, {}), {}, time) /\ \A e \in ToSet(neighbors) : e.emitted \in 0 .. now
<1>1. Tracker(neighbors, {}).table = neighbors /\ Tracker(neighbors, {}).output = {}
  BY DEF Tracker
<1> QED BY <1>1 DEF ObserverInv, BoundedInv, HeardInv, ConflictsDisclosed, Shows

LEMMA DiscloseFacts ==
  ASSUME NEW output, Disclose(output)
  PROVE  /\ out' = output /\ disclosed \subseteq disclosed'
         /\ \A k, l : Named(output, k, l) => {k, l} \in disclosed'
BY DEF Disclose, Named

(* A step that leaves the neighbors alone and declares none gone.          *)
LEMMA OthersKeep ==
  ASSUME ObserverInv, now' = now, UNCHANGED << neighbors, heard >>, NEW output, Disclose(output),
         \A o \in output : o.kind # "neighbor_expired"
  PROVE  HeardInv' /\ ConflictsDisclosed' /\ GoneOnlyIfSilent'
<1>1. out' = output /\ disclosed \subseteq disclosed'
  BY DiscloseFacts
<1>2. HeardInv'
  BY DEF ObserverInv, HeardInv
<1>3. ConflictsDisclosed'
  BY <1>1 DEF ObserverInv, ConflictsDisclosed, Keys
<1>4. GoneOnlyIfSilent'
  BY <1>1 DEF GoneOnlyIfSilent
<1> QED BY <1>2, <1>3, <1>4

LEMMA HandleArpKeeps ==
  ASSUME ObserverInv, now' = now, NEW frame, NEW time \in 0 .. now, now <= time + MaxLag,
         HandleArp(frame, time)
  PROVE  BoundedInv' /\ HeardInv' /\ ConflictsDisclosed' /\ GoneOnlyIfSilent'
<1> DEFINE next == Observe(Tracker(neighbors, {}), frame.key, time)
<1>1. /\ neighbors' = next.table /\ Disclose(next.output) /\ Hear({frame.key}, time)
      /\ UNCHANGED << cache, leases >>
  BY DEF HandleArp
<1>2. Shows(next, {frame.key}, time)
  <2>1. now \in Nat
    BY DEF ObserverInv, ObserverTypes
  <2>2. Shows(next, {} \union {frame.key}, time)
    BY <2>1, TrackerShows, ObserveKeeps
  <2>3. {} \union {frame.key} = {frame.key}
    OBVIOUS
  <2> HIDE DEF next
  <2> QED BY <2>2, <2>3
<1> HIDE DEF next
<1>3. Bounded(neighbors') /\ ToSet(neighbors') = ToSet(next.table)
  BY <1>1, <1>2 DEF Shows
<1>4. /\ out' = next.output /\ disclosed \subseteq disclosed'
      /\ \A k, l : Named(next.output, k, l) => {k, l} \in disclosed'
  BY <1>1, DiscloseFacts
<1>5. HeardInv' /\ ConflictsDisclosed'
  BY <1>1, <1>2, <1>3, <1>4, NeighborsKeep
<1>6. GoneOnlyIfSilent'
  BY <1>2, <1>4 DEF GoneOnlyIfSilent, Shows
<1>7. BoundedInv'
  BY <1>1, <1>3 DEF ObserverInv, BoundedInv
<1> QED BY <1>5, <1>6, <1>7

LEMMA HandleMdnsKeeps ==
  ASSUME ObserverInv, now' = now, NEW frame \in Frames, frame.protocol = "mdns", NEW time,
         HandleMdns(frame, time) \/ HandleMalformedMdns(time)
  PROVE  BoundedInv' /\ HeardInv' /\ ConflictsDisclosed' /\ GoneOnlyIfSilent'
<1> DEFINE aged == ExpireCache(Tracker(cache, {}), time)
           next == RecordAll(aged, frame.records, time)
<1>1. Caches(aged)
  <2>1. Caches(Tracker(cache, {}))
    BY DEF Tracker, Caches, ObserverInv, BoundedInv
  <2> QED BY <2>1, ExpireCacheKeeps
<1>2. Caches(next)
  <2> HIDE DEF aged
  <2> QED BY <1>1, ServiceAssumption, RecordAllKeeps
<1>3. PICK output : /\ Disclose(output) /\ Bounded(cache') /\ UNCHANGED << neighbors, leases, heard >>
                    /\ \A o \in output : o.kind # "neighbor_expired"
  <2>1. CASE HandleMdns(frame, time)
    <3>1. cache' = next.table /\ Disclose(next.output) /\ UNCHANGED << neighbors, leases, heard >>
      BY <2>1 DEF HandleMdns
    <3> HIDE DEF next
    <3> QED BY <1>2, <3>1 DEF Caches
  <2>2. CASE HandleMalformedMdns(time)
    <3>1. cache' = aged.table /\ Disclose({}) /\ UNCHANGED << neighbors, leases, heard >>
      BY <2>2 DEF HandleMalformedMdns
    <3> HIDE DEF aged
    <3> QED BY <1>1, <3>1 DEF Caches
  <2> QED BY <2>1, <2>2
<1>4. BoundedInv'
  BY <1>3 DEF ObserverInv, BoundedInv
<1> QED BY <1>3, <1>4, OthersKeep

LEMMA HandleDhcpKeeps ==
  ASSUME ObserverInv, now' = now, NEW frame, HandleDhcp(frame)
  PROVE  BoundedInv' /\ HeardInv' /\ ConflictsDisclosed' /\ GoneOnlyIfSilent'
<1> DEFINE next == Lease(Tracker(leases, {}), frame)
<1>1. leases' = next.table /\ Disclose(next.output) /\ UNCHANGED << neighbors, cache, heard >>
  BY DEF HandleDhcp
<1>2. Bounded(next.table) /\ \A o \in next.output : o.kind \in {"dhcp_message", "dhcp_address_reuse"}
  <2>1. Bounded(Tracker(leases, {}).table)
    BY DEF Tracker, ObserverInv, BoundedInv
  <2> QED BY <2>1, LeaseFacts
<1> HIDE DEF next
<1>3. BoundedInv'
  BY <1>1, <1>2 DEF ObserverInv, BoundedInv
<1>4. \A o \in next.output : o.kind # "neighbor_expired"
  BY <1>2
<1> QED BY <1>1, <1>3, <1>4, OthersKeep

LEMMA HandleLinkKeeps ==
  ASSUME ObserverInv, now' = now, NEW output, HandleLink(output),
         \A o \in output : o.kind # "neighbor_expired"
  PROVE  BoundedInv' /\ HeardInv' /\ ConflictsDisclosed' /\ GoneOnlyIfSilent'
<1>1. Disclose(output) /\ UNCHANGED << neighbors, cache, leases, heard >>
  BY DEF HandleLink
<1>2. BoundedInv'
  BY <1>1 DEF ObserverInv, BoundedInv
<1> QED BY <1>1, <1>2, OthersKeep

LEMMA HandleFrameKeeps ==
  ASSUME ObserverInv, HandleFrame
  PROVE  ObserverInv'
<1> DEFINE f == Head(queue).frame
           time == Head(queue).time
<1>1. /\ queue # <<>> /\ queue' = Tail(queue)
      /\ UNCHANGED << now, stopping, service, run, failed, received, poll, faults >>
      /\ \/ f.protocol = "arp" /\ HandleArp(f, time)
         \/ f.protocol = "mdns" /\ (HandleMdns(f, time) \/ HandleMalformedMdns(time))
         \/ f.protocol = "dhcp" /\ HandleDhcp(f)
         \/ f.protocol = "lldp" /\ HandleLink({[kind |-> "lldp", key |-> f.key]})
         \/ f.protocol # "mdns" /\ HandleLink({})
  BY DEF HandleFrame, lifecycle
<1>2. /\ queue \in Seq([frame : Frames, time : Nat]) /\ Len(queue) <= received /\ received \in Nat
      /\ now \in Nat /\ Len(queue) \in Nat
      /\ \A i \in DOMAIN queue : queue[i].time <= now /\ now <= queue[i].time + MaxLag
  BY DEF ObserverInv, ObserverTypes, LagInv
<1>3. f \in Frames /\ time \in 0 .. now /\ now <= time + MaxLag
  <2>1. 1 \in DOMAIN queue /\ Head(queue) = queue[1] /\ queue[1] \in [frame : Frames, time : Nat]
    BY <1>1, <1>2, ElementsOf
  <2> QED BY <1>2, <2>1
<1>4. /\ queue' \in Seq([frame : Frames, time : Nat]) /\ Len(queue') <= received
      /\ \A i \in DOMAIN queue' : i + 1 \in DOMAIN queue /\ queue'[i] = queue[i + 1]
  BY <1>1, <1>2
<1>5. ObserverTypes'
  BY <1>1, <1>4 DEF ObserverInv, ObserverTypes
<1>6. LagInv'
  BY <1>1, <1>2, <1>4 DEF ObserverInv, LagInv
<1>7. BoundedInv' /\ HeardInv' /\ ConflictsDisclosed' /\ GoneOnlyIfSilent'
  <2> HIDE DEF f, time
  <2>1. CASE HandleArp(f, time)
    BY <1>1, <1>3, <2>1, HandleArpKeeps
  <2>2. CASE f.protocol = "mdns" /\ (HandleMdns(f, time) \/ HandleMalformedMdns(time))
    BY <1>1, <1>3, <2>2, HandleMdnsKeeps
  <2>3. CASE HandleDhcp(f)
    BY <1>1, <2>3, HandleDhcpKeeps
  <2>4. CASE HandleLink({[kind |-> "lldp", key |-> f.key]})
    BY <1>1, <2>4, HandleLinkKeeps
  <2>5. CASE HandleLink({})
    BY <1>1, <2>5, HandleLinkKeeps
  <2> QED BY <1>1, <2>1, <2>2, <2>3, <2>4, <2>5
<1> QED BY <1>5, <1>6, <1>7 DEF ObserverInv

(* The command has answered with what the kernel knows, at the time it was *)
(* asked, and both tables are aged.                                        *)
LEMMA EndPollKeeps ==
  ASSUME ObserverInv, EndPoll
  PROVE  ObserverInv'
<1>1. /\ poll.at = "polling" /\ poll' = [poll EXCEPT !.at = "waiting"]
      /\ UNCHANGED << now, stopping, service, run, failed, received, queue, leases, faults >>
  BY DEF EndPoll, lifecycle
<1> DEFINE time == poll.time
           shown(keys) == ObserveAll(Tracker(neighbors, {}), keys, time)
           aged(keys) == ExpireNeighbors(shown(keys), time)
           clean == ExpireCache(Tracker(cache, {}), time)
<1>2. PICK keys \in KernelTables \union {<<>>} :
          /\ neighbors' = aged(keys).table /\ cache' = clean.table
          /\ Disclose(aged(keys).output \union clean.output) /\ Hear(ToSet(keys), time)
  BY DEF EndPoll
<1>3. keys \in Seq(ToSet(keys))
  <2>1. <<>> \in Seq(ToSet(<<>>))
    OBVIOUS
  <2> QED BY <2>1, ServiceAssumption
<1>4. /\ now \in Nat /\ time \in 0 .. now /\ now <= time + MaxLag /\ MaxLag \in Nat
      /\ MaxAge \in Nat \ {0}
  BY <1>1, ServiceAssumption DEF ObserverInv, ObserverTypes, LagInv
<1> DEFINE S == shown(keys)
           A == aged(keys)
<1>5. Shows(S, ToSet(keys), time)
  BY <1>3, <1>4, TrackerShows, ObserveAllKeeps
<1>6. /\ Bounded(A.table) /\ ToSet(A.table) \subseteq ToSet(S.table) /\ S.output \subseteq A.output
      /\ \A o \in A.output \ S.output :
             /\ o.kind = "neighbor_expired"
             /\ \E e \in ToSet(S.table) : e.key = o.key /\ e.last + MaxAge <= time
  BY <1>5, ExpireNeighborsFacts DEF Shows
<1>7. Caches(clean)
  <2>1. Caches(Tracker(cache, {}))
    BY DEF Tracker, Caches, ObserverInv, BoundedInv
  <2> QED BY <2>1, ExpireCacheKeeps
<1>8. neighbors' = A.table /\ cache' = clean.table /\ Disclose(A.output \union clean.output)
  BY <1>2
<1> HIDE DEF S, A, clean, time
<1>9. BoundedInv'
  BY <1>1, <1>6, <1>7, <1>8 DEF Caches, ObserverInv, BoundedInv
<1>10. /\ out' = A.output \union clean.output /\ disclosed \subseteq disclosed'
       /\ \A k, l : Named(A.output \union clean.output, k, l) => {k, l} \in disclosed'
  BY <1>8, DiscloseFacts
<1>11. \A k, l : Named(S.output, k, l) => {k, l} \in disclosed'
  <2>1. \A k, l : Named(S.output, k, l) => Named(A.output \union clean.output, k, l)
    BY <1>6 DEF Named
  <2> QED BY <1>10, <2>1
<1>12. HeardInv' /\ ConflictsDisclosed'
  <2>1. ToSet(neighbors') \subseteq ToSet(S.table) /\ Bounded(neighbors') /\ now' = now
    BY <1>1, <1>6, <1>8
  <2> QED BY <1>2, <1>4, <1>5, <1>10, <1>11, <2>1, NeighborsKeep
<1>13. GoneOnlyIfSilent'
  <2> SUFFICES ASSUME NEW o \in out', o.kind = "neighbor_expired"
               PROVE  heard'[o.key] + MaxAge <= now + MaxLag
    BY <1>1 DEF GoneOnlyIfSilent
  <2>1. o \in A.output \ S.output
    BY <1>5, <1>7, <1>10 DEF Shows, Caches
  <2>2. PICK e \in ToSet(S.table) : e.key = o.key /\ e.last + MaxAge <= time
    BY <1>6, <2>1
  <2>3. e \in ToSet(neighbors) /\ e.key \notin ToSet(keys)
    <3>1. e.last # time
      BY <1>4, <2>2
    <3> QED BY <1>5, <3>1 DEF Shows
  <2>4. /\ e.key \in DOMAIN heard /\ heard[e.key] \in 0 .. now /\ e.last \in 0 .. now
        /\ heard[e.key] <= e.last + MaxLag
    BY <2>3 DEF ObserverInv, HeardInv
  <2>5. heard'[e.key] = heard[e.key]
    BY <1>2, <1>4, <2>3, <2>4, HearFacts DEF ObserverInv, HeardInv
  <2>6. heard[e.key] + MaxAge <= now + MaxLag
    BY <1>4, <2>2, <2>4
  <2> QED BY <2>2, <2>5, <2>6
<1>14. ObserverTypes'
  <2>1. poll' \in [at : {"off", "ready", "polling", "waiting", "over"}, time : 0 .. now]
    BY <1>1 DEF ObserverInv, ObserverTypes
  <2> QED BY <1>1, <2>1 DEF ObserverInv, ObserverTypes
<1>15. LagInv'
  <2>1. poll'.at # "polling"
    BY <1>1 DEF ObserverInv, ObserverTypes
  <2> QED BY <1>1, <2>1 DEF ObserverInv, LagInv
<1> QED BY <1>9, <1>12, <1>13, <1>14, <1>15 DEF ObserverInv

-----------------------------------------------------------------------------
(* The invariant of the observer, for any frames, kernel tables, bounds    *)
(* and clock.                                                              *)
THEOREM ObserverInvariant == Spec => []ObserverInv
<1>1. Init => ObserverInv
  <2> SUFFICES ASSUME Init PROVE ObserverInv
    OBVIOUS
  <2>1. /\ now = 0 /\ stopping = FALSE /\ service = "opening" /\ run = "none" /\ failed = FALSE
        /\ received = 0 /\ queue = <<>> /\ poll = [at |-> "off", time |-> 0]
        /\ neighbors = <<>> /\ cache = <<>> /\ leases = <<>>
        /\ out = {} /\ heard = <<>> /\ faults = 0
    BY DEF Init
  <2>2. ObserverTypes
    <3>1. queue \in Seq([frame : Frames, time : Nat]) /\ Len(queue) = 0
      BY <2>1
    <3>2. 0 \in 0 .. 0 /\ 0 \in 0 .. MaxTime /\ 0 \in 0 .. MaxFrames /\ 0 \in 0 .. MaxFaults
      BY ServiceAssumption
    <3>3. poll \in [at : {"off", "ready", "polling", "waiting", "over"}, time : 0 .. now]
      BY <2>1, <3>2
    <3>4. now \in 0 .. MaxTime /\ received \in 0 .. MaxFrames /\ faults \in 0 .. MaxFaults /\ Len(queue) <= received
      BY <2>1, <3>1, <3>2
    <3>5. /\ stopping \in BOOLEAN /\ failed \in BOOLEAN
          /\ service \in {"opening", "observing", "draining", "joining", "finishing", "over"}
          /\ run \in {"none", "running", "succeeded", "failed"}
      BY <2>1
    <3> QED BY <3>1, <3>3, <3>4, <3>5 DEF ObserverTypes
  <2>3. LagInv
    BY <2>1 DEF LagInv
  <2>4. Bounded(<<>>) /\ ToSet(<<>>) = {} /\ Keys(<<>>) = {}
    <3>1. <<>> \in Seq({}) /\ Len(<<>>) = 0
      OBVIOUS
    <3> QED BY <3>1, ServiceAssumption DEF Bounded, Unique, ToSet, Keys
  <2>5. BoundedInv /\ HeardInv /\ ConflictsDisclosed /\ GoneOnlyIfSilent
    BY <2>1, <2>4 DEF BoundedInv, HeardInv, ConflictsDisclosed, GoneOnlyIfSilent
  <2> QED BY <2>2, <2>3, <2>5 DEF ObserverInv
<1>2. ObserverInv /\ [Next]_vars => ObserverInv'
  <2> SUFFICES ASSUME ObserverInv, [Next]_vars PROVE ObserverInv'
    OBVIOUS
  <2>1. CASE UNCHANGED vars
    <3>1. UNCHANGED << now, stopping, service, run, failed, received, queue, neighbors, cache, leases,
                       heard, disclosed, out, poll, faults >>
      BY <2>1 DEF vars, lifecycle, tables
    <3>2. ObserverTypes' /\ LagInv'
      BY <3>1 DEF ObserverInv, ObserverTypes, LagInv
    <3>3. BoundedInv' /\ HeardInv'
      BY <3>1 DEF ObserverInv, BoundedInv, HeardInv
    <3>4. ConflictsDisclosed' /\ GoneOnlyIfSilent'
      BY <3>1 DEF ObserverInv, ConflictsDisclosed, GoneOnlyIfSilent
    <3> QED BY <3>2, <3>3, <3>4 DEF ObserverInv
  <2>2. CASE Service \/ Signal \/ ReceiveFails \/ DrainTimeout
    BY <2>2, LifecycleKeeps DEF Service
  <2>3. CASE Receive
    BY <2>3, ReceiveKeeps
  <2>4. CASE HandleFrame
    BY <2>4, HandleFrameKeeps
  <2>5. CASE Maintenance
    BY <2>5, PollStepsKeep, EndPollKeeps DEF Maintenance
  <2>6. CASE Tick
    BY <2>6, TickKeeps
  <2> QED BY <2>1, <2>2, <2>3, <2>4, <2>5, <2>6 DEF Next
<1> QED BY <1>1, <1>2, PTL DEF Spec

(* The tables of the trackers keep their bounds and keys, nothing in them  *)
(* is from the future, and two tracked neighbors that share an address or  *)
(* a MAC were named in a conflict (NeighborTracker.observe).               *)
THEOREM TablesAreSound == Spec => []TablesSound
<1>1. ObserverInv => TablesSound
  <2> SUFFICES ASSUME ObserverInv PROVE TypeOK /\ ConflictsDisclosed
    BY DEF TablesSound
  <2>1. \A table \in {neighbors, cache, leases} :
            Len(table) <= MaxEntries /\ Len(table) = Cardinality(Keys(table))
    BY KeyCount DEF ObserverInv, BoundedInv, Bounded
  <2>2. \A i \in DOMAIN neighbors : neighbors[i].last \in 0 .. now /\ neighbors[i].emitted \in 0 .. now
    BY DEF ObserverInv, HeardInv, ToSet
  <2> QED BY <2>1, <2>2 DEF TypeOK, ObserverInv, ObserverTypes
<1> QED BY <1>1, ObserverInvariant, PTL

(* A neighbor is declared gone only after its age in silence, up to the    *)
(* time a poll takes or a frame waits (NeighborTracker.expire).            *)
THEOREM GoneIsSilent == Spec => []GoneOnlyIfSilent
<1>1. ObserverInv => GoneOnlyIfSilent
  BY DEF ObserverInv
<1> QED BY <1>1, ObserverInvariant, PTL
=============================================================================
