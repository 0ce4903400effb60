---------------------------- MODULE Correlation ----------------------------
(***************************************************************************)
(* The correlation of device observations (correlation.py).  correlate()   *)
(* joins the observations of one batch that claim the same stable          *)
(* identifier (a MAC address, a serial number, a scoped source ID) with    *)
(* enough confidence, by union-find with path halving; one iteration of    *)
(* find is one step here.  Host names and IPv4 addresses never join.       *)
(*                                                                         *)
(* Identifiers are natural numbers in the order of their typed keys, and   *)
(* observations natural numbers in the order of their IDs, because the     *)
(* code sorts by both.  Confidence is in percent.                          *)
(***************************************************************************)
EXTENDS Integers, FiniteSets, FiniteSetsExt

CONSTANTS
    Batches,    \* the batches correlate() may be given
    StableKeys, \* the keys of MAC addresses, serial numbers and source IDs
    Serials     \* those of serial numbers

ASSUME KeysAssumption == StableKeys \subseteq Nat /\ Serials \subseteq StableKeys

ASSUME BatchesAssumption ==
    \A batch \in Batches :
        /\ IsFiniteSet(DOMAIN batch) /\ DOMAIN batch \subseteq Nat
        /\ \A o \in DOMAIN batch : \A e \in batch[o].identifiers \union batch[o].interfaces :
               e.confidence \in Nat

(* The confidence from which an identifier is merge evidence: 0.8.         *)
Threshold == 80

VARIABLES
    obs,        \* the batch: identifiers, interfaces, facts of each observation
    parent,     \* the union-find forest
    pending,    \* the claims still to be compared with their key's first one
    at,         \* the find() that is running, or "group", "done"
    item,       \* the variable of find()
    root,       \* the result of the find() before it
    decisions,
    devices,
    conflicts

correlationVars == << obs, parent, pending, at, item, root, decisions, devices, conflicts >>

Ids == DOMAIN obs

-----------------------------------------------------------------------------
(* _all_identifiers: the identifiers of the subject and the MAC addresses  *)
(* of its interfaces, each a [key, confidence].                            *)
AllIdentifiers(o) == obs[o].identifiers \union obs[o].interfaces

Identifiers(members) == UNION { AllIdentifiers(o) : o \in members }

Stable(evidence) == evidence.key \in StableKeys

(* stable_index: every claim with the confidence to join, as a sortable    *)
(* triple.                                                                 *)
StableIndex == UNION { { << e.key, o, e.confidence >> :
                             e \in { d \in AllIdentifiers(o) :
                                         Stable(d) /\ d.confidence >= Threshold } } : o \in Ids }

Before(c, d) == \/ c[1] < d[1]
                \/ c[1] = d[1] /\ c[2] < d[2]
                \/ c[1] = d[1] /\ c[2] = d[2] /\ c[3] < d[3]

Earliest(claims) == CHOOSE c \in claims : \A d \in claims \ {c} : Before(c, d)

(* claims[0] of the list a claim stands in.                                *)
FirstClaim(c) == Earliest({ d \in StableIndex : d[1] = c[1] })

(* The pair the loop body is comparing.                                    *)
Other == Earliest(pending)
First == FirstClaim(Other)

CorrelateStart(batch) ==
    /\ obs = batch
    /\ parent = [o \in Ids |-> o]
    /\ pending = { c \in StableIndex : c # FirstClaim(c) }
    /\ at = IF pending = {} THEN "group" ELSE "find_first"
    /\ item = IF pending = {} THEN 0 ELSE First[2]
    /\ root = 0
    /\ decisions = {}
    /\ devices = {}
    /\ conflicts = {}

CorrelateInit == \E batch \in Batches : CorrelateStart(batch)

-----------------------------------------------------------------------------
(* One iteration of find's loop: halve the path and move up.               *)
FindStep ==
    /\ at \in {"find_first", "find_other", "union_left", "union_right"}
    /\ parent[item] # item
    /\ parent' = [parent EXCEPT ![item] = parent[parent[item]]]
    /\ item' = parent[parent[item]]
    /\ UNCHANGED << obs, pending, at, root, decisions, devices, conflicts >>

Returns(call) == at = call /\ parent[item] = item

(* The next claim of the loop, if there is one.                            *)
NextClaim ==
    /\ pending' = pending \ {Other}
    /\ at' = IF pending' = {} THEN "group" ELSE "find_first"
    /\ item' = IF pending' = {} THEN 0 ELSE FirstClaim(Earliest(pending'))[2]
    /\ root' = 0

FirstFound ==
    /\ Returns("find_first")
    /\ root' = item
    /\ item' = Other[2]
    /\ at' = "find_other"
    /\ UNCHANGED << obs, parent, pending, decisions, devices, conflicts >>

(* Joined already: no decision is recorded.                                *)
AlreadyJoined ==
    /\ Returns("find_other")
    /\ root = item
    /\ NextClaim
    /\ UNCHANGED << obs, parent, decisions, devices, conflicts >>

Decide ==
    /\ Returns("find_other")
    /\ root # item
    /\ decisions' = decisions \union
           {[left |-> First[2], right |-> Other[2], key |-> Other[1],
             confidence |-> Min({First[3], Other[3]})]}
    /\ item' = First[2]
    /\ at' = "union_left"
    /\ UNCHANGED << obs, parent, pending, root, devices, conflicts >>

LeftFound ==
    /\ Returns("union_left")
    /\ root' = item
    /\ item' = Other[2]
    /\ at' = "union_right"
    /\ UNCHANGED << obs, parent, pending, decisions, devices, conflicts >>

(* union: the smaller of the two roots becomes the parent of the other.    *)
Union_members ==
    /\ Returns("union_right")
    /\ parent' = [parent EXCEPT ![Max({First[2], Other[2]})] = Min({First[2], Other[2]})]
    /\ NextClaim
    /\ UNCHANGED << obs, decisions, devices, conflicts >>

Union ==
    /\ Returns("union_right")
    /\ parent' = [parent EXCEPT ![Max({root, item})] = Min({root, item})]
    /\ NextClaim
    /\ UNCHANGED << obs, decisions, devices, conflicts >>

-----------------------------------------------------------------------------
(* _canonical_key: the least stable, confident identifier of the members,  *)
(* or the first member's ID where there is none.                           *)
CanonicalKey(members) ==
    LET stable == { c[1] : c \in { d \in StableIndex : d[2] \in members } }
    IN  IF stable # {} THEN << "identifier", Min(stable) >>
                       ELSE << "observation", Min(members) >>

(* The joins that explain a device, and the confidence it is given.        *)
Joins(members) == { d \in decisions : d.left \in members /\ d.right \in members }

Confidence(members) ==
    LET stable == { e.confidence : e \in
                      { d \in Identifiers(members) : Stable(d) } }
    IN  IF Joins(members) # {} THEN Min({ d.confidence : d \in Joins(members) })
        ELSE IF stable # {} THEN Max(stable)
        ELSE 50

(* _find_conflicts: a host name or address on two devices, two serial      *)
(* numbers on one, and a fact on which two sources disagree.               *)
FindConflicts(devs) ==
    LET Reused == { k \in { e.key : e \in Identifiers(Ids) } \ StableKeys :
                      Cardinality({ d \in devs : \E e \in Identifiers(d.members) : e.key = k }) > 1 }
        SerialsOf(d) == { e.key : e \in Identifiers(d.members) } \intersect Serials
        FactsOf(d, f) == { x \in UNION { obs[o].facts : o \in d.members } : x.field = f }
        Fields(d) == { x.field : x \in UNION { obs[o].facts : o \in d.members } }
    IN  { << "reused", k >> : k \in Reused }
        \union { << "conflicting_serial", d.key >> : d \in
                   { x \in devs : Cardinality(SerialsOf(x)) > 1 } }
        \union UNION { { << "source_disagreement", d.key, f >> : f \in
                   { g \in Fields(d) : /\ Cardinality({ x.value : x \in FactsOf(d, g) }) > 1
                                       /\ Cardinality({ x.source : x \in FactsOf(d, g) }) > 1 } }
                 : d \in devs }

(* What find returns for each observation, and the groups it makes.        *)
Root[o \in Ids] == IF parent[o] = o THEN o ELSE Root[parent[o]]

Groups == { { o \in Ids : Root[o] = r } : r \in { Root[o] : o \in Ids } }

(* The end of correlate: one canonical device for each root of the forest. *)
Group ==
    /\ at = "group"
    /\ devices' = { [key |-> CanonicalKey(g), members |-> g,
                     confidence |-> Confidence(g)] : g \in Groups }
    /\ conflicts' = FindConflicts(devices')
    /\ at' = "done"
    /\ UNCHANGED << obs, parent, pending, item, root, decisions >>

CorrelateNext ==
    \/ FindStep \/ FirstFound \/ AlreadyJoined \/ Decide \/ LeftFound \/ Union \/ Group

CorrelateSpec == CorrelateInit /\ [][CorrelateNext]_correlationVars

-----------------------------------------------------------------------------
(* A set of observations no strong claim leads out of.                     *)
Closed(S) == \A c, d \in StableIndex : c[1] = d[1] /\ c[2] \in S => d[2] \in S

(* The forest never leaves a closed set: whatever the order of the claims  *)
(* and the halving of the paths, two observations are joined only through  *)
(* a chain of stable identifiers they share.  With it, at the end, any two *)
(* that share one are on the same device: the devices are the connected    *)
(* components.  (find and union in correlate.)                             *)
GroupsAreComponents ==
    /\ \A S \in SUBSET Ids : Closed(S) => \A o \in Ids : o \in S <=> parent[o] \in S
    /\ at = "done" =>
           /\ \A o \in Ids : \E d \in devices : o \in d.members
           /\ \A d \in devices : Closed(d.members)

(* Two canonical devices of a batch never have the same key, by which the  *)
(* importers merge them into one row of the devices table; the key is      *)
(* taken from evidence that could join, so it stays with one group; and a  *)
(* device of n observations is explained by exactly n - 1 decisions, none  *)
(* with less confidence than the threshold.                                *)
KeysIdentify ==
    /\ \A d, e \in devices : d.key = e.key => d = e
    /\ \A d \in devices :
           /\ Cardinality(Joins(d.members)) = Cardinality(d.members) - 1
           /\ Cardinality(d.members) > 1 => d.confidence >= Threshold

(* What correlate() promises its importers: the devices are the components *)
(* of the shared stable evidence, each under a key of its own, explained   *)
(* by decisions that hold it together.                                     *)
DevicesSound == GroupsAreComponents /\ KeysIdentify
=============================================================================
