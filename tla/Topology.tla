------------------------------ MODULE Topology ------------------------------
(***************************************************************************)
(* The topology builder (topology.py).  build_topology filters dated       *)
(* evidence against a snapshot time and accumulates nodes, edges and       *)
(* conflicts: first the subnets, then the VLANs, then the observations of  *)
(* the passive parsers.  Within a stage the builder here takes the         *)
(* evidence in any order, so what is shown does not rest on the caller's   *)
(* order or on the code's sorting.                                         *)
(*                                                                         *)
(* A subnet is the set of its addresses: a longer prefix is a smaller set. *)
(* Labels, identifiers of the diagram and its layout are left out.         *)
(***************************************************************************)
EXTENDS Integers, FiniteSets, Sequences, FiniteSetsExt

CONSTANTS
    Scenes,  \* the sets of evidence build_topology may be given
    AsOf,    \* the snapshot time
    Never,   \* the deadline of evidence that does not expire
    Absent   \* a field the observation does not have

ASSUME TimeAssumption == AsOf \in Nat /\ Never \in Nat /\ Never > AsOf

ASSUME ScenesAssumption ==
    \A items \in Scenes :
        /\ IsFiniteSet(items)
        /\ \A e \in items : /\ e.from \in Nat /\ e.until \in Nat
                            /\ e.kind \in {"subnet", "vlan"} => e.confidence \in Nat

VARIABLES
    evidence,  \* the arguments: subnets, vlans and observations
    left,      \* those not taken yet
    subnets,   \* subnet_items, in the order taken
    nodes,
    edges,
    claims,    \* vlan_claims: << device, VLAN >>
    notes,     \* the conflicts
    excluded   \* excluded_expired and excluded_future

topologyVars == << evidence, left, subnets, nodes, edges, claims, notes, excluded >>

Local == << "device", "local" >>

TopologyStart(items) ==
    /\ evidence = items
    /\ left = items
    /\ subnets = << >>
    /\ nodes = {Local}
    /\ edges = {}
    /\ claims = {}
    /\ notes = {}
    /\ excluded = [expired |-> 0, future |-> 0]

TopologyInit == \E items \in Scenes : TopologyStart(items)

-----------------------------------------------------------------------------
(* _Builder.active: both boundaries are the snapshot time itself.          *)
Expired(e) == e.until <= AsOf

Future(e) == e.from > AsOf

Active(e) == ~Future(e) /\ ~Expired(e)

(* The evidence of a later stage waits for the earlier ones.               *)
Stage(e) == CASE e.kind = "subnet" -> 1 [] e.kind = "vlan" -> 2 [] OTHER -> 3

Due(e) == e \in left /\ \A d \in left : Stage(e) <= Stage(d)

Exclude(e) ==
    /\ Due(e)
    /\ ~Active(e)
    /\ excluded' = IF Future(e) THEN [excluded EXCEPT !.future = @ + 1]
                                ELSE [excluded EXCEPT !.expired = @ + 1]
    /\ left' = left \ {e}
    /\ UNCHANGED << evidence, subnets, nodes, edges, claims, notes >>

-----------------------------------------------------------------------------
Edge(e, s, t, kind, confidence) ==
    [source |-> s, target |-> t, kind |-> kind, by |-> e.source, confidence |-> confidence,
     from |-> e.from, until |-> e.until, inferred |-> kind = "inferred_subnet_membership"]

SameKey(x, y) == x.source = y.source /\ x.target = y.target /\ x.kind = y.kind /\ x.by = y.by

Better(x, y) == \/ x.confidence > y.confidence
                \/ x.confidence = y.confidence /\ x.from > y.from
                \/ x.confidence = y.confidence /\ x.from = y.from /\ x.until > y.until

(* _Builder.edge for the edges X of one item, which have keys of their own: *)
(* of the edges with one key the best is kept.                             *)
AddEdges_latest(E, X) == { y \in E : \A x \in X : ~SameKey(x, y) } \union X

AddEdges(E, X) ==
    { y \in E : \A x \in X : SameKey(x, y) => ~Better(x, y) }
    \union { x \in X : \A y \in E : SameKey(x, y) => Better(x, y) }

(* _subnet_for and _membership: the edge to the first of the most specific *)
(* subnets that hold the address, if one does.                             *)
SubnetFor(address) ==
    LET holds == { i \in DOMAIN subnets : address \in subnets[i].cidr }
        best  == { i \in holds : \A j \in holds :
                       Cardinality(subnets[i].cidr) <= Cardinality(subnets[j].cidr) }
    IN  IF best = {} THEN {} ELSE { subnets[Min(best)] }

Membership(e, device, address, confidence) ==
    { Edge(e, device, << "subnet", s.cidr >>, "inferred_subnet_membership",
           Min({confidence, s.confidence})) : s \in SubnetFor(address) }

Device(kind, identity) == << "device", kind, identity >>

(* _link_layer: a link needs both identifiers; a VLAN outside 0..4094 is   *)
(* ignored.                                                                *)
LinkLayer(e) ==
    IF Absent \in {e.chassis, e.port}
    THEN [nodes |-> {}, edges |-> {}, claims |-> {}, notes |-> {<< "incomplete_link", e.source >>}]
    ELSE LET remote == Device("chassis", e.chassis)
             vlans  == { << "vlan", v >> : v \in {e.vlan} \intersect 0..4094 }
         IN  [nodes |-> {remote} \union vlans,
              edges |-> {Edge(e, Local, remote, "link_layer_neighbor", 99)}
                          \union { Edge(e, remote, v, "observed_vlan", 95) : v \in vlans },
              claims |-> { << remote, v >> : v \in vlans },
              notes |-> {}]

Contribution(N, E) == [nodes |-> N, edges |-> E, claims |-> {}, notes |-> {}]

Nothing == Contribution({}, {})

(* _mdns: a withdrawn or incomplete record contributes nothing.            *)
Mdns(e) ==
    LET host == Device("hostname", e.hostname)
        service == << "service", e.service >>
        instance == << "instance", e.instance >>
        Needs == CASE e.kind = "mdns_service"  -> {e.service, e.instance}
                   [] e.kind = "mdns_instance" -> {e.instance, e.hostname}
                   [] OTHER                    -> {e.hostname, e.address}
    IN  IF e.action # "announce" \/ Absent \in Needs THEN Nothing
        ELSE CASE e.kind = "mdns_service" ->
                      Contribution({service, instance}, {Edge(e, service, instance, "advertises", 95)})
               [] e.kind = "mdns_instance" ->
                      Contribution({instance, host}, {Edge(e, instance, host, "service_host", 95)})
               [] OTHER -> Contribution({host}, Membership(e, host, e.address, 70))

(* _dhcp: only an acknowledged lease to an identified client counts.       *)
Dhcp(e) ==
    LET client == IF e.mac # Absent THEN Device("mac", e.mac) ELSE Device("client_id", e.client)
        servers == { Device("ipv4", s) : s \in {e.server} \ {Absent} }
    IN  IF e.message # "ack" \/ e.address = Absent \/ {e.mac, e.client} = {Absent} THEN Nothing
        ELSE Contribution({client} \union servers,
                          Membership(e, client, e.address, 90)
                            \union { Edge(e, s, client, "dhcp_lease", 90) : s \in servers })

(* _neighbor.                                                              *)
Neighbor(e) ==
    IF Absent \in {e.address, e.mac} THEN Nothing
    ELSE Contribution({Device("mac", e.mac)},
                      Membership(e, Device("mac", e.mac), e.address, 75))

(* What one active item adds: the body of the loop of build_topology.      *)
Adds(e) ==
    CASE e.kind = "subnet" -> Contribution({<< "subnet", e.cidr >>}, {})
      [] e.kind = "vlan" ->
             LET v == << "vlan", e.vlan >>
                 nets == { << "subnet", c >> : c \in {e.cidr} \ {Absent} }
             IN  Contribution({v} \union nets,
                              { Edge(e, v, n, "vlan_subnet", e.confidence) : n \in nets })
      [] e.kind = "link_layer_neighbor" -> LinkLayer(e)
      [] e.kind \in {"mdns_service", "mdns_instance", "mdns_address"} -> Mdns(e)
      [] e.kind = "dhcp_message" -> Dhcp(e)
      [] e.kind = "neighbor_observation" -> Neighbor(e)
      [] e.kind \in {"dhcp_address_reuse", "neighbor_ip_reuse", "neighbor_mac_movement"} ->
             [Nothing EXCEPT !.notes = {<< e.kind, e.address >>}]
      [] OTHER -> Nothing

Include(e) ==
    /\ Due(e)
    /\ Active(e)
    /\ nodes' = nodes \union Adds(e).nodes
    /\ edges' = AddEdges(edges, Adds(e).edges)
    /\ claims' = claims \union Adds(e).claims
    /\ notes' = notes \union Adds(e).notes
    /\ subnets' = IF e.kind = "subnet" THEN Append(subnets, e) ELSE subnets
    /\ left' = left \ {e}
    /\ UNCHANGED << evidence, excluded >>

(* The VLAN claims that contradict each other, added at the end.           *)
Disagreements == { << "vlan_disagreement", c[1] >> :
                     c \in { x \in claims : \E y \in claims : y[1] = x[1] /\ y[2] # x[2] } }

TopologyNext == \E e \in left : Exclude(e) \/ Include(e)

TopologySpec == TopologyInit /\ [][TopologyNext]_topologyVars

Conflicts == notes \union Disagreements

-----------------------------------------------------------------------------
(* Once every item is taken, the graph is what the evidence valid at the   *)
(* snapshot says, in whatever order it came: each edge joins nodes of the  *)
(* graph and is given by an item valid at the snapshot; none is kept where *)
(* another item gives a better one; none that is given is missing; a node  *)
(* with no edge stands on valid evidence too; and every item left out is   *)
(* counted.  (build_topology, _Builder, _membership.)                      *)
GraphShowsValidEvidence ==
    left = {} =>
        LET valid == { e \in evidence : e.from <= AsOf /\ AsOf < e.until }
            given == UNION { Adds(e).edges : e \in valid }
        IN  /\ \A x \in edges : {x.source, x.target} \subseteq nodes
            /\ edges = { x \in given : \A y \in given : SameKey(x, y) => ~Better(y, x) }
            /\ nodes = {Local} \union UNION { Adds(e).nodes : e \in valid }
            /\ excluded.expired + excluded.future = Cardinality(evidence \ valid)
            /\ \A n \in Conflicts : n[1] # "vlan_disagreement" =>
                   \E e \in valid : n \in Adds(e).notes
=============================================================================
