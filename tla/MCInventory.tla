---------------------------- MODULE MCInventory ----------------------------
(* The algorithms of the inventory, correlation, topology and the detection*)
(* of domain controllers, over bounded inputs: a behaviour runs one of     *)
(* them, and the others are at rest.                                       *)
EXTENDS Correlation, Topology, AdDetection, TLC

Evidence(S) == [identifiers |-> S, interfaces |-> {}, facts |-> {}]

(* Four observations that each hold any of three stable identifiers.       *)
Wide == { [o \in 1..4 |-> Evidence({ [key |-> k, confidence |-> 100] : k \in f[o] })] :
            f \in [1..4 -> SUBSET (1..3)] }

(* The evidence one observation may hold on one key: none, too weak, only  *)
(* just strong enough, or weak as an identifier and certain as an          *)
(* interface, as a stale UniFi client reports it.                          *)
Weak(k) == [identifiers |-> {[key |-> k, confidence |-> 70]}, interfaces |-> {}]
Fair(k) == [identifiers |-> {[key |-> k, confidence |-> 80]}, interfaces |-> {}]
Both(k) == [identifiers |-> {[key |-> k, confidence |-> 70]},
            interfaces |-> {[key |-> k, confidence |-> 100]}]
None == [identifiers |-> {}, interfaces |-> {}]

Add(a, b, name, f) == [identifiers |-> a.identifiers \union b.identifiers
                                         \union {[key |-> name, confidence |-> 70]},
                       interfaces |-> a.interfaces \union b.interfaces,
                       facts |-> {f}]

(* Three observations with graded evidence on two keys, the second a       *)
(* serial number; the first and third share a host name, and their sources *)
(* disagree on a fact.                                                     *)
Graded == { [o \in 1..3 |-> Add(x[o], y[o], IF o = 2 THEN 9 ELSE 8,
                                [field |-> "os", value |-> o, source |-> o])] :
              x \in [1..3 -> {None, Weak(1), Fair(1), Both(1)}],
              y \in [1..3 -> {None, Weak(2), Fair(3), Fair(2)}] }

MCBatches == Wide \union Graded

-----------------------------------------------------------------------------
(* Evidence around the snapshot time 5: expired at it, valid to just after *)
(* it, first seen at it and after it.                                      *)
Seen(kind, source, from, until) == [kind |-> kind, source |-> source, from |-> from, until |-> until]

Subnet(cidr, source, from, until, c) ==
    [cidr |-> cidr, confidence |-> c] @@ Seen("subnet", source, from, until)
Vlan(v, cidr, until) ==
    [vlan |-> v, cidr |-> cidr, confidence |-> 100] @@ Seen("vlan", "config", 1, until)
Link(chassis, port, vlan, from, until) ==
    [chassis |-> chassis, port |-> port, vlan |-> vlan]
        @@ Seen("link_layer_neighbor", "lldp", from, until)
Record(kind, s, i, h, a, action) ==
    [service |-> s, instance |-> i, hostname |-> h, address |-> a, action |-> action]
        @@ Seen(kind, "mdns", 2, 9)
Lease(message, mac, client, address, server, from) ==
    [message |-> message, mac |-> mac, client |-> client, address |-> address, server |-> server]
        @@ Seen("dhcp_message", "dhcp", from, 9)
Arp(mac, address, from, until) ==
    [mac |-> mac, address |-> address] @@ Seen("neighbor_observation", "arp", from, until)

Pool ==
    { Subnet({1, 2}, "config", 1, Never, 100), Subnet({1, 2}, "dhcp", 1, Never, 60),
      Subnet({1}, "config", 1, 5, 100), Subnet({1}, "dhcp", 5, 6, 80),
      Vlan(7, {1, 2}, Never), Vlan(7, Absent, 5),
      Link("sw", "p", 7, 2, 6), Link("sw", "p", 8, 3, 6), Link("sw", Absent, 7, 3, 6),
      Link("sw", "p", 4095, 6, 9),
      Record("mdns_service", "s", "i", Absent, Absent, "announce"),
      Record("mdns_instance", Absent, "i", "h", Absent, "announce"),
      Record("mdns_address", Absent, Absent, "h", 1, "announce"),
      Record("mdns_address", Absent, Absent, "h", 2, "withdraw"),
      Lease("ack", "m", Absent, 1, 9, 2), Lease("ack", Absent, "c", 2, Absent, 3),
      Lease("offer", "m", Absent, 1, 9, 2),
      Arp("m", 1, 2, 6), Arp("m", 2, 5, 9), Arp("m", 1, 1, 5),
      [address |-> 1] @@ Seen("neighbor_ip_reuse", "arp", 2, 6) }

(* Any four of them together, or fewer.                                    *)
MCScenes == { {a, b, c, d} : a, b, c, d \in Pool }

NoBatch == [o \in {} |-> Evidence({})]

-----------------------------------------------------------------------------
CONSTANTS h1, h2, inside, inside2, outside

(* What an earlier scan may have stored: nothing, an address that is not   *)
(* approved (any more), addresses of both hosts, a record of no host.      *)
MCStored == { {}, {<< h1, outside >>}, {<< h1, inside >>, << h1, outside >>, << h2, inside >>},
              {<< Malformed, inside >>} }

InventoryInit ==
    \/ CorrelateInit /\ TopologyStart({}) /\ DetectionStart("off")
    \/ CorrelateStart(NoBatch) /\ TopologyInit /\ DetectionStart("off")
    \/ CorrelateStart(NoBatch) /\ TopologyStart({}) /\ DetectionStart("idle")

InventoryNext ==
    \/ phase = "off" /\ CorrelateNext /\ UNCHANGED << topologyVars, detectionVars >>
    \/ TopologyNext /\ UNCHANGED << correlationVars, detectionVars >>
    \/ DetectionNext /\ UNCHANGED << correlationVars, topologyVars >>

InventorySpec == InventoryInit /\ [][InventoryNext]_<< correlationVars, topologyVars, detectionVars >>
=============================================================================
