-------------------------- MODULE MCPassiveService --------------------------
(* Neighbors that share an address or a MAC, one mDNS record, one leased address. *)
EXTENDS PassiveService
CONSTANTS a1, a2, m1, m2, printer, switch

Arp(key) == [protocol |-> "arp", key |-> key]
Mdns(records) == [protocol |-> "mdns", records |-> records]
Plain(protocol) == [protocol |-> protocol, key |-> switch]
Printer(ttl) == [key |-> printer, ttl |-> ttl]
Ack(client) == [protocol |-> "dhcp", key |-> a1, client |-> client, ack |-> TRUE]

MCFrames == {Arp(<<a1, m1>>), Arp(<<a1, m2>>), Mdns(<<Printer(1)>>), Ack(m1), Plain("lldp")}
MCKernelTables == {<<<<a1, m1>>, <<a1, NoMac>>, <<a2, m1>>>>}
=============================================================================
