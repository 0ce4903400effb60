---------------------------- MODULE MCReporting ----------------------------
(* One report beside two collectors at work and retention; or several      *)
(* invocations of two operators on the same day, over an empty database,   *)
(* for the files they publish.                                             *)
EXTENDS Reporting

Row(t, kind, of, value) == [table |-> t, kind |-> kind, of |-> of, value |-> value]

(* Two devices with the same address, hostname and MAC from two artifacts, *)
(* with facts and script output, facts collected from that address, one of *)
(* which no section maps, a UniFi snapshot with a resolved and an          *)
(* unresolved uplink, and an AD domain with an entity, a trust and the     *)
(* root object.                                                            *)
MCStores ==
    [nmap  |-> << {Row("device", "-", "-", "a"), Row("alias", "ipv4", "a", "ip"),
                   Row("alias", "hostname", "a", "host"), Row("alias", "mac", "a", "mac"),
                   Row("device_fact", "-", "a", "os"), Row("service", "-", "a", "ssh"),
                   Row("unread", "-", "ssh", "script")},
                  {Row("device", "-", "-", "b"), Row("alias", "ipv4", "b", "ip"),
                   Row("alias", "hostname", "b", "host"), Row("alias", "mac", "b", "mac")} >>,
     snmp  |-> << {Row("fact", "mapped", "ip", "ports")}, {Row("fact", "unmapped", "ip", "name")} >>,
     unifi |-> << {Row("unifi_site", "-", "-", "s"), Row("unifi_entity", "-", "s", "e"),
                   Row("unifi_entity", "-", "s", "f"), Row("unifi_relation", "-", "e", "f"),
                   Row("unifi_relation", "-", "f", "far")} >>,
     ad    |-> << {Row("ad_domain", "-", "-", "d"), Row("ad_entity", "-", "d", "dc"),
                   Row("ad_trust", "-", "-", "t"), Row("unread", "-", "-", "root")} >>]

Once == [g \in Generators |-> IF g = "g1" THEN 1 ELSE 0]
Often == [g \in Generators |-> 3]
MCInvocations == {Once, Often}

(* Two scenes, from an empty database: one report beside two runs, those   *)
(* whose rows meet in it (scans and SNMP facts, or the two platforms); or  *)
(* two operators at work on their files, beside no run.                    *)
MCInit == Init /\ \A r \in Runs : status[r] = "idle"
MCSpec == MCInit /\ [][Next]_vars

OneScene ==
    LET started == { r \in Runs : status'[r] # "idle" }
    IN  \/ started = {}
        \/ /\ runsLeft["g2"] = 0 /\ pc["g2"] = "idle"
           /\ started \subseteq {"nmap", "snmp"} \/ started \subseteq {"unifi", "ad"}
=============================================================================
