--------------------------- MODULE Configuration ---------------------------
(***************************************************************************)
(* config.py and what is derived from a validated document: the child      *)
(* invocations of the scheduler (build_invocations), and whether the       *)
(* command line then accepts such an invocation.  Strings are abstracted   *)
(* to what validation tells apart: an address is a model value, a network  *)
(* the record of its addresses and its scope, a credential reference the   *)
(* name of its provider, a directory domain "qualified" when               *)
(* normalize_domain accepts it and "unqualified" when it does not.         *)
(***************************************************************************)
EXTENDS Integers, FiniteSets

CONSTANTS Addresses,    \* IPv4 addresses that documents mention
          None          \* YAML null, or a key that is absent

Kinds == {"snmp", "unifi", "ad", "ssh"}
Platforms == {"cisco_ios", "hp_comware", "aruba_aos"}

(* _integer with the limits its callers pass. *)
InRange(n, low, high) == n \in low..high

(* _validate_types: the limits of the scheduler section, the excluded      *)
(* interfaces, and the database inside the data root.                      *)
ValidateTypes(doc) ==
    /\ doc.interface.excluded => doc.interface.allow_excluded_interface
    /\ InRange(doc.active.max_hosts, 1, 1024)
    /\ doc.paths.database_inside_root
    /\ InRange(doc.scheduler.interval_seconds, 60, 604800)
    /\ InRange(doc.scheduler.jitter_seconds, 0, 3600)
    /\ InRange(doc.scheduler.timeout_seconds, 1, 300)
    /\ InRange(doc.scheduler.retries, 0, 3)
    /\ InRange(doc.scheduler.concurrency, 1, 16)
    /\ doc.scheduler.jitter_seconds < doc.scheduler.interval_seconds

(* _validate_targets: approved ranges are small private networks. *)
ValidateTargets(active) ==
    \A network \in active.approved_ranges :
        /\ network.private
        /\ Cardinality(network.addresses) <= active.max_hosts

(* _validate_providers_and_references: a reference that is present names a *)
(* configured provider; one that is absent is accepted for every collector.*)
ValidateProvidersAndReferences(doc) ==
    LET references == {doc.snmp.credential_ref, doc.ad.credential_ref, doc.ssh.credential_ref}
                      \union {endpoint.credential_ref : endpoint \in doc.unifi.endpoints}
    IN  references \ {None} \subseteq doc.secret_providers

(* Whether some approved range holds the address. *)
Approved(address, active) ==
    \E network \in active.approved_ranges : address \in network.addresses

(* _configured_ipv4: the address is approved where approval is required. *)
ConfiguredIPv4_unchecked(address, active, required) == address \in Addresses

ConfiguredIPv4(address, active, required) ==
    /\ address \in Addresses
    /\ required => Approved(address, active)

(* The SNMP part of _validate_protocols. *)
ValidateSnmp(snmp, active) ==
    /\ snmp.protocol = "v2c" => snmp.allow_insecure_v2c
    /\ Cardinality(snmp.targets) <= active.max_hosts
    /\ \A target \in snmp.targets : ConfiguredIPv4(target, active, snmp.enabled)

(* The Active Directory part of _validate_protocols: an enabled collector  *)
(* needs a domain, a base DN and one approved target, but no server name,  *)
(* and any non-empty string is a domain.                                   *)
ValidateAd(ad, active) ==
    /\ ad.transport = "ldap" => ad.allow_plaintext_ldap
    /\ ad.enabled => ad.domain # None /\ ad.base_dn # None
    /\ IF ad.target = None THEN ~ad.enabled
                           ELSE ConfiguredIPv4(ad.target, active, ad.enabled)

(* The SSH part of _validate_protocols. *)
ValidateSsh(ssh, active) ==
    /\ Cardinality(ssh.targets) <= active.max_hosts
    /\ \A target \in ssh.targets :
           /\ ConfiguredIPv4(target.address, active, ssh.enabled)
           /\ target.platform \in Platforms

(* The UniFi part of _validate_protocols: an enabled collector pins every  *)
(* endpoint to an approved address; the URL's host is not compared to it.  *)
ValidateUnifi(unifi, active) ==
    \A endpoint \in unifi.endpoints :
        /\ IF endpoint.approved_address = None
             THEN ~unifi.enabled
             ELSE ConfiguredIPv4(endpoint.approved_address, active, unifi.enabled)
        /\ endpoint.verify_tls \/ endpoint.allow_self_signed

(* validate_config: every check must hold, the first that fails refuses. *)
ValidateConfig(doc) ==
    /\ ValidateTypes(doc)
    /\ ValidateTargets(doc.active)
    /\ ValidateProvidersAndReferences(doc)
    /\ ValidateSnmp(doc.snmp, doc.active)
    /\ ValidateAd(doc.ad, doc.active)
    /\ ValidateSsh(doc.ssh, doc.active)
    /\ ValidateUnifi(doc.unifi, doc.active)

-----------------------------------------------------------------------------
(* build_invocations: one child for all SNMP targets, one per UniFi        *)
(* endpoint, one for the directory and one per SSH platform.               *)
BuildInvocations(doc) ==
    { [kind |-> "snmp", key |-> None, targets |-> snmp.targets] :
        snmp \in {s \in {doc.snmp} : s.enabled /\ s.targets # {}} }
    \union
    { [kind |-> "unifi", key |-> endpoint.url, targets |-> {endpoint.approved_address}] :
        endpoint \in {e \in doc.unifi.endpoints : doc.unifi.enabled} }
    \union
    { [kind |-> "ad", key |-> None, targets |-> {ad.target}] :
        ad \in {a \in {doc.ad} : a.enabled} }
    \union
    { [kind |-> "ssh", key |-> platform,
       targets |-> {t.address : t \in {s \in doc.ssh.targets : s.platform = platform}}] :
        platform \in {s.platform : s \in {t \in doc.ssh.targets : doc.ssh.enabled}} }

(* The gaps between the two: what validation lets through and the command  *)
(* line then refuses on every cycle, whatever the network does.            *)
IncompleteProfile(doc, invocation) ==
    \/ invocation.kind = "snmp" /\ doc.snmp.credential_ref = None
    \/ invocation.kind = "ssh" /\ doc.ssh.credential_ref = None
    \/ /\ invocation.kind = "ad"
       /\ \/ None \in {doc.ad.credential_ref, doc.ad.server_name}
          \/ doc.ad.domain # "qualified"
    \/ /\ invocation.kind = "unifi"
       /\ \E endpoint \in doc.unifi.endpoints :
             /\ endpoint.url = invocation.key
             /\ endpoint.host # endpoint.approved_address
=============================================================================
