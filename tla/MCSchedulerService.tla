------------------------ MODULE MCSchedulerService ------------------------
(* Documents that differ from a base in one section each: every collector  *)
(* enabled with complete and with incomplete profiles, and documents that  *)
(* validation must refuse.                                                 *)
EXTENDS SchedulerService

CONSTANTS inside, inside2, outside, vault, url1

Lan == [addresses |-> {inside, inside2}, private |-> TRUE]

Base ==
  [interface |-> [excluded |-> FALSE, allow_excluded_interface |-> FALSE],
   active |-> [approved_ranges |-> {Lan}, max_hosts |-> 2],
   paths |-> [database_inside_root |-> TRUE],
   scheduler |-> [interval_seconds |-> 60, jitter_seconds |-> 0, timeout_seconds |-> 1,
                  retries |-> 0, concurrency |-> 2],
   secret_providers |-> {vault},
   snmp |-> [enabled |-> TRUE, protocol |-> "v3", allow_insecure_v2c |-> FALSE,
             credential_ref |-> vault, targets |-> {inside}],
   unifi |-> [enabled |-> FALSE, endpoints |-> {}],
   ad |-> [enabled |-> FALSE, transport |-> "ldaps", allow_plaintext_ldap |-> FALSE,
           domain |-> "qualified", base_dn |-> "dc", server_name |-> "dc1", target |-> inside,
           credential_ref |-> vault],
   ssh |-> [enabled |-> FALSE, credential_ref |-> vault,
            targets |-> {[address |-> inside, platform |-> "cisco_ios"],
                         [address |-> inside2, platform |-> "hp_comware"]}]]

Controller == [url |-> url1, host |-> inside, approved_address |-> inside,
               credential_ref |-> None, verify_tls |-> TRUE, allow_self_signed |-> FALSE]

MCDocuments ==
    { [Base EXCEPT !.snmp.enabled = FALSE, !.ssh.enabled = TRUE],
      [Base EXCEPT !.ad.enabled = TRUE, !.scheduler.concurrency = 1],
      [Base EXCEPT !.snmp.enabled = FALSE, !.ad.enabled = TRUE, !.ad.server_name = None],
      [Base EXCEPT !.snmp.enabled = FALSE, !.ad.enabled = TRUE, !.ad.domain = "unqualified"],
      [Base EXCEPT !.snmp.credential_ref = None,
                   !.unifi = [enabled |-> TRUE, endpoints |-> {Controller}]],
      [Base EXCEPT !.snmp.enabled = FALSE,
                   !.unifi = [enabled |-> TRUE,
                              endpoints |-> {[Controller EXCEPT !.host = "controller.lan"]}]],
      [Base EXCEPT !.snmp.targets = {inside, outside}],
      [Base EXCEPT !.ssh.enabled = TRUE, !.active.approved_ranges = {}],
      [Base EXCEPT !.active.approved_ranges = {[Lan EXCEPT !.private = FALSE]}],
      [Base EXCEPT !.scheduler.jitter_seconds = 60] }
=============================================================================
