------------------------ MODULE ProtocolCollectors ------------------------
(***************************************************************************)
(* The collect coroutines of the SNMP, SSH, UniFi and Active Directory     *)
(* collectors, attempt after attempt as CollectorOrchestrator retries them *)
(* (UniFi is run by the command line, without timeout and without retry).  *)
(* A target holds a number of rows behind each of the collector's reads: a *)
(* table walked, a command, a resource, a directory query; for the last    *)
(* directory query, the documented groups, the rows are member ranges.     *)
(* Rows are those the collector can represent: an entry without a key is a *)
(* notice of its own, and normalize_snapshot passes over UniFi records of  *)
(* a kind it does not know.                                                *)
(*                                                                         *)
(* SSH and LDAP block in worker threads (asyncio.to_thread).  A timeout or *)
(* a cancellation cuts the coroutine at its await; the thread lives on.    *)
(***************************************************************************)
EXTENDS Integers, FiniteSets, FiniteSetsExt

CONSTANTS Kinds,       \* the collectors to consider
          NumReads,    \* reads of an attempt
          MaxSize,     \* rows behind a read
          Retries,     \* retries after the first attempt
          Batch,       \* rows in one SNMP bulk response
          MaxTableRows, PageSize, MaxPages, MaxItems, MaxEntries

ASSUME KindsAssumption == Kinds \subseteq {"snmp", "ssh", "unifi", "ad"}
ASSUME BoundsAssumption ==
    /\ NumReads \in Nat \ {0} /\ {MaxSize, Retries} \subseteq Nat
    /\ {Batch, MaxTableRows, PageSize, MaxPages, MaxItems, MaxEntries} \subseteq Nat \ {0}

Reads == 1..NumReads
Target == 0            \* an issue about the target as a whole

VARIABLES kind, size,  \* the collector and what its target holds
          given,       \* rows its server gives before it ends a read
          attempt, pc,
          read,        \* the read at work; 0 is paging off, login or RootDSE
          taken,       \* rows of each read in memory
          remaining,   \* rows the SNMP walk may still take
          page,        \* pages of this read so far
          seen,        \* whether this query has had a paging cookie
          issues,      \* what the result discloses: reads, or the target
          stored,      \* rows of each read this attempt has in the database
          copies,      \* attempts that have stored rows
          session,     \* the connection of this attempt
          threads,     \* worker threads that outlived a cut, by their call
          leaked,      \* a connection or a helper that nobody will close
          cutAt,       \* where attempts have been cut
          res          \* how the attempt ends

vars == <<kind, size, given, attempt, pc, read, taken, remaining, page, seen, issues, stored, copies,
          session, threads, leaked, cutAt, res>>
target == <<kind, size, given>>
outside == <<threads, leaked>>

Nothing == [r \in Reads |-> 0]

Init == /\ kind \in Kinds
        /\ size \in [Reads -> 0..MaxSize]
        /\ given \in [Reads -> 0..MaxSize]
        /\ \A r \in Reads : given[r] <= size[r] /\ (kind # "unifi" => given[r] = size[r])
        /\ attempt = 1 /\ pc = "idle" /\ read = 0
        /\ taken = Nothing /\ remaining = MaxTableRows
        /\ page = 0 /\ seen = "none" /\ issues = {}
        /\ stored = Nothing /\ copies = 0
        /\ session = "none" /\ threads = {} /\ leaked = FALSE /\ cutAt = {}
        /\ res = "none"

(* An attempt keeps nothing of the one before but what is in the database. *)
Begin ==
    /\ pc = "idle"
    /\ pc' = "secret"
    /\ read' = IF kind = "snmp" THEN 1 ELSE 0
    /\ taken' = Nothing /\ remaining' = MaxTableRows
    /\ page' = 0 /\ seen' = "none" /\ issues' = {}
    /\ stored' = Nothing /\ session' = "none" /\ res' = "none"
    /\ UNCHANGED <<target, attempt, copies, outside, cutAt>>

(* A collect whose finally is missing: errors leave the session open. *)
Leave_nofinally(result) ==
    /\ res' = result
    /\ pc' = IF session = "open" /\ result = "returned" THEN "close" ELSE "ended"

(* Leave the coroutine with a result or an exception: through the finally  *)
(* that closes the session if there is one.                                *)
Leave(result) ==
    /\ res' = result
    /\ pc' = IF session = "open" THEN "close" ELSE "ended"

(* The credential reference is resolved from its file or its helper: a     *)
(* value, or an error that is not retried.                                 *)
Secret(k, errors) ==
    /\ kind = k /\ pc = "secret"
    /\ \/ pc' = (IF k = "snmp" THEN "read" ELSE "connect") /\ UNCHANGED res
       \/ res' \in errors /\ pc' = "ended"
    /\ UNCHANGED <<target, remaining, attempt, read, taken, page, seen, issues, stored, copies,
                   session, outside, cutAt>>

(* resolve_secret awaits its helper; the others block the loop while theirs*)
(* runs, and let an undecodable answer escape as it is.                    *)
SnmpSecret == Secret("snmp", {"error"})
SshSecret == Secret("ssh", {"error", "fault"})
AdSecret == Secret("ad", {"error", "fault"})
UnifiSecret == Secret("unifi", {"error", "fault"})

(* A connection is made, or refused as mapped to the framework's errors.   *)
Connects(k, connection) ==
    /\ kind = k /\ pc = "connect"
    /\ \/ session' = connection /\ pc' = "read" /\ UNCHANGED res
       \/ /\ \E error \in {"auth", "retry", "error"} : res' = error
          /\ pc' = "ended" /\ UNCHANGED session
    /\ UNCHANGED <<target, remaining, attempt, read, taken, page, seen, issues, stored,
                   copies, outside, cutAt>>

(* NetmikoSessionFactory.connect, Ldap3SessionFactory.connect, and         *)
(* UniFiClient.login, which keeps cookies and no connection.               *)
SshConnect == Connects("ssh", "open")
AdConnect == Connects("ad", "open")
UnifiLogin == Connects("unifi", "none")

(* On to the next read, or past the last one. *)
NextRead(last) ==
    /\ page' = 0 /\ seen' = "none"
    /\ IF read = NumReads THEN last /\ UNCHANGED read
                          ELSE read' = read + 1 /\ UNCHANGED <<pc, res>>

ToPersist == pc' = "persist" /\ UNCHANGED res

(* The first call of a session; its failure ends the attempt.              *)
FirstCall(k) ==
    /\ kind = k /\ pc = "read" /\ read = 0
    /\ \/ read' = 1 /\ UNCHANGED <<pc, res>>
       \/ /\ \E error \in {"auth", "retry", "error"} : Leave(error)
          /\ UNCHANGED read
    /\ UNCHANGED <<target, remaining, attempt, taken, page, seen, issues, stored, copies,
                   session, outside, cutAt>>

(* The paging command, the RootDSE and its naming context, and the list of *)
(* sites.                                                                  *)
SshPaging == FirstCall("ssh")
AdRootDse == FirstCall("ad")
UnifiSites == FirstCall("unifi")
-----------------------------------------------------------------------------
(* PySnmpTransport.collect that stops at the row limit without a word. *)
SnmpWalk_silent ==
    /\ kind = "snmp" /\ pc = "read"
    /\ LET rows == Min({Batch, remaining, size[read] - taken[read]})
       IN  IF rows = 0 THEN NextRead(ToPersist) /\ UNCHANGED <<taken, remaining, issues>>
           ELSE /\ taken' = [taken EXCEPT ![read] = @ + rows]
                /\ remaining' = remaining - rows
                /\ IF remaining' = 0 THEN ToPersist ELSE UNCHANGED <<pc, res>>
                /\ UNCHANGED <<read, page, seen, issues>>
    /\ UNCHANGED <<target, attempt, stored, copies, session, outside, cutAt>>

(* PySnmpTransport.collect: one bulk response, or the end of a table.  The *)
(* budget is shared by all tables; reaching it is reported and ends the    *)
(* walk, even when the last row was the last there is.                     *)
SnmpWalk ==
    /\ kind = "snmp" /\ pc = "read"
    /\ LET rows == Min({Batch, remaining, size[read] - taken[read]})
       IN  IF rows = 0 THEN NextRead(ToPersist) /\ UNCHANGED <<taken, remaining, issues>>
           ELSE /\ taken' = [taken EXCEPT ![read] = @ + rows]
                /\ remaining' = remaining - rows
                /\ IF remaining' = 0
                     THEN ToPersist /\ issues' = issues \union {Target}
                     ELSE UNCHANGED <<pc, res, issues>>
                /\ UNCHANGED <<read, page, seen>>
    /\ UNCHANGED <<target, attempt, stored, copies, session, outside, cutAt>>

(* _response_varbinds and the transport's handlers; nothing is stored yet. *)
SnmpFails ==
    /\ kind = "snmp" /\ pc = "read"
    /\ \E error \in {"auth", "retry", "error"} : Leave(error)
    /\ UNCHANGED <<target, remaining, attempt, read, taken, page, seen, issues, stored,
                   copies, session, outside, cutAt>>

(* normalize_varbinds and the loop of record_observation: a value that is  *)
(* unsupported, invalid or unknown beyond the limit is left out and        *)
(* reported.  No await: the rows go in one after the other, and a failing  *)
(* insert leaves those before it.                                          *)
SnmpPersist ==
    /\ kind = "snmp" /\ pc = "persist"
    /\ \E bad \in SUBSET {r \in Reads : taken[r] > 0} :
          LET facts == [r \in Reads |-> IF r \in bad THEN taken[r] - 1 ELSE taken[r]]
          IN  \/ /\ stored' = facts /\ issues' = issues \union bad /\ Leave("returned")
              \/ /\ \E last \in Reads :
                       stored' = [r \in Reads |-> IF r < last THEN facts[r] ELSE 0]
                 /\ Leave("fault") /\ UNCHANGED issues
    /\ copies' = IF stored' = Nothing THEN copies ELSE copies + 1
    /\ UNCHANGED <<target, remaining, attempt, read, taken, page, seen, session, outside,
                   cutAt>>
-----------------------------------------------------------------------------
(* NetworkDeviceSSHCollector.collect, one command: run it, and persist its *)
(* output as an artifact and an observation, before the next one.          *)
SshCommand ==
    /\ kind = "ssh" /\ pc = "read" /\ read > 0
    /\ \/ /\ stored' = [stored EXCEPT ![read] = size[read]]        \* parsed, or
          /\ issues' \in {issues, issues \union {read}}            \* raw with a notice
          /\ NextRead(Leave("returned"))
       \/ /\ issues' = issues \union {read} /\ UNCHANGED stored    \* SSHCollectionError
          /\ NextRead(Leave("returned"))
       \/ /\ \E error \in {"auth", "retry", "fault"} : Leave(error)
          /\ UNCHANGED <<read, page, seen, issues, stored>>
    /\ copies' = IF stored = Nothing /\ stored' # Nothing THEN copies + 1 ELSE copies
    /\ UNCHANGED <<target, remaining, attempt, taken, session, outside, cutAt>>
-----------------------------------------------------------------------------
(* UniFiClient.get_pages, one page of a resource.  A short page ends the   *)
(* resource, whatever the controller still holds; so do the ceilings on    *)
(* pages and items, without a notice.                                      *)
UnifiPage ==
    /\ kind = "unifi" /\ pc = "read" /\ read > 0
    /\ LET rows == Min({PageSize, given[read] - taken[read]})
           got  == Min({taken[read] + rows, MaxItems})
       IN  /\ taken' = [taken EXCEPT ![read] = got]
           /\ IF got >= MaxItems \/ rows < PageSize \/ page + 1 = MaxPages
                THEN NextRead(ToPersist)
                ELSE page' = page + 1 /\ UNCHANGED <<read, seen, pc, res>>
    /\ UNCHANGED <<target, remaining, attempt, issues, stored, copies, session, outside, cutAt>>

(* UniFiInventoryCollector.collect around it: a resource that is denied or *)
(* omitted becomes a coverage issue; a transport failure ends the attempt. *)
UnifiFails ==
    /\ kind = "unifi" /\ pc = "read" /\ read > 0
    /\ \/ /\ taken' = [taken EXCEPT ![read] = 0]
          /\ issues' = issues \union {read}
          /\ NextRead(ToPersist)
       \/ Leave("retry") /\ UNCHANGED <<read, taken, page, seen, issues>>
    /\ UNCHANGED <<target, remaining, attempt, stored, copies, session, outside, cutAt>>

(* persist_inventory: one transaction. *)
UnifiPersist ==
    /\ kind = "unifi" /\ pc = "persist"
    /\ \/ stored' = taken /\ copies' = copies + 1 /\ Leave("returned")
       \/ Leave("fault") /\ UNCHANGED <<stored, copies>>
    /\ UNCHANGED <<target, remaining, attempt, read, taken, page, seen, issues, session,
                   outside, cutAt>>
-----------------------------------------------------------------------------
GroupRead == NumReads

(* Nothing bounds the pages of a directory: they are counted in a circle. *)
TurnPage == page' = IF page + 1 = MaxPages THEN 0 ELSE page + 1

(* _run_query, one page: entries up to the limit, which is reported; then  *)
(* no cookie when the server has no more entries, or a fresh one, with     *)
(* entries or without, as often as the server likes.  A cookie seen before *)
(* fails the query, and its entries are lost with it.                      *)
AdPage ==
    /\ kind = "ad" /\ pc = "read" /\ read \in Reads \ {GroupRead}
    /\ \E rows \in 0..Min({PageSize, size[read] - taken[read]}) :
         LET got == Min({taken[read] + rows, MaxEntries})
         IN  \/ /\ got >= MaxEntries \/ got = size[read]
                /\ taken' = [taken EXCEPT ![read] = got]
                /\ issues' = IF rows > 0 /\ got >= MaxEntries THEN issues \union {read} ELSE issues
                /\ NextRead(ToPersist)
             \/ /\ got < MaxEntries
                /\ taken' = [taken EXCEPT ![read] = got]
                /\ seen' = "cookie" /\ TurnPage
                /\ UNCHANGED <<issues, read, pc, res>>
             \/ /\ got < MaxEntries /\ seen = "cookie"
                /\ taken' = [taken EXCEPT ![read] = 0]
                /\ issues' = issues \union {read}
                /\ NextRead(ToPersist)
    /\ UNCHANGED <<target, remaining, attempt, stored, copies, session, outside, cutAt>>

(* _expand_group_ranges: members arrive range by range, and a range with a *)
(* fresh start may be empty; a start that comes again, too many members,   *)
(* or a missing or malformed range stops the group with a notice and keeps *)
(* what there is.                                                          *)
AdRange ==
    /\ kind = "ad" /\ pc = "read" /\ read = GroupRead
    /\ \/ /\ taken[read] = size[read]
          /\ NextRead(ToPersist) /\ UNCHANGED <<taken, issues>>
       \/ /\ taken[read] < Min({size[read], MaxEntries})
          /\ taken' = [taken EXCEPT ![read] = @ + 1]
          /\ UNCHANGED <<issues, page, seen, read, pc, res>>
       \/ /\ taken[read] < MaxEntries
          /\ TurnPage
          /\ UNCHANGED <<taken, issues, seen, read, pc, res>>
       \/ /\ taken[read] < size[read]
          /\ issues' = issues \union {read}
          /\ NextRead(ToPersist) /\ UNCHANGED taken
    /\ UNCHANGED <<target, remaining, attempt, stored, copies, session, outside, cutAt>>

(* The same, storing what was gathered before a transport error is raised.*)
AdQueryFails_flush ==
    /\ kind = "ad" /\ pc = "read" /\ read > 0
    /\ stored' = taken /\ copies' = copies + 1
    /\ Leave("retry")
    /\ UNCHANGED <<target, remaining, attempt, read, taken, page, seen, issues, session,
                   outside, cutAt>>

(* ActiveDirectoryCollector.collect around a query: denied or failed is an *)
(* issue of that query, whose entries are dropped; anything else ends the  *)
(* attempt.                                                                *)
AdQueryFails ==
    /\ kind = "ad" /\ pc = "read" /\ read > 0
    /\ \/ /\ taken' = [taken EXCEPT ![read] = 0]
          /\ issues' = issues \union {read}
          /\ NextRead(ToPersist)
       \/ /\ \E error \in {"auth", "retry"} : Leave(error)
          /\ UNCHANGED <<read, taken, page, seen, issues>>
    /\ UNCHANGED <<target, remaining, attempt, stored, copies, session, outside, cutAt>>

(* _persist: one transaction.  A machine promoted or demoted between two   *)
(* queries has its key in both, which the unique index refuses: the whole  *)
(* attempt fails with nothing stored.                                      *)
AdPersist ==
    /\ kind = "ad" /\ pc = "persist"
    /\ \/ stored' = taken /\ copies' = copies + 1 /\ Leave("returned")
       \/ Leave("fault") /\ UNCHANGED <<stored, copies>>
    /\ UNCHANGED <<target, remaining, attempt, read, taken, page, seen, issues, session,
                   outside, cutAt>>
-----------------------------------------------------------------------------
(* session.close in the finally; a failing disconnect replaces the result. *)
CloseSession ==
    /\ pc = "close"
    /\ session' = "closed" /\ pc' = "ended"
    /\ res' \in {res, "fault"}
    /\ UNCHANGED <<target, remaining, attempt, read, taken, page, seen, issues, stored,
                   copies, outside, cutAt>>

(* The coroutine is cut at an await.  A call that is under way in a thread *)
(* goes on; the finally still closes the session; SNMP's credential        *)
(* helper, cut, is neither killed nor awaited.                             *)
Cut(reason) ==
    /\ kind # "unifi" /\ res \notin {"timeout", "cancelled"}
    /\ pc \in {"connect", "read", "close"} \union (IF kind = "snmp" THEN {"secret"} ELSE {})
    /\ res' = reason
    /\ pc' = IF pc = "read" /\ session = "open" THEN "close" ELSE "ended"
    /\ threads' = IF kind = "snmp" THEN threads
                  ELSE threads \union {[call |-> pc, of |-> attempt]}
    /\ cutAt' = cutAt \union {pc}
    /\ session' = IF pc = "close" THEN "closing" ELSE session
    /\ leaked' \in IF pc = "secret" THEN {leaked, TRUE} ELSE {leaked}
    /\ UNCHANGED <<target, remaining, attempt, read, taken, page, seen, issues, stored, copies>>

(* A timeout that is left to the directory's transport. *)
TimedOut_transport == kind # "ad" /\ Cut("timeout")

(* The orchestrator's wait_for, and a cancellation of its task. *)
TimedOut == Cut("timeout")
Cancelled == Cut("cancelled")

(* The thread's call returns: into nothing, or with a connection that no   *)
(* coroutine is left to close.                                             *)
ThreadReturns ==
    /\ \E t \in threads :
         /\ threads' = threads \ {t}
         /\ leaked' \in IF t.call = "connect" THEN {leaked, TRUE} ELSE {leaked}
         /\ session' = IF t.call = "close" /\ t.of = attempt THEN "closed" ELSE session
    /\ UNCHANGED <<target, remaining, attempt, pc, read, taken, page, seen, issues,
                   stored, copies, cutAt, res>>

(* What the orchestrator makes of it: timeouts and retryable errors are    *)
(* tried again; the command line does not retry UniFi.                     *)
EndAttempt ==
    /\ pc = "ended"
    /\ IF res \in {"retry", "timeout"} /\ attempt <= Retries /\ kind # "unifi"
         THEN attempt' = attempt + 1 /\ pc' = "idle"
         ELSE pc' = "done" /\ UNCHANGED attempt
    /\ UNCHANGED <<target, remaining, read, taken, page, seen, issues, stored, copies,
                   session, outside, cutAt, res>>

Done == pc = "done" /\ threads = {} /\ UNCHANGED vars

Work == \/ Begin
        \/ SnmpSecret \/ SshSecret \/ AdSecret \/ UnifiSecret
        \/ SshConnect \/ AdConnect \/ UnifiLogin
        \/ SshPaging \/ AdRootDse \/ UnifiSites
        \/ SnmpWalk \/ SnmpFails \/ SnmpPersist
        \/ SshCommand
        \/ UnifiPage \/ UnifiFails \/ UnifiPersist
        \/ AdPage \/ AdRange \/ AdQueryFails \/ AdPersist
        \/ CloseSession \/ EndAttempt

Next == Work \/ TimedOut \/ Cancelled \/ ThreadReturns \/ Done

Spec == Init /\ [][Next]_vars

(* The event loop is scheduled, every blocking call has a timeout of its   *)
(* own, so it returns, and wait_for's timer ends an attempt that does not  *)
(* end by itself.                                                          *)
FairSpec == Spec /\ WF_vars(Work) /\ WF_vars(ThreadReturns) /\ WF_vars(TimedOut)
-----------------------------------------------------------------------------
(* Type invariant. *)
TypeOK ==
    /\ kind \in Kinds /\ size \in [Reads -> 0..MaxSize] /\ given \in [Reads -> 0..MaxSize]
    /\ attempt \in 1..Retries + 1 /\ copies \in 0..attempt
    /\ pc \in {"idle", "secret", "connect", "read", "persist", "close", "ended", "done"}
    /\ read \in 0..NumReads /\ page \in 0..MaxPages /\ seen \in {"cookie", "none"}
    /\ remaining \in 0..MaxTableRows /\ {taken, stored} \subseteq [Reads -> 0..MaxSize]
    /\ issues \subseteq 0..NumReads
    /\ session \in {"none", "open", "closing", "closed"} /\ leaked \in BOOLEAN
    /\ cutAt \subseteq {"secret", "connect", "read", "close"}
    /\ res \in {"none", "returned", "auth", "retry", "error", "fault", "timeout", "cancelled"}

(* A result that is short of what the target holds says so.  The losses    *)
(* without a notice are UniFi's: a resource at the ceiling of pages or     *)
(* items, and one of which the controller gave no more before a short page.*)
LossDisclosed ==
    pc = "done" /\ res = "returned" =>
        \A r \in Reads : stored[r] < size[r] =>
            \/ issues \intersect {r, Target} # {}
            \/ kind = "unifi" /\ stored[r] \in {given[r], Min({MaxItems, MaxPages * PageSize})}

(* Rows reach the database once, although attempts are repeated: what is   *)
(* retried has stored nothing.  SSH stores command by command and so may   *)
(* store again; a directory inventory only when closing was cut.           *)
StoredOnce ==
    copies > 1 => kind = "ssh" \/ (kind = "ad" /\ "close" \in cutAt)

(* Every session is closed when the collection is over, whatever ended it, *)
(* except a connection that came up after its attempt was cut, and a       *)
(* credential helper the attempt was cut in.                               *)
SessionsClosed ==
    pc = "done" /\ threads = {} =>
        session \in {"none", "closed"} /\ (leaked => cutAt \intersect {"secret", "connect"} # {})

(* What an attempt holds is typed and bounded, and its session ends closed:*)
(* the finally clauses of the collectors and the orchestrator's retries.   *)
SessionsSound == TypeOK /\ SessionsClosed

(* A collection ends whatever its server does.  SNMP, SSH and UniFi reads  *)
(* are bounded by themselves; a directory can send fresh cookies or empty  *)
(* ranges for ever, and there only wait_for and the bound on retries end   *)
(* it.                                                                     *)
CollectionEnds == <>(pc = "done")
=============================================================================
