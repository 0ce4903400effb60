---------------------- MODULE ProtocolCollectorsProofs ----------------------
(***************************************************************************)
(* Proofs about ProtocolCollectors, for any number of reads, any sizes and *)
(* limits, any number of retries and any cuts: what a collector hands back *)
(* it has in full or says it has not, what is retried has stored nothing,  *)
(* and sessions end closed.                                                *)
(***************************************************************************)
EXTENDS ProtocolCollectors, TLAPS

(* The assumption on the bounds, bound by bound. *)
LEMMA Bounds ==
    /\ NumReads \in Nat /\ NumReads > 0 /\ MaxSize \in Nat /\ Retries \in Nat
    /\ Batch \in Nat /\ Batch > 0 /\ MaxTableRows \in Nat /\ MaxTableRows > 0
    /\ PageSize \in Nat /\ PageSize > 0 /\ MaxPages \in Nat /\ MaxPages > 0
    /\ MaxItems \in Nat /\ MaxItems > 0 /\ MaxEntries \in Nat /\ MaxEntries > 0
BY BoundsAssumption

(* The smallest of two and of three integers. *)
LEMMA MinTwo ==
    ASSUME NEW a \in Int, NEW b \in Int
    PROVE  Min({a, b}) \in {a, b} /\ Min({a, b}) <= a /\ Min({a, b}) <= b
<1>1. \E m \in {a, b} : \A y \in {a, b} : m <= y
  OBVIOUS
<1>2. QED
  BY <1>1 DEF Min

LEMMA MinThree ==
    ASSUME NEW a \in Int, NEW b \in Int, NEW c \in Int
    PROVE  LET m == Min({a, b, c}) IN m \in {a, b, c} /\ m <= a /\ m <= b /\ m <= c
<1>1. \E m \in {a, b, c} : \A y \in {a, b, c} : m <= y
  OBVIOUS
<1>2. QED
  BY <1>1 DEF Min

Working == {"secret", "connect", "read", "persist"}

(* What an attempt is doing, and what it has in hand. *)
PlaceInv ==
    /\ pc \in Working => res = "none"
    /\ pc \in {"close", "ended", "done"} => res # "none"
    /\ pc = "persist" => kind # "ssh"
    /\ kind = "snmp" /\ pc \in {"secret", "read"} => read > 0 /\ remaining > 0
    /\ kind = "snmp" => pc # "connect"
    /\ page < MaxPages

(* A session is open only inside its attempt, and one whose closing was cut*)
(* is in the hands of the thread that closes it.                           *)
SessionInv ==
    /\ session = "open" => pc \in {"read", "persist", "close"}
    /\ pc = "close" => session = "open"
    /\ kind \in {"snmp", "unifi"} => session = "none" /\ threads = {}
    /\ session = "closing" => pc \in {"idle", "ended", "done"}
    /\ session = "closing" /\ pc \in {"ended", "done"} =>
          \E t \in threads : t.call = "close" /\ t.of = attempt
    /\ \A t \in threads :
          /\ t.of \in 1..attempt
          /\ t.call = "connect" => "connect" \in cutAt
          /\ t.call = "close" /\ t.of = attempt => pc \in {"ended", "done"}
    /\ leaked => cutAt \intersect {"secret", "connect"} # {}

(* What a collector other than SSH stores, it stores at its attempt's end, *)
(* and an attempt that has stored is not repeated unless its close was cut.*)
CopyInv ==
    /\ copies <= attempt
    /\ pc = "idle" => copies < attempt
    /\ pc \in Working /\ stored = Nothing => copies < attempt
    /\ kind # "ssh" /\ pc \in Working => stored = Nothing
    /\ kind = "ssh" /\ pc \in Working => \A r \in Reads : r >= read => stored[r] = 0
    /\ kind \in {"snmp", "unifi"} \/ (kind = "ad" /\ "close" \notin cutAt) =>
          /\ copies <= 1
          /\ copies = 1 => pc \in {"close", "ended", "done"} /\ res \in {"returned", "fault"}

Ceiling == Min({MaxItems, MaxPages * PageSize})

(* Of read r, v holds all there is, or the result says it does not, or it  *)
(* is a UniFi resource at its ceiling or ended by the controller.          *)
Kept(v, r) ==
    \/ v[r] = size[r]
    \/ issues \intersect {r, Target} # {}
    \/ kind = "unifi" /\ v[r] \in {given[r], Ceiling}

(* Nothing is lost silently between the first read and the result. *)
LossInv ==
    /\ \A r \in Reads : taken[r] <= size[r]
    /\ pc \in {"secret", "connect"} => taken = Nothing /\ page = 0 /\ read \in {0, 1}
    /\ kind # "ssh" /\ pc = "read" => \A r \in 1 .. read - 1 : Kept(taken, r)
    /\ kind # "ssh" /\ pc = "persist" => \A r \in Reads : Kept(taken, r)
    /\ kind = "ssh" /\ pc = "read" => \A r \in 1 .. read - 1 : Kept(stored, r)
    /\ pc = "read" => \A r \in read + 1 .. NumReads : taken[r] = 0
    /\ kind = "unifi" /\ pc = "read" =>
          \/ page = 0 /\ read = 0
          \/ read > 0 /\ taken[read] = page * PageSize /\ taken[read] <= given[read]
    /\ kind = "ad" /\ pc = "read" /\ read \in Reads \ {GroupRead} => taken[read] < MaxEntries
    /\ res = "returned" => \A r \in Reads : Kept(stored, r)

(* No server gives more than there is. *)
GivenInv == \A r \in Reads : given[r] \in Nat /\ given[r] <= size[r]

CollectorInv == TypeOK /\ PlaceInv /\ SessionInv /\ CopyInv /\ LossInv /\ GivenInv

(* What the target holds and gives does not change. *)
LEMMA GivenStep == CollectorInv /\ [Next]_vars => GivenInv'
<1> SUFFICES ASSUME CollectorInv, [Next]_vars PROVE UNCHANGED <<size, given>>
  BY DEF CollectorInv, GivenInv
<1>1. CASE Work
  BY <1>1 DEF Work, target, Begin, SnmpSecret, SshSecret, AdSecret, UnifiSecret, Secret,
              SshConnect, AdConnect, UnifiLogin, Connects, SshPaging, AdRootDse, UnifiSites,
              FirstCall, SnmpWalk, SnmpFails, SnmpPersist, SshCommand, UnifiPage, UnifiFails,
              UnifiPersist, AdPage, AdRange, AdQueryFails, AdPersist, CloseSession, EndAttempt
<1>2. CASE TimedOut \/ Cancelled \/ ThreadReturns \/ UNCHANGED vars
  BY <1>2 DEF TimedOut, Cancelled, Cut, ThreadReturns, target, vars
<1>3. QED
  BY <1>1, <1>2 DEF Next, Done

(* A bulk response fits the batch, what is left of the budget and what is  *)
(* left of the table, and it is empty only when the table is at its end.   *)
LEMMA SnmpRows ==
    ASSUME CollectorInv, kind = "snmp", pc = "read"
    PROVE  LET rows == Min({Batch, remaining, size[read] - taken[read]})
           IN  /\ rows \in Nat /\ rows <= remaining /\ taken[read] + rows <= size[read]
               /\ rows = 0 => taken[read] = size[read]
<1>1. /\ read \in Reads /\ remaining \in Nat /\ remaining > 0
      /\ size[read] \in Nat /\ taken[read] \in Nat /\ taken[read] <= size[read]
  BY Bounds DEF CollectorInv, TypeOK, PlaceInv, LossInv, Reads
<1> DEFINE left == size[read] - taken[read]
<1>2. left \in Int /\ left >= 0 /\ taken[read] + left = size[read]
  BY <1>1
<1> HIDE DEF left
<1>3. LET rows == Min({Batch, remaining, left})
      IN  rows \in {Batch, remaining, left} /\ rows <= remaining /\ rows <= left
  <2>1. Batch \in Int /\ remaining \in Int
    BY <1>1, Bounds
  <2>2. QED
    BY <1>2, <2>1, MinThree, Zenon
<1> DEFINE rows == Min({Batch, remaining, left})
<1>4. rows \in {Batch, remaining, left} /\ rows <= remaining /\ rows <= left
  BY <1>3
<1> HIDE DEF rows
<1>5. rows \in Nat /\ rows <= remaining /\ taken[read] + rows <= size[read]
  BY <1>1, <1>2, <1>4, Bounds
<1>6. rows = 0 => taken[read] = size[read]
  BY <1>1, <1>2, <1>4, Bounds
<1>7. QED
  BY <1>5, <1>6 DEF rows, left

(* The count of a directory's pages stays below the limit of UniFi's. *)
LEMMA PageTurns == ASSUME CollectorInv, TurnPage PROVE page' \in 0..MaxPages /\ page' < MaxPages
<1>1. page \in Nat /\ page < MaxPages
  BY DEF CollectorInv, TypeOK, PlaceInv
<1>2. QED
  BY <1>1, Bounds DEF TurnPage

(* The attempt goes from place to place with no result until it leaves. *)
LEMMA PlaceStep == CollectorInv /\ [Next]_vars => PlaceInv'
<1> SUFFICES ASSUME CollectorInv, [Next]_vars PROVE PlaceInv'
  OBVIOUS
<1> USE Bounds DEF CollectorInv, PlaceInv, TypeOK, Working, target, outside, Reads
<1>1. CASE Begin
  BY <1>1 DEF Begin
<1>2. CASE SnmpSecret
  BY <1>2 DEF SnmpSecret, Secret
<1>3. CASE SshSecret
  BY <1>3 DEF SshSecret, Secret
<1>4. CASE AdSecret
  BY <1>4 DEF AdSecret, Secret
<1>5. CASE UnifiSecret
  BY <1>5 DEF UnifiSecret, Secret
<1>6. CASE SshConnect
  BY <1>6 DEF SshConnect, Connects
<1>7. CASE AdConnect
  BY <1>7 DEF AdConnect, Connects
<1>8. CASE UnifiLogin
  BY <1>8 DEF UnifiLogin, Connects
<1>9. CASE SshPaging
  BY <1>9 DEF SshPaging, FirstCall, Leave
<1>10. CASE AdRootDse
  BY <1>10 DEF AdRootDse, FirstCall, Leave
<1>11. CASE UnifiSites
  BY <1>11 DEF UnifiSites, FirstCall, Leave
<1>12. CASE SnmpWalk
  <2> DEFINE rows == Min({Batch, remaining, size[read] - taken[read]})
  <2>1. /\ rows \in Nat /\ rows <= remaining /\ taken[read] + rows <= size[read]
        /\ rows = 0 => taken[read] = size[read]
    BY <1>12, SnmpRows DEF SnmpWalk
  <2>2. /\ kind = "snmp" /\ pc = "read"
        /\ IF rows = 0 THEN NextRead(ToPersist) /\ UNCHANGED <<taken, remaining, issues>>
           ELSE /\ taken' = [taken EXCEPT ![read] = @ + rows]
                /\ remaining' = remaining - rows
                /\ IF remaining' = 0
                     THEN ToPersist /\ issues' = issues \union {Target}
                     ELSE UNCHANGED <<pc, res, issues>>
                /\ UNCHANGED <<read, page, seen>>
        /\ UNCHANGED <<target, attempt, stored, copies, session, outside, cutAt>>
    BY <1>12 DEF SnmpWalk
  <2> HIDE DEF rows
  <2>3. CASE rows = 0
    BY <2>2, <2>3 DEF NextRead, ToPersist
  <2>4. CASE rows # 0
    <3>1. /\ kind = "snmp" /\ pc = "read" /\ remaining' = remaining - rows
          /\ UNCHANGED <<kind, read, page>>
      BY <2>2, <2>4
    <3>2. remaining' \in Nat
      BY <2>1, <3>1
    <3>3. (pc' = "persist" \/ (pc' = pc /\ remaining' # 0)) /\ UNCHANGED res
      <4>1. IF remaining' = 0
              THEN pc' = "persist" /\ UNCHANGED res
              ELSE UNCHANGED <<pc, res>>
        BY <2>2, <2>4 DEF ToPersist
      <4>2. QED
        BY <4>1
    <3>4. QED
      BY <3>1, <3>2, <3>3
  <2>5. QED
    BY <2>3, <2>4
<1>13. CASE SnmpFails
  BY <1>13 DEF SnmpFails, Leave
<1>14. CASE SnmpPersist
  BY <1>14 DEF SnmpPersist, Leave
<1>15. CASE SshCommand
  BY <1>15 DEF SshCommand, NextRead, Leave
<1>16. CASE UnifiPage
  <2>1. /\ kind = "unifi" /\ pc = "read" /\ UNCHANGED <<kind, remaining>>
        /\ NextRead(ToPersist) \/ (page + 1 # MaxPages /\ page' = page + 1 /\ UNCHANGED <<pc, res>>)
    BY <1>16 DEF UnifiPage
  <2>2. page' < MaxPages
    BY <2>1 DEF NextRead
  <2>3. pc' \in {"read", "persist"} /\ res' = "none"
    BY <2>1 DEF NextRead, ToPersist
  <2> QED BY <2>1, <2>2, <2>3
<1>17. CASE UnifiFails
  BY <1>17 DEF UnifiFails, NextRead, ToPersist, Leave
<1>18. CASE UnifiPersist
  BY <1>18 DEF UnifiPersist, Leave
<1>19. CASE AdPage
  <2>1. /\ kind = "ad" /\ pc = "read" /\ UNCHANGED <<kind, remaining>>
        /\ NextRead(ToPersist) \/ (TurnPage /\ UNCHANGED <<pc, res>>)
    BY <1>19 DEF AdPage
  <2>2. page' < MaxPages
    BY <2>1, PageTurns DEF NextRead
  <2>3. pc' \in {"read", "persist"} /\ res' = "none"
    BY <2>1 DEF NextRead, ToPersist
  <2> QED BY <2>1, <2>2, <2>3
<1>20. CASE AdRange
  BY <1>20 DEF AdRange, NextRead, ToPersist, TurnPage
<1>21. CASE AdQueryFails
  BY <1>21 DEF AdQueryFails, NextRead, ToPersist, Leave
<1>22. CASE AdPersist
  BY <1>22 DEF AdPersist, Leave
<1>23. CASE CloseSession
  BY <1>23 DEF CloseSession
<1>24. CASE EndAttempt
  BY <1>24 DEF EndAttempt
<1>25. CASE \E reason \in {"timeout", "cancelled"} : Cut(reason)
  BY <1>25 DEF Cut
<1>26. CASE ThreadReturns
  BY <1>26 DEF ThreadReturns
<1>27. CASE UNCHANGED vars
  BY <1>27 DEF vars
<1>28. QED
  BY <1>1, <1>2, <1>3, <1>4, <1>5, <1>6, <1>7, <1>8, <1>9, <1>10, <1>11, <1>12,
     <1>13, <1>14, <1>15, <1>16, <1>17, <1>18, <1>19, <1>20, <1>21, <1>22, <1>23, <1>24,
     <1>25, <1>26, <1>27 DEF Next, Work, TimedOut, Cancelled, Done

(* A session stays with its attempt, or with the thread that closes it. *)
LEMMA SessionStep == CollectorInv /\ [Next]_vars => SessionInv'
<1> SUFFICES ASSUME CollectorInv, [Next]_vars PROVE SessionInv'
  OBVIOUS
<1> USE Bounds DEF CollectorInv, PlaceInv, SessionInv, TypeOK, Working, target, outside, Reads
<1>1. CASE Begin
  BY <1>1 DEF Begin
<1>2. CASE SnmpSecret
  BY <1>2 DEF SnmpSecret, Secret
<1>3. CASE SshSecret
  BY <1>3 DEF SshSecret, Secret
<1>4. CASE AdSecret
  BY <1>4 DEF AdSecret, Secret
<1>5. CASE UnifiSecret
  BY <1>5 DEF UnifiSecret, Secret
<1>6. CASE SshConnect
  BY <1>6 DEF SshConnect, Connects
<1>7. CASE AdConnect
  BY <1>7 DEF AdConnect, Connects
<1>8. CASE UnifiLogin
  BY <1>8 DEF UnifiLogin, Connects
<1>9. CASE SshPaging
  BY <1>9 DEF SshPaging, FirstCall, Leave
<1>10. CASE AdRootDse
  BY <1>10 DEF AdRootDse, FirstCall, Leave
<1>11. CASE UnifiSites
  BY <1>11 DEF UnifiSites, FirstCall, Leave
<1>12. CASE SnmpWalk
  BY <1>12 DEF SnmpWalk, NextRead, ToPersist
<1>13. CASE SnmpFails
  BY <1>13 DEF SnmpFails, Leave
<1>14. CASE SnmpPersist
  BY <1>14 DEF SnmpPersist, Leave
<1>15. CASE SshCommand
  BY <1>15 DEF SshCommand, NextRead, Leave
<1>16. CASE UnifiPage
  BY <1>16 DEF UnifiPage, NextRead, ToPersist
<1>17. CASE UnifiFails
  BY <1>17 DEF UnifiFails, NextRead, ToPersist, Leave
<1>18. CASE UnifiPersist
  BY <1>18 DEF UnifiPersist, Leave
<1>19. CASE AdPage
  BY <1>19 DEF AdPage, NextRead, ToPersist
<1>20. CASE AdRange
  BY <1>20 DEF AdRange, NextRead, ToPersist
<1>21. CASE AdQueryFails
  BY <1>21 DEF AdQueryFails, NextRead, ToPersist, Leave
<1>22. CASE AdPersist
  BY <1>22 DEF AdPersist, Leave
<1>23. CASE CloseSession
  BY <1>23 DEF CloseSession
<1>24. CASE EndAttempt
  <2>1. \A t \in threads : t.of \in 1..attempt
    OBVIOUS
  <2>2. attempt \in Nat /\ attempt' \in {attempt, attempt + 1} /\ UNCHANGED threads
    BY <1>24 DEF EndAttempt
  <2>3. \A t \in threads' : t.of \in 1..attempt' /\ t.of # attempt + 1
    BY <2>1, <2>2
  <2>4. QED
    BY <1>24, <2>3 DEF EndAttempt
<1>25. CASE \E reason \in {"timeout", "cancelled"} : Cut(reason)
  <2> DEFINE now == [call |-> pc, of |-> attempt]
  <2>1. /\ UNCHANGED <<kind, attempt>> /\ cutAt' = cutAt \union {pc}
        /\ threads' = IF kind = "snmp" THEN threads ELSE threads \union {now}
        /\ session' = IF pc = "close" THEN "closing" ELSE session
    BY <1>25 DEF Cut
  <2>2. /\ attempt \in 1..attempt
        /\ \A t \in threads : /\ t.of \in 1..attempt
                              /\ t.call = "connect" => "connect" \in cutAt
                              /\ t.call = "close" /\ t.of = attempt => pc \in {"ended", "done"}
    OBVIOUS
  <2>3. now.call = pc /\ now.of = attempt
    OBVIOUS
  <2>4. /\ kind # "unifi" /\ pc \in {"secret", "connect", "read", "close"}
        /\ pc' = IF pc = "read" /\ session = "open" THEN "close" ELSE "ended"
    BY <1>25 DEF Cut
  <2> HIDE DEF now
  <2>5. \A t \in threads' : /\ t.of \in 1..attempt'
                            /\ t.call = "connect" => "connect" \in cutAt'
                            /\ t.call = "close" /\ t.of = attempt' => pc' \in {"ended", "done"}
    <3>1. TAKE t \in threads'
    <3>2. CASE t \in threads
      BY <2>1, <2>2, <2>4, <3>2
    <3>3. CASE t = now
      BY <2>1, <2>2, <2>3, <2>4, <3>3
    <3>4. QED
      BY <2>1, <3>2, <3>3
  <2>6. leaked' => cutAt' \intersect {"secret", "connect"} # {}
    BY <1>25 DEF Cut
  <2>7. session' = "closing" /\ pc' \in {"ended", "done"} =>
           \E t \in threads' : t.call = "close" /\ t.of = attempt'
    BY <2>1, <2>3, <2>4
  <2>8. /\ session' = "open" => pc' \in {"read", "persist", "close"}
        /\ pc' = "close" => session' = "open"
        /\ kind' \in {"snmp", "unifi"} => session' = "none" /\ threads' = {}
        /\ session' = "closing" => pc' \in {"idle", "ended", "done"}
    BY <2>1, <2>4
  <2>9. QED
    BY <2>5, <2>6, <2>7, <2>8
<1>26. CASE ThreadReturns
  <2>1. PICK t \in threads :
           /\ threads' = threads \ {t}
           /\ leaked' \in IF t.call = "connect" THEN {leaked, TRUE} ELSE {leaked}
           /\ session' = IF t.call = "close" /\ t.of = attempt THEN "closed" ELSE session
    BY <1>26 DEF ThreadReturns
  <2>2. UNCHANGED <<kind, pc, attempt, cutAt>>
    BY <1>26 DEF ThreadReturns, target
  <2>3. session' = "closing" /\ pc' \in {"ended", "done"} =>
           \E u \in threads' : u.call = "close" /\ u.of = attempt'
    BY <2>1, <2>2
  <2>4. leaked' => cutAt' \intersect {"secret", "connect"} # {}
    <3>1. CASE t.call = "connect"
      BY <2>2, <3>1
    <3>2. CASE t.call # "connect"
      BY <2>1, <2>2, <3>2
    <3>3. QED
      BY <3>1, <3>2
  <2>5. \A u \in threads' : /\ u.of \in 1..attempt'
                            /\ u.call = "connect" => "connect" \in cutAt'
                            /\ u.call = "close" /\ u.of = attempt' => pc' \in {"ended", "done"}
    BY <2>1, <2>2
  <2>6. /\ session' = "open" => pc' \in {"read", "persist", "close"}
        /\ pc' = "close" => session' = "open"
        /\ kind' \in {"snmp", "unifi"} => session' = "none" /\ threads' = {}
        /\ session' = "closing" => pc' \in {"idle", "ended", "done"}
    BY <2>1, <2>2
  <2>7. QED
    BY <2>3, <2>4, <2>5, <2>6
<1>27. CASE UNCHANGED vars
  BY <1>27 DEF vars
<1>28. QED
  BY <1>1, <1>2, <1>3, <1>4, <1>5, <1>6, <1>7, <1>8, <1>9, <1>10, <1>11, <1>12,
     <1>13, <1>14, <1>15, <1>16, <1>17, <1>18, <1>19, <1>20, <1>21, <1>22, <1>23, <1>24,
     <1>25, <1>26, <1>27 DEF Next, Work, TimedOut, Cancelled, Done

(* On from a read to the next, or from the last one to what follows it.    *)
LEMMA ToNextRead ==
    ASSUME read \in Reads, pc = "read", NextRead(ToPersist)
    PROVE  /\ page' = 0 /\ seen' = "none" /\ UNCHANGED res
           /\ \/ pc' = "read" /\ read < NumReads /\ read' = read + 1
              \/ pc' = "persist" /\ read = NumReads /\ read' = read
           /\ read' \in Reads
BY Bounds DEF NextRead, ToPersist, Reads

LEMMA ToNextCommand ==
    ASSUME read \in Reads, pc = "read", NextRead(Leave("returned"))
    PROVE  /\ page' = 0 /\ seen' = "none" /\ read' \in Reads
           /\ \/ pc' = "read" /\ read < NumReads /\ read' = read + 1 /\ UNCHANGED res
              \/ /\ pc' = (IF session = "open" THEN "close" ELSE "ended")
                 /\ read = NumReads /\ read' = read /\ res' = "returned"
BY Bounds DEF NextRead, Leave, Reads

(* One page of a directory query that brings so many rows. *)
AdPageOf(rows) ==
    LET got == Min({taken[read] + rows, MaxEntries})
    IN  \/ /\ got >= MaxEntries \/ got = size[read]
           /\ taken' = [taken EXCEPT ![read] = got]
           /\ issues' = IF rows > 0 /\ got >= MaxEntries THEN issues \union {read} ELSE issues
           /\ NextRead(ToPersist)
        \/ /\ got < MaxEntries
           /\ taken' = [taken EXCEPT ![read] = got]
           /\ seen' = "cookie" /\ TurnPage
           /\ UNCHANGED <<issues, read, pc, res>>
        \/ /\ got < MaxEntries /\ seen = "cookie"
           /\ taken' = [taken EXCEPT ![read] = 0]
           /\ issues' = issues \union {read}
           /\ NextRead(ToPersist)

(* A page of a query fits what is left of it and the limit on entries.     *)
LEMMA AdRows ==
    ASSUME CollectorInv, kind = "ad", pc = "read", read \in Reads \ {GroupRead},
           NEW rows \in 0..Min({PageSize, size[read] - taken[read]})
    PROVE  LET got == Min({taken[read] + rows, MaxEntries})
           IN  /\ got \in 0..MaxSize /\ got <= size[read]
               /\ rows = 0 => got < MaxEntries
<1>1. /\ size[read] \in 0..MaxSize /\ taken[read] \in Nat
      /\ taken[read] <= size[read] /\ taken[read] < MaxEntries
  BY Bounds DEF CollectorInv, TypeOK, LossInv
<1> DEFINE left == size[read] - taken[read]
           most == Min({PageSize, left})
           got  == Min({taken[read] + rows, MaxEntries})
<1>2. left \in Int /\ left >= 0 /\ taken[read] + left = size[read]
  BY <1>1
<1>3. rows \in 0..most
  OBVIOUS
<1> HIDE DEF left
<1>4. most \in {PageSize, left} /\ most <= left
  <2>1. PageSize \in Int
    BY Bounds
  <2>2. QED
    BY <1>2, <2>1, MinTwo, Zenon
<1> HIDE DEF most
<1>5. rows \in Nat /\ taken[read] + rows <= size[read]
  BY <1>1, <1>2, <1>3, <1>4, Bounds
<1>6. taken[read] + rows \in Int
  BY <1>1, <1>5
<1>7. /\ got \in {taken[read] + rows, MaxEntries}
      /\ got <= taken[read] + rows /\ got <= MaxEntries
  <2>1. MaxEntries \in Int
    BY Bounds
  <2>2. QED
    BY <1>6, <2>1, MinTwo, Zenon
<1> HIDE DEF got
<1>8. got \in 0..MaxSize /\ got <= size[read] /\ (rows = 0 => got < MaxEntries)
  BY <1>1, <1>5, <1>7, Bounds
<1>9. QED
  BY <1>8 DEF got

(* So many full pages hold no more rows than the most pages do. *)
LEMMA PagesFit ==
    ASSUME NEW p \in Nat, NEW q \in Nat, NEW n \in Nat, p <= q
    PROVE  p * n \in Nat /\ p * n <= q * n /\ (p + 1) * n = p * n + n
<1>1. PICK k \in Nat : q = p + k
  BY q - p \in Nat
<1>2. (p + k) * n = p * n + k * n /\ k * n \in Nat /\ p * n \in Nat
  OBVIOUS
<1>3. (p + 1) * n = p * n + n
  OBVIOUS
<1>4. QED
  BY <1>1, <1>2, <1>3

(* A page adds its rows to those of its resource, up to MaxItems, and it   *)
(* is the last when all are there or the resource is at its ceiling.       *)
LEMMA UnifiPageTakes ==
    ASSUME CollectorInv, UnifiPage
    PROVE  \E got \in 0..MaxSize :
              /\ taken' = [taken EXCEPT ![read] = got] /\ got <= size[read]
              /\ \/ NextRead(ToPersist) /\ got \in {given[read], Ceiling}
                 \/ /\ page + 1 < MaxPages /\ page' = page + 1
                    /\ got = page' * PageSize /\ got <= given[read] /\ UNCHANGED <<read, seen, pc, res>>
<1> DEFINE left == given[read] - taken[read]
           rows == Min({PageSize, left})
           got  == Min({taken[read] + rows, MaxItems})
<1>1. kind = "unifi" /\ pc = "read" /\ read > 0
  BY DEF UnifiPage
<1>2. /\ read \in Reads /\ size[read] \in 0..MaxSize /\ taken[read] \in Nat
      /\ given[read] \in 0..MaxSize /\ given[read] <= size[read]
      /\ taken[read] <= given[read] /\ page \in Nat /\ page + 1 <= MaxPages
      /\ taken[read] = page * PageSize
  BY <1>1, Bounds DEF CollectorInv, TypeOK, LossInv, PlaceInv, GivenInv, Reads
<1>3. /\ taken' = [taken EXCEPT ![read] = got]
      /\ IF got >= MaxItems \/ rows < PageSize \/ page + 1 = MaxPages
           THEN NextRead(ToPersist)
           ELSE page' = page + 1 /\ UNCHANGED <<read, seen, pc, res>>
  BY DEF UnifiPage
<1>4. left \in Int /\ left >= 0 /\ taken[read] + left = given[read]
  BY <1>2
<1> HIDE DEF left
<1>5. rows \in {PageSize, left} /\ rows <= PageSize /\ rows <= left
  <2>1. PageSize \in Int
    BY Bounds
  <2>2. QED
    BY <1>4, <2>1, MinTwo, Zenon
<1> HIDE DEF rows
<1>6. taken[read] + rows \in Int
  BY <1>2, <1>4, <1>5, Bounds
<1>7. /\ got \in {taken[read] + rows, MaxItems}
      /\ got <= taken[read] + rows /\ got <= MaxItems
  <2>1. MaxItems \in Int
    BY Bounds
  <2>2. QED
    BY <1>6, <2>1, MinTwo, Zenon
<1> HIDE DEF got
<1>8. /\ got \in 0..MaxSize /\ got <= size[read] /\ got <= given[read] /\ got <= taken[read] + PageSize
      /\ got < MaxItems /\ rows < PageSize => got = given[read]
      /\ got < MaxItems /\ rows >= PageSize => got = taken[read] + PageSize
  BY <1>2, <1>4, <1>5, <1>7, Bounds
<1>9. CASE got >= MaxItems \/ rows < PageSize \/ page + 1 = MaxPages
  <2> DEFINE most == MaxPages * PageSize
  <2>1. /\ most \in Int /\ taken[read] + PageSize <= most
        /\ page + 1 = MaxPages => taken[read] + PageSize = most
    <3>1. (page + 1) * PageSize = page * PageSize + PageSize
      BY <1>2, Bounds, PagesFit
    <3>2. (page + 1) * PageSize <= MaxPages * PageSize /\ MaxPages * PageSize \in Nat
      <4>1. page + 1 \in Nat /\ MaxPages \in Nat /\ PageSize \in Nat
        BY <1>2, Bounds
      <4>2. QED
        BY <1>2, <4>1, PagesFit
    <3>3. QED
      BY <1>2, <3>1, <3>2
  <2>2. Ceiling \in {MaxItems, most} /\ Ceiling <= MaxItems /\ Ceiling <= most
    <3>1. MaxItems \in Int
      BY Bounds
    <3>2. QED
      BY <2>1, <3>1, MinTwo, Zenon DEF Ceiling
  <2> HIDE DEF most
  <2>3. got \in {given[read], Ceiling}
    <3>1. CASE got >= MaxItems
      BY <1>2, <1>7, <1>8, <2>1, <2>2, <3>1, Bounds
    <3>2. CASE got < MaxItems /\ rows < PageSize
      BY <1>8, <3>2
    <3>3. CASE got < MaxItems /\ rows >= PageSize /\ page + 1 = MaxPages
      BY <1>2, <1>8, <2>1, <2>2, <3>3, Bounds
    <3>4. QED
      BY <1>4, <1>5, <1>8, <1>9, <3>1, <3>2, <3>3, Bounds
  <2>4. QED
    BY <1>3, <1>8, <1>9, <2>3
<1>10. CASE ~(got >= MaxItems \/ rows < PageSize \/ page + 1 = MaxPages)
  <2>1. got = taken[read] + PageSize
    BY <1>4, <1>5, <1>8, <1>10, Bounds
  <2>2. page + 1 < MaxPages /\ page' = page + 1 /\ UNCHANGED <<read, seen, pc, res>>
    BY <1>2, <1>3, <1>10, Bounds
  <2>3. (page + 1) * PageSize = page * PageSize + PageSize
    BY <1>2, Bounds, PagesFit
  <2>4. got = page' * PageSize
    BY <1>2, <2>1, <2>2, <2>3
  <2>5. QED
    BY <1>3, <1>8, <2>2, <2>4
<1>11. QED
  BY <1>9, <1>10

(* Every step keeps the types and the bounds. *)
LEMMA TypeStep == CollectorInv /\ [Next]_vars => TypeOK'
<1> SUFFICES ASSUME CollectorInv, [Next]_vars PROVE TypeOK'
  OBVIOUS
<1> USE Bounds DEF CollectorInv, TypeOK, target, outside
<1>1. CASE Begin
  BY <1>1 DEF Begin, Nothing, Reads
<1>2. CASE SnmpSecret
  BY <1>2 DEF SnmpSecret, Secret
<1>3. CASE SshSecret
  BY <1>3 DEF SshSecret, Secret
<1>4. CASE AdSecret
  BY <1>4 DEF AdSecret, Secret
<1>5. CASE UnifiSecret
  BY <1>5 DEF UnifiSecret, Secret
<1>6. CASE SshConnect
  BY <1>6 DEF SshConnect, Connects
<1>7. CASE AdConnect
  BY <1>7 DEF AdConnect, Connects
<1>8. CASE UnifiLogin
  BY <1>8 DEF UnifiLogin, Connects
<1>9. CASE SshPaging
  BY <1>9 DEF SshPaging, FirstCall, Leave
<1>10. CASE AdRootDse
  BY <1>10 DEF AdRootDse, FirstCall, Leave
<1>11. CASE UnifiSites
  BY <1>11 DEF UnifiSites, FirstCall, Leave
<1>12. CASE SnmpWalk
  <2> DEFINE rows == Min({Batch, remaining, size[read] - taken[read]})
  <2>1. /\ rows \in Nat /\ rows <= remaining /\ taken[read] + rows <= size[read]
        /\ rows = 0 => taken[read] = size[read]
    BY <1>12, SnmpRows DEF SnmpWalk
  <2>2. /\ kind = "snmp" /\ pc = "read"
        /\ IF rows = 0 THEN NextRead(ToPersist) /\ UNCHANGED <<taken, remaining, issues>>
           ELSE /\ taken' = [taken EXCEPT ![read] = @ + rows]
                /\ remaining' = remaining - rows
                /\ IF remaining' = 0
                     THEN ToPersist /\ issues' = issues \union {Target}
                     ELSE UNCHANGED <<pc, res, issues>>
                /\ UNCHANGED <<read, page, seen>>
        /\ UNCHANGED <<target, attempt, stored, copies, session, outside, cutAt>>
    BY <1>12 DEF SnmpWalk
  <2> HIDE DEF rows
  <2>3. taken \in [Reads -> 0..MaxSize] /\ size \in [Reads -> 0..MaxSize] /\ read \in Reads
    BY <2>2 DEF CollectorInv, PlaceInv, Reads
  <2>4. taken' \in [Reads -> 0..MaxSize]
    <3>1. taken[read] + rows \in 0..MaxSize
      <4>1. taken[read] \in 0..MaxSize /\ size[read] \in 0..MaxSize
        BY <2>3
      <4>2. QED
        BY <2>1, <4>1
    <3>2. taken' = taken \/ taken' = [taken EXCEPT ![read] = taken[read] + rows]
      BY <2>2
    <3>3. QED
      BY <2>3, <3>1, <3>2
  <2>5. remaining' \in 0..MaxTableRows
    BY <2>1, <2>2
  <2>6. /\ read' \in 0..NumReads /\ page' \in 0..MaxPages /\ seen' \in {"cookie", "none"}
        /\ pc' \in {"read", "persist"} /\ UNCHANGED res
    <3>1. CASE rows = 0
      BY <2>2, <2>3, <3>1, ToNextRead
    <3>2. CASE rows # 0
      BY <2>2, <3>2 DEF ToPersist
    <3>3. QED
      BY <3>1, <3>2
  <2>7. issues' \subseteq 0..NumReads
    <3>1. issues' = issues \/ issues' = issues \union {Target}
      BY <2>2
    <3>2. Target \in 0..NumReads
      BY DEF Target
    <3>3. QED
      BY <3>1, <3>2
  <2>8. QED
    BY <2>2, <2>4, <2>5, <2>6, <2>7
<1>13. CASE SnmpFails
  BY <1>13 DEF SnmpFails, Leave
<1>14. CASE SnmpPersist
  <2>1. PICK bad \in SUBSET {r \in Reads : taken[r] > 0} :
          LET facts == [r \in Reads |-> IF r \in bad THEN taken[r] - 1 ELSE taken[r]]
          IN  \/ /\ stored' = facts /\ issues' = issues \union bad /\ Leave("returned")
              \/ /\ \E last \in Reads :
                       stored' = [r \in Reads |-> IF r < last THEN facts[r] ELSE 0]
                 /\ Leave("fault") /\ UNCHANGED issues
    BY <1>14 DEF SnmpPersist
  <2> DEFINE facts == [r \in Reads |-> IF r \in bad THEN taken[r] - 1 ELSE taken[r]]
  <2>2. taken \in [Reads -> 0..MaxSize] /\ \A r \in bad : taken[r] > 0
    BY <2>1
  <2>3. facts \in [Reads -> 0..MaxSize]
    <3>1. \A r \in Reads : (IF r \in bad THEN taken[r] - 1 ELSE taken[r]) \in 0..MaxSize
      <4>1. TAKE r \in Reads
      <4>2. taken[r] \in 0..MaxSize
        BY <2>2
      <4>3. QED
        BY <2>2, <4>2
    <3>2. QED
      BY <3>1
  <2>4. \/ stored' = facts
        \/ \E last \in Reads : stored' = [r \in Reads |-> IF r < last THEN facts[r] ELSE 0]
    BY <2>1
  <2> HIDE DEF facts
  <2>5. stored' \in [Reads -> 0..MaxSize]
    <3>1. \A r \in Reads : facts[r] \in 0..MaxSize /\ 0 \in 0..MaxSize
      BY <2>3
    <3>2. QED
      BY <2>3, <2>4, <3>1
  <2>6. issues' \subseteq 0..NumReads
    <3>1. bad \subseteq 0..NumReads
      BY DEF Reads
    <3>2. QED
      BY <2>1, <3>1
  <2>7. copies' \in {copies, copies + 1} /\ attempt' = attempt
    BY <1>14 DEF SnmpPersist
  <2>8. copies < attempt
    BY <1>14 DEF SnmpPersist, CollectorInv, CopyInv, Working
  <2>9. copies' \in 0..attempt'
    BY <2>7, <2>8
  <2>10. pc' \in {"close", "ended"} /\ res' \in {"returned", "fault"}
    BY <2>1 DEF Leave
  <2>11. UNCHANGED <<kind, size, given, remaining, attempt, read, taken, page, seen, session,
                     threads, leaked, cutAt>>
    BY <1>14 DEF SnmpPersist
  <2>12. QED
    BY <2>5, <2>6, <2>9, <2>10, <2>11
<1>15. CASE SshCommand
  <2>1. read \in Reads /\ size[read] \in 0..MaxSize
    BY <1>15 DEF SshCommand, Reads
  <2>2. stored' \in [Reads -> 0..MaxSize]
    BY <1>15, <2>1 DEF SshCommand
  <2>3. copies' \in 0..attempt'
    BY <1>15 DEF SshCommand, CollectorInv, CopyInv, Working
  <2>4. issues' \subseteq 0..NumReads
    BY <1>15, <2>1 DEF SshCommand, Reads
  <2>5. /\ read' \in 0..NumReads /\ page' \in 0..MaxPages /\ seen' \in {"cookie", "none"}
        /\ pc' \in {"read", "close", "ended"}
        /\ res' \in {res, "returned", "auth", "retry", "fault"}
    <3>1. CASE NextRead(Leave("returned"))
      BY <1>15, <2>1, <3>1, ToNextCommand DEF SshCommand
    <3>2. CASE UNCHANGED <<read, page, seen>> /\ \E error \in {"auth", "retry", "fault"} : Leave(error)
      BY <3>2 DEF Leave
    <3>3. QED
      BY <1>15, <3>1, <3>2 DEF SshCommand
  <2>6. QED
    BY <1>15, <2>2, <2>3, <2>4, <2>5 DEF SshCommand
<1>16. CASE UnifiPage
  <2>1. PICK got \in 0..MaxSize :
           /\ taken' = [taken EXCEPT ![read] = got]
           /\ \/ NextRead(ToPersist)
              \/ page + 1 < MaxPages /\ page' = page + 1 /\ UNCHANGED <<read, seen, pc, res>>
    BY <1>16, UnifiPageTakes
  <2>2. /\ kind = "unifi" /\ pc = "read" /\ read \in Reads
        /\ UNCHANGED <<kind, size, given, remaining, attempt, issues, stored, copies, session,
                       threads, leaked, cutAt>>
    BY <1>16 DEF UnifiPage, Reads
  <2>3. taken' \in [Reads -> 0..MaxSize]
    <3>1. taken \in [Reads -> 0..MaxSize]
      OBVIOUS
    <3>2. QED
      BY <2>1, <3>1
  <2>4. /\ read' \in 0..NumReads /\ page' \in 0..MaxPages /\ seen' \in {"cookie", "none"}
        /\ pc' \in {"read", "persist"} /\ UNCHANGED res
    <3>1. CASE NextRead(ToPersist)
      BY <2>2, <3>1, ToNextRead DEF Reads
    <3>2. CASE page + 1 < MaxPages /\ page' = page + 1 /\ UNCHANGED <<read, seen, pc, res>>
      BY <2>2, <3>2
    <3>3. QED
      BY <2>1, <3>1, <3>2
  <2>5. QED
    BY <2>2, <2>3, <2>4
<1>17. CASE UnifiFails
  <2>1. read \in Reads /\ 0 \in 0..MaxSize
    BY <1>17 DEF UnifiFails, Reads
  <2>2. taken' \in [Reads -> 0..MaxSize]
    BY <1>17, <2>1 DEF UnifiFails
  <2>3. issues' \subseteq 0..NumReads
    BY <1>17 DEF UnifiFails
  <2>4. /\ read' \in 0..NumReads /\ page' \in 0..MaxPages /\ seen' \in {"cookie", "none"}
        /\ pc' \in {"read", "persist", "close", "ended"} /\ res' \in {res, "retry"}
    <3>1. CASE NextRead(ToPersist)
      BY <1>17, <2>1, <3>1, ToNextRead DEF UnifiFails
    <3>2. CASE UNCHANGED <<read, page, seen>> /\ Leave("retry")
      BY <3>2 DEF Leave
    <3>3. QED
      BY <1>17, <3>1, <3>2 DEF UnifiFails
  <2>5. UNCHANGED <<kind, size, given, remaining, attempt, stored, copies, session, threads, leaked, cutAt>>
    BY <1>17 DEF UnifiFails
  <2>6. QED
    BY <2>2, <2>3, <2>4, <2>5
<1>18. CASE UnifiPersist
  <2>1. copies < attempt
    BY <1>18 DEF UnifiPersist, CollectorInv, CopyInv, Working
  <2>2. QED
    BY <1>18, <2>1 DEF UnifiPersist, Leave
<1>19. CASE AdPage
  <2>1. read \in Reads /\ 0 \in 0..MaxSize /\ kind = "ad" /\ pc = "read"
    BY <1>19 DEF AdPage
  <2>2. PICK rows \in 0..Min({PageSize, size[read] - taken[read]}) : AdPageOf(rows)
    BY <1>19 DEF AdPage, AdPageOf
  <2> DEFINE got == Min({taken[read] + rows, MaxEntries})
  <2>3. got \in 0..MaxSize
    BY <1>19, AdRows DEF AdPage
  <2>4. /\ \/ taken' = [taken EXCEPT ![read] = got]
           \/ taken' = [taken EXCEPT ![read] = 0]
        /\ issues' \in {issues, issues \union {read}}
        /\ \/ NextRead(ToPersist)
           \/ UNCHANGED <<read, pc, res>> /\ TurnPage /\ seen' = "cookie"
    BY <2>2 DEF AdPageOf
  <2> HIDE DEF got
  <2>5. taken' \in [Reads -> 0..MaxSize]
    <3>1. taken \in [Reads -> 0..MaxSize]
      OBVIOUS
    <3>2. QED
      BY <2>1, <2>3, <2>4, <3>1
  <2>6. issues' \subseteq 0..NumReads
    BY <2>1, <2>4 DEF Reads
  <2>7. /\ read' \in 0..NumReads /\ page' \in 0..MaxPages /\ seen' \in {"cookie", "none"}
        /\ pc' \in {"read", "persist"} /\ UNCHANGED res
    <3>1. CASE NextRead(ToPersist)
      BY <2>1, <3>1, ToNextRead
    <3>2. CASE UNCHANGED <<read, pc, res>> /\ TurnPage /\ seen' = "cookie"
      BY <2>1, <3>2, PageTurns
    <3>3. QED
      BY <2>4, <3>1, <3>2
  <2>8. UNCHANGED <<kind, size, given, remaining, attempt, stored, copies, session, threads, leaked, cutAt>>
    BY <1>19 DEF AdPage
  <2>9. QED
    BY <2>5, <2>6, <2>7, <2>8
<1>20. CASE AdRange
  <2>1. read \in Reads /\ size[read] \in 0..MaxSize /\ taken \in [Reads -> 0..MaxSize]
    <3>1. read = NumReads
      BY <1>20 DEF AdRange, GroupRead
    <3>2. read \in Reads
      BY <3>1 DEF Reads
    <3> QED BY <3>2
  <2>2. taken[read] < Min({size[read], MaxEntries}) => taken[read] + 1 \in 0..MaxSize
    <3>1. size[read] \in Int /\ MaxEntries \in Int
      BY <2>1
    <3>2. /\ Min({size[read], MaxEntries}) \in {size[read], MaxEntries}
          /\ Min({size[read], MaxEntries}) <= size[read]
      BY <3>1, MinTwo, Zenon
    <3> DEFINE least == Min({size[read], MaxEntries})
    <3>3. least \in Int /\ least <= size[read]
      BY <3>1, <3>2
    <3> HIDE DEF least
    <3>4. taken[read] \in 0..MaxSize
      BY <2>1
    <3>5. taken[read] < least => taken[read] + 1 \in 0..MaxSize
      BY <2>1, <3>3, <3>4
    <3>6. QED
      BY <3>5 DEF least
  <2>3. taken' \in [Reads -> 0..MaxSize]
    <3>1. \/ UNCHANGED taken
          \/ /\ taken[read] < Min({size[read], MaxEntries})
             /\ taken' = [taken EXCEPT ![read] = taken[read] + 1]
      BY <1>20 DEF AdRange
    <3>2. QED
      BY <2>1, <2>2, <3>1
  <2>4. issues' \subseteq 0..NumReads
    BY <1>20 DEF AdRange
  <2>5. /\ read' \in 0..NumReads /\ page' \in 0..MaxPages /\ seen' \in {"cookie", "none"}
        /\ pc' \in {"read", "persist"} /\ UNCHANGED res
    <3>1. CASE NextRead(ToPersist)
      BY <1>20, <2>1, <3>1, ToNextRead DEF AdRange
    <3>2. CASE UNCHANGED <<seen, read, pc, res>> /\ (UNCHANGED page \/ TurnPage)
      BY <1>20, <3>2, PageTurns DEF AdRange
    <3>3. QED
      BY <1>20, <3>1, <3>2 DEF AdRange
  <2>6. QED
    BY <1>20, <2>3, <2>4, <2>5 DEF AdRange
<1>21. CASE AdQueryFails
  <2>1. read \in Reads /\ 0 \in 0..MaxSize
    BY <1>21 DEF AdQueryFails, Reads
  <2>2. taken' \in [Reads -> 0..MaxSize]
    BY <1>21, <2>1 DEF AdQueryFails
  <2>3. issues' \subseteq 0..NumReads
    BY <1>21 DEF AdQueryFails
  <2>4. /\ read' \in 0..NumReads /\ page' \in 0..MaxPages /\ seen' \in {"cookie", "none"}
        /\ pc' \in {"read", "persist", "close", "ended"} /\ res' \in {res, "auth", "retry"}
    <3>1. CASE NextRead(ToPersist)
      BY <1>21, <2>1, <3>1, ToNextRead DEF AdQueryFails
    <3>2. CASE UNCHANGED <<read, page, seen>> /\ \E error \in {"auth", "retry"} : Leave(error)
      BY <3>2 DEF Leave
    <3>3. QED
      BY <1>21, <3>1, <3>2 DEF AdQueryFails
  <2>5. QED
    BY <1>21, <2>2, <2>3, <2>4 DEF AdQueryFails
<1>22. CASE AdPersist
  <2>1. copies < attempt
    BY <1>22 DEF AdPersist, CollectorInv, CopyInv, Working
  <2>2. QED
    BY <1>22, <2>1 DEF AdPersist, Leave
<1>23. CASE CloseSession
  BY <1>23 DEF CloseSession
<1>24. CASE EndAttempt
  <2>1. attempt \in Nat /\ copies \in Nat /\ copies <= attempt
    OBVIOUS
  <2>2. attempt' \in 1..Retries + 1 /\ copies' \in 0..attempt'
    BY <1>24, <2>1 DEF EndAttempt
  <2>3. pc' \in {"idle", "done"}
    BY <1>24 DEF EndAttempt
  <2>4. UNCHANGED <<kind, size, given, remaining, read, taken, page, seen, issues, stored,
                    session, threads, leaked, cutAt, res>>
    BY <1>24 DEF EndAttempt
  <2>5. QED
    BY <2>2, <2>3, <2>4
<1>25. CASE \E reason \in {"timeout", "cancelled"} : Cut(reason)
  BY <1>25 DEF Cut
<1>26. CASE ThreadReturns
  BY <1>26 DEF ThreadReturns
<1>27. CASE UNCHANGED vars
  BY <1>27 DEF vars
<1>28. QED
  BY <1>1, <1>2, <1>3, <1>4, <1>5, <1>6, <1>7, <1>8, <1>9, <1>10, <1>11, <1>12,
     <1>13, <1>14, <1>15, <1>16, <1>17, <1>18, <1>19, <1>20, <1>21, <1>22, <1>23, <1>24,
     <1>25, <1>26, <1>27 DEF Next, Work, TimedOut, Cancelled, Done

(* What has stored is not tried again, but for SSH and a cut close. *)
LEMMA CopyStep == CollectorInv /\ [Next]_vars => CopyInv'
<1> SUFFICES ASSUME CollectorInv, [Next]_vars PROVE CopyInv'
  OBVIOUS
<1> USE Bounds DEF CollectorInv, PlaceInv, CopyInv, TypeOK, Working, target, outside
<1>1. CASE Begin
  BY <1>1 DEF Begin, Nothing
<1>2. CASE SnmpSecret
  BY <1>2 DEF SnmpSecret, Secret
<1>3. CASE SshSecret
  BY <1>3 DEF SshSecret, Secret
<1>4. CASE AdSecret
  BY <1>4 DEF AdSecret, Secret
<1>5. CASE UnifiSecret
  BY <1>5 DEF UnifiSecret, Secret
<1>6. CASE SshConnect
  BY <1>6 DEF SshConnect, Connects
<1>7. CASE AdConnect
  BY <1>7 DEF AdConnect, Connects
<1>8. CASE UnifiLogin
  BY <1>8 DEF UnifiLogin, Connects
<1>9. CASE SshPaging
  BY <1>9 DEF SshPaging, FirstCall, Leave, Reads
<1>10. CASE AdRootDse
  BY <1>10 DEF AdRootDse, FirstCall, Leave
<1>11. CASE UnifiSites
  BY <1>11 DEF UnifiSites, FirstCall, Leave
<1>12. CASE SnmpWalk
  BY <1>12 DEF SnmpWalk, NextRead, ToPersist
<1>13. CASE SnmpFails
  BY <1>13 DEF SnmpFails, Leave
<1>14. CASE SnmpPersist
  BY <1>14 DEF SnmpPersist, Leave
<1>15. CASE SshCommand
  <2>1. /\ kind = "ssh" /\ pc = "read" /\ read > 0 /\ read \in Reads
        /\ UNCHANGED <<kind, attempt, cutAt>>
        /\ copies' = IF stored = Nothing /\ stored' # Nothing THEN copies + 1 ELSE copies
    BY <1>15 DEF SshCommand, Reads
  <2>2. stored[read] = 0 /\ \A r \in Reads : r >= read => stored[r] = 0
    BY <2>1
  <2>3. stored' = stored \/ stored' = [stored EXCEPT ![read] = size[read]]
    BY <1>15 DEF SshCommand
  <2>4. stored \in [Reads -> 0..MaxSize] /\ read \in Int /\ \A r \in Reads : r \in Int
    BY DEF Reads
  <2>5. stored' = Nothing => stored = Nothing
    <3>1. SUFFICES ASSUME stored' = Nothing PROVE \A r \in Reads : stored[r] = 0
      BY <2>4 DEF Nothing
    <3>2. TAKE r \in Reads
    <3>3. stored'[r] = 0
      BY <3>1 DEF Nothing
    <3>4. QED
      BY <2>2, <2>3, <2>4, <3>3
  <2>6. /\ pc' = "read" => read' \in {read, read + 1}
        /\ pc' \in {"read", "close", "ended"}
        /\ (pc' = "read" /\ read' = read) => stored' = stored
    <3>1. CASE NextRead(Leave("returned"))
      BY <2>1, <2>4, <3>1, ToNextCommand
    <3>2. CASE UNCHANGED <<read, stored>> /\ \E error \in {"auth", "retry", "fault"} : Leave(error)
      BY <3>2 DEF Leave
    <3>3. QED
      BY <1>15, <3>1, <3>2 DEF SshCommand
  <2>7. pc' = "read" => \A r \in Reads : r >= read' => stored'[r] = 0
    <3>1. SUFFICES ASSUME pc' = "read", NEW r \in Reads, r >= read' PROVE stored'[r] = 0
      OBVIOUS
    <3>2. CASE read' = read
      BY <2>2, <2>6, <3>1, <3>2
    <3>3. CASE read' = read + 1
      <4>1. r >= read /\ r # read
        BY <2>4, <3>1, <3>3
      <4>2. QED
        BY <2>2, <2>3, <2>4, <4>1
    <3>4. QED
      BY <2>6, <3>1, <3>2, <3>3
  <2>8. copies' <= attempt' /\ (pc' = "read" /\ stored' = Nothing => copies' < attempt')
    <3>1. stored = Nothing => copies < attempt
      BY <2>1
    <3>2. copies \in Nat /\ attempt \in Nat /\ copies <= attempt
      OBVIOUS
    <3>3. QED
      BY <2>1, <2>5, <3>1, <3>2
  <2>9. QED
    BY <2>1, <2>6, <2>7, <2>8
<1>16. CASE UnifiPage
  BY <1>16 DEF UnifiPage, NextRead, ToPersist
<1>17. CASE UnifiFails
  BY <1>17 DEF UnifiFails, NextRead, ToPersist, Leave
<1>18. CASE UnifiPersist
  BY <1>18 DEF UnifiPersist, Leave
<1>19. CASE AdPage
  BY <1>19 DEF AdPage, NextRead, ToPersist
<1>20. CASE AdRange
  BY <1>20 DEF AdRange, NextRead, ToPersist
<1>21. CASE AdQueryFails
  BY <1>21 DEF AdQueryFails, NextRead, ToPersist, Leave
<1>22. CASE AdPersist
  BY <1>22 DEF AdPersist, Leave
<1>23. CASE CloseSession
  BY <1>23 DEF CloseSession
<1>24. CASE EndAttempt
  BY <1>24 DEF EndAttempt
<1>25. CASE \E reason \in {"timeout", "cancelled"} : Cut(reason)
  BY <1>25 DEF Cut, SessionInv
<1>26. CASE ThreadReturns
  BY <1>26 DEF ThreadReturns
<1>27. CASE UNCHANGED vars
  BY <1>27 DEF vars
<1>28. QED
  BY <1>1, <1>2, <1>3, <1>4, <1>5, <1>6, <1>7, <1>8, <1>9, <1>10, <1>11, <1>12,
     <1>13, <1>14, <1>15, <1>16, <1>17, <1>18, <1>19, <1>20, <1>21, <1>22, <1>23, <1>24,
     <1>25, <1>26, <1>27 DEF Next, Work, TimedOut, Cancelled, Done

(* When a read is over and all of it is there, or its loss is disclosed, or*)
(* it is a resource at its ceiling, the same holds of all reads so far.    *)
LEMMA ReadKept ==
    ASSUME pc = "read", read \in Reads, taken \in [Reads -> 0..MaxSize],
           \A r \in 1 .. read - 1 : Kept(taken, r),
           \A r \in read + 1 .. NumReads : taken[r] = 0,
           NextRead(ToPersist), UNCHANGED <<kind, size, given>>, issues \subseteq issues',
           \A r \in Reads : r # read => taken'[r] = taken[r],
           \/ taken'[read] = size[read]
           \/ issues' \intersect {read, Target} # {}
           \/ kind = "unifi" /\ taken'[read] \in {given[read], Ceiling}
    PROVE  /\ pc' = "read" => /\ \A r \in 1 .. read' - 1 : Kept(taken, r)'
                              /\ \A r \in read' .. NumReads : taken'[r] = 0
           /\ pc' = "persist" => \A r \in Reads : Kept(taken, r)'
<1>1. read \in Int /\ NumReads \in Int /\ Reads = 1..NumReads
  BY Bounds DEF Reads
<1>2. \A r \in 1 .. read - 1 : Kept(taken, r)'
  <2>1. TAKE r \in 1 .. read - 1
  <2>2. taken'[r] = taken[r]
    BY <1>1
  <2>3. Kept(taken, r)
    OBVIOUS
  <2>4. QED
    BY <2>2, <2>3 DEF Kept
<1>3. \A r \in {read} : Kept(taken, r)'
  BY DEF Kept
<1>4. QED
  BY <1>1, <1>2, <1>3, ToNextRead

(* A step that changes no data, and that goes no further than into the     *)
(* first read or out of the coroutine, discloses as much as before.        *)
LEMMA StaticStep ==
    ASSUME CollectorInv, UNCHANGED <<kind, size, given, issues, taken, stored, page, read>>,
           \/ pc' = pc
           \/ pc' \in {"close", "ended", "done", "idle"}
           \/ pc \in {"secret", "connect"} /\ pc' \in {"connect", "read"},
           res' = "returned" => res = "returned"
    PROVE  LossInv'
<1> USE Bounds
<1>1. \A r : (Kept(taken, r)' <=> Kept(taken, r)) /\ (Kept(stored, r)' <=> Kept(stored, r))
  BY DEF Kept
<1>2. LossInv
  BY DEF CollectorInv
<1>3. pc' = "read" => pc = "read" \/ (taken = Nothing /\ page = 0 /\ read \in {0, 1})
  BY <1>2 DEF LossInv
<1>4. pc' \in {"secret", "connect"} => pc \in {"secret", "connect"}
  OBVIOUS
<1>5. /\ kind' # "ssh" /\ pc' = "read" => \A r \in 1 .. read' - 1 : Kept(taken, r)'
      /\ kind' = "ssh" /\ pc' = "read" => \A r \in 1 .. read' - 1 : Kept(stored, r)'
  <2>1. CASE pc = "read"
    BY <1>1, <1>2, <2>1 DEF LossInv
  <2>2. CASE pc # "read"
    BY <1>3, <2>2
  <2>3. QED
    BY <2>1, <2>2
<1>6. kind' # "ssh" /\ pc' = "persist" => \A r \in Reads : Kept(taken, r)'
  BY <1>1, <1>2 DEF LossInv
<1>7. res' = "returned" => \A r \in Reads : Kept(stored, r)'
  BY <1>1, <1>2 DEF LossInv
<1>8. CASE pc' = "read"
  <2>1. \A r \in read' + 1 .. NumReads : taken'[r] = 0
    BY <1>2, <1>3, <1>8 DEF LossInv, Nothing, Reads
  <2>2. kind' = "unifi" =>
          \/ page' = 0 /\ read' = 0
          \/ read' > 0 /\ taken'[read'] = page' * PageSize /\ taken'[read'] <= given'[read']
    <3>1. CASE pc = "read"
      BY <1>2, <1>8, <3>1 DEF LossInv
    <3>2. CASE taken = Nothing /\ page = 0 /\ read \in {0, 1}
      <4>1. page' * PageSize = 0
        BY <3>2
      <4>2. read = 1 => taken'[read'] = 0 /\ 0 <= given'[read']
        BY <3>2 DEF Nothing, Reads, CollectorInv, GivenInv
      <4>3. QED
        BY <3>2, <4>1, <4>2
    <3>3. QED
      BY <1>3, <1>8, <3>1, <3>2
  <2>3. kind' = "ad" /\ read' \in Reads \ {GroupRead} => taken'[read'] < MaxEntries
    <3>1. CASE pc = "read"
      BY <1>2, <3>1 DEF LossInv
    <3>2. CASE taken = Nothing
      BY <3>2 DEF Nothing
    <3>3. QED
      BY <1>3, <1>8, <3>1, <3>2
  <2>4. \A r \in Reads : taken'[r] <= size'[r]
    BY <1>2 DEF LossInv
  <2>5. QED
    BY <1>5, <1>7, <1>8, <2>1, <2>2, <2>3, <2>4 DEF LossInv
<1>9. CASE pc' # "read"
  BY <1>2, <1>4, <1>6, <1>7, <1>9 DEF LossInv
<1>10. QED
  BY <1>8, <1>9

(* The end of a read, its loss accounted for. *)
LEMMA ReadOver ==
    ASSUME CollectorInv, pc = "read", kind # "ssh", read \in Reads,
           NextRead(ToPersist), UNCHANGED <<kind, size, given, stored>>, issues \subseteq issues',
           \A r \in Reads : taken'[r] <= size[r] /\ (r # read => taken'[r] = taken[r]),
           \/ taken'[read] = size[read]
           \/ issues' \intersect {read, Target} # {}
           \/ kind = "unifi" /\ taken'[read] \in {given[read], Ceiling}
    PROVE  LossInv'
<1>1. /\ taken \in [Reads -> 0..MaxSize] /\ res = "none"
      /\ \A r \in 1 .. read - 1 : Kept(taken, r)
      /\ \A r \in read + 1 .. NumReads : taken[r] = 0
  BY DEF CollectorInv, TypeOK, PlaceInv, LossInv, Working
<1>2. /\ pc' = "read" => /\ \A r \in 1 .. read' - 1 : Kept(taken, r)'
                         /\ \A r \in read' .. NumReads : taken'[r] = 0
      /\ pc' = "persist" => \A r \in Reads : Kept(taken, r)'
  BY <1>1, ReadKept
<1>3. page' = 0 /\ read' \in Reads /\ res' = "none" /\ pc' \in {"read", "persist"}
  BY <1>1, ToNextRead
<1>4. read' \in Int /\ read' > 0 /\ NumReads \in Int /\ read' <= NumReads
  BY <1>3, Bounds DEF Reads
<1>5. pc' = "read" => taken'[read'] = 0 /\ \A r \in read' + 1 .. NumReads : taken'[r] = 0
  <2>1. SUFFICES ASSUME pc' = "read"
                 PROVE  taken'[read'] = 0 /\ \A r \in read' + 1 .. NumReads : taken'[r] = 0
    OBVIOUS
  <2>2. \A r \in read' .. NumReads : taken'[r] = 0
    BY <1>2, <2>1
  <2>3. read' \in read' .. NumReads /\ \A r \in read' + 1 .. NumReads : r \in read' .. NumReads
    <3> DEFINE first == read'
    <3>1. first \in Int /\ NumReads \in Int /\ first <= NumReads
      BY <1>4
    <3> HIDE DEF first
    <3>2. first \in first .. NumReads /\ \A r \in first + 1 .. NumReads : r \in first .. NumReads
      BY <3>1
    <3>3. QED
      BY <3>2 DEF first
  <2>4. QED
    BY <2>2, <2>3
<1>6. page' * PageSize = 0 /\ 0 < MaxEntries /\ 0 <= given'[read']
  BY <1>3, Bounds DEF CollectorInv, GivenInv
<1>7. QED
  BY <1>2, <1>3, <1>4, <1>5, <1>6 DEF LossInv

(* A step within a read. *)
LEMMA ReadOn ==
    ASSUME CollectorInv, pc = "read", kind # "ssh", read \in Reads,
           UNCHANGED <<kind, size, given, stored, pc, read, res>>, issues \subseteq issues',
           \A r \in Reads : taken'[r] <= size[r] /\ (r # read => taken'[r] = taken[r]),
           kind = "unifi" => taken'[read] = page' * PageSize /\ taken'[read] <= given[read],
           kind = "ad" /\ read # GroupRead => taken'[read] < MaxEntries
    PROVE  LossInv'
<1>1. /\ res = "none"
      /\ \A r \in 1 .. read - 1 : Kept(taken, r)
      /\ \A r \in read + 1 .. NumReads : taken[r] = 0
  BY DEF CollectorInv, PlaceInv, LossInv, Working
<1>2. read \in Int /\ read > 0 /\ NumReads \in Int /\ Reads = 1..NumReads
  BY Bounds DEF Reads
<1>3. \A r \in 1 .. read - 1 : Kept(taken, r)'
  <2>1. TAKE r \in 1 .. read - 1
  <2>2. taken'[r] = taken[r] /\ Kept(taken, r)
    BY <1>1, <1>2
  <2>3. QED
    BY <2>2 DEF Kept
<1>4. \A r \in read + 1 .. NumReads : taken'[r] = 0
  BY <1>1, <1>2
<1>5. QED
  BY <1>1, <1>2, <1>3, <1>4 DEF LossInv

(* After the first call of a session comes the first read. *)
LEMMA FirstCallStep ==
    ASSUME CollectorInv, NEW k, FirstCall(k)
    PROVE  LossInv'
<1> USE Bounds
<1>1. /\ pc = "read" /\ read = 0
      /\ UNCHANGED <<kind, size, given, issues, taken, stored, page>>
  BY DEF FirstCall, target
<1>2. CASE read' = 1 /\ UNCHANGED <<pc, res>>
  <2>1. /\ \A r \in Reads : taken[r] <= size[r]
        /\ \A r \in 1..NumReads : taken[r] = 0
        /\ kind = "unifi" => page = 0
        /\ res = "none" /\ 1 \in Reads /\ 0 <= given[1]
    BY <1>1 DEF CollectorInv, LossInv, PlaceInv, GivenInv, Working, Reads
  <2>2. page = 0 => page * PageSize = 0
    OBVIOUS
  <2>3. QED
    BY <1>1, <1>2, <2>1, <2>2 DEF LossInv, Reads
<1>3. CASE UNCHANGED read /\ \E error \in {"auth", "retry", "error"} : Leave(error)
  <2>1. pc' \in {"close", "ended"} /\ res' # "returned"
    BY <1>3 DEF Leave
  <2>2. QED
    BY <1>1, <1>3, <2>1, StaticStep
<1>4. QED
  BY <1>2, <1>3 DEF FirstCall

(* A read that fails drops its rows and is disclosed. *)
LEMMA ReadDropped ==
    ASSUME CollectorInv, pc = "read", kind # "ssh", read \in Reads,
           NextRead(ToPersist), UNCHANGED <<kind, size, given, stored>>,
           taken' = [taken EXCEPT ![read] = 0], issues' = issues \union {read}
    PROVE  LossInv'
<1>1. /\ taken \in [Reads -> 0..MaxSize] /\ size \in [Reads -> 0..MaxSize]
      /\ \A r \in Reads : taken[r] <= size[r]
  BY DEF CollectorInv, TypeOK, LossInv
<1>2. \A r \in Reads : taken'[r] <= size[r] /\ (r # read => taken'[r] = taken[r])
  BY <1>1
<1>3. issues \subseteq issues' /\ issues' \intersect {read, Target} # {}
  OBVIOUS
<1>4. QED
  BY <1>2, <1>3, ReadOver

(* A transaction stores what was gathered. *)
LEMMA AllStored ==
    ASSUME CollectorInv, pc = "persist", stored' = taken, Leave("returned"),
           UNCHANGED <<kind, size, given, issues, taken, page, read>>
    PROVE  LossInv'
<1>1. /\ \A r \in Reads : taken[r] <= size[r]
      /\ \A r \in Reads : Kept(taken, r)
  BY DEF CollectorInv, LossInv, PlaceInv
<1>2. \A r \in Reads : Kept(stored, r)'
  BY <1>1 DEF Kept
<1>3. pc' \in {"close", "ended"}
  BY DEF Leave
<1>4. QED
  BY <1>1, <1>2, <1>3 DEF LossInv

(* No step loses a row without a word. *)
LEMMA LossStep == CollectorInv /\ [Next]_vars => LossInv'
<1> SUFFICES ASSUME CollectorInv, [Next]_vars PROVE LossInv'
  OBVIOUS
<1> USE Bounds
<1>1. CASE Begin
  <2>1. /\ pc' = "secret" /\ taken' = Nothing /\ res' = "none" /\ size' = size
        /\ page' = 0 /\ read' \in {0, 1}
    BY <1>1 DEF Begin, target
  <2>2. size \in [Reads -> 0..MaxSize]
    BY DEF CollectorInv, TypeOK
  <2>3. \A r \in Reads : taken'[r] <= size'[r]
    BY <2>1, <2>2 DEF Nothing
  <2>4. QED
    BY <2>1, <2>3 DEF LossInv
<1>2. CASE SnmpSecret
  <2>1. /\ UNCHANGED <<kind, size, given, issues, taken, stored, page, read>>
        /\ \/ pc' = pc
           \/ pc' \in {"close", "ended", "done", "idle"}
           \/ pc \in {"secret", "connect"} /\ pc' \in {"connect", "read"}
        /\ res' = "returned" => res = "returned"
    BY <1>2 DEF SnmpSecret, Secret, target
  <2>2. QED
    BY <2>1, StaticStep
<1>3. CASE SshSecret
  <2>1. /\ UNCHANGED <<kind, size, given, issues, taken, stored, page, read>>
        /\ \/ pc' = pc
           \/ pc' \in {"close", "ended", "done", "idle"}
           \/ pc \in {"secret", "connect"} /\ pc' \in {"connect", "read"}
        /\ res' = "returned" => res = "returned"
    BY <1>3 DEF SshSecret, Secret, target
  <2>2. QED
    BY <2>1, StaticStep
<1>4. CASE AdSecret
  <2>1. /\ UNCHANGED <<kind, size, given, issues, taken, stored, page, read>>
        /\ \/ pc' = pc
           \/ pc' \in {"close", "ended", "done", "idle"}
           \/ pc \in {"secret", "connect"} /\ pc' \in {"connect", "read"}
        /\ res' = "returned" => res = "returned"
    BY <1>4 DEF AdSecret, Secret, target
  <2>2. QED
    BY <2>1, StaticStep
<1>5. CASE UnifiSecret
  <2>1. /\ UNCHANGED <<kind, size, given, issues, taken, stored, page, read>>
        /\ \/ pc' = pc
           \/ pc' \in {"close", "ended", "done", "idle"}
           \/ pc \in {"secret", "connect"} /\ pc' \in {"connect", "read"}
        /\ res' = "returned" => res = "returned"
    BY <1>5 DEF UnifiSecret, Secret, target
  <2>2. QED
    BY <2>1, StaticStep
<1>6. CASE SshConnect
  <2>1. /\ UNCHANGED <<kind, size, given, issues, taken, stored, page, read>>
        /\ \/ pc' = pc
           \/ pc' \in {"close", "ended", "done", "idle"}
           \/ pc \in {"secret", "connect"} /\ pc' \in {"connect", "read"}
        /\ res' = "returned" => res = "returned"
    BY <1>6 DEF SshConnect, Connects, target
  <2>2. QED
    BY <2>1, StaticStep
<1>7. CASE AdConnect
  <2>1. /\ UNCHANGED <<kind, size, given, issues, taken, stored, page, read>>
        /\ \/ pc' = pc
           \/ pc' \in {"close", "ended", "done", "idle"}
           \/ pc \in {"secret", "connect"} /\ pc' \in {"connect", "read"}
        /\ res' = "returned" => res = "returned"
    BY <1>7 DEF AdConnect, Connects, target
  <2>2. QED
    BY <2>1, StaticStep
<1>8. CASE UnifiLogin
  <2>1. /\ UNCHANGED <<kind, size, given, issues, taken, stored, page, read>>
        /\ \/ pc' = pc
           \/ pc' \in {"close", "ended", "done", "idle"}
           \/ pc \in {"secret", "connect"} /\ pc' \in {"connect", "read"}
        /\ res' = "returned" => res = "returned"
    BY <1>8 DEF UnifiLogin, Connects, target
  <2>2. QED
    BY <2>1, StaticStep
<1>9. CASE SshPaging
  BY <1>9, FirstCallStep DEF SshPaging
<1>10. CASE AdRootDse
  BY <1>10, FirstCallStep DEF AdRootDse
<1>11. CASE UnifiSites
  BY <1>11, FirstCallStep DEF UnifiSites
<1>12. CASE SnmpWalk
  <2> DEFINE rows == Min({Batch, remaining, size[read] - taken[read]})
  <2>1. /\ rows \in Nat /\ rows <= remaining /\ taken[read] + rows <= size[read]
        /\ rows = 0 => taken[read] = size[read]
    BY <1>12, SnmpRows DEF SnmpWalk
  <2>2. /\ kind = "snmp" /\ pc = "read"
        /\ IF rows = 0 THEN NextRead(ToPersist) /\ UNCHANGED <<taken, remaining, issues>>
           ELSE /\ taken' = [taken EXCEPT ![read] = @ + rows]
                /\ remaining' = remaining - rows
                /\ IF remaining' = 0
                     THEN ToPersist /\ issues' = issues \union {Target}
                     ELSE UNCHANGED <<pc, res, issues>>
                /\ UNCHANGED <<read, page, seen>>
        /\ UNCHANGED <<target, attempt, stored, copies, session, outside, cutAt>>
    BY <1>12 DEF SnmpWalk
  <2> HIDE DEF rows
  <2>3. read \in Reads /\ taken \in [Reads -> 0..MaxSize] /\ size \in [Reads -> 0..MaxSize]
    BY <2>2 DEF CollectorInv, TypeOK, PlaceInv, Reads
  <2>4. \A r \in Reads : taken[r] <= size[r]
    BY DEF CollectorInv, LossInv
  <2>5. \A r \in Reads : taken'[r] <= size[r] /\ (r # read => taken'[r] = taken[r])
    <3>1. taken' = taken \/ taken' = [taken EXCEPT ![read] = taken[read] + rows]
      BY <2>2
    <3>2. QED
      BY <2>1, <2>3, <2>4, <3>1
  <2>6. UNCHANGED <<kind, size, given, stored>> /\ issues \subseteq issues' /\ kind # "ssh"
    BY <2>2 DEF target
  <2>7. CASE rows = 0
    <3>1. NextRead(ToPersist) /\ taken'[read] = size[read]
      BY <2>1, <2>2, <2>7
    <3>2. QED
      BY <2>2, <2>3, <2>5, <2>6, <3>1, ReadOver
  <2>8. CASE rows # 0 /\ remaining' # 0
    <3>1. UNCHANGED <<pc, read, res>>
      BY <2>2, <2>8
    <3>2. QED
      BY <2>2, <2>3, <2>5, <2>6, <3>1, ReadOn
  <2>9. CASE rows # 0 /\ remaining' = 0
    <3>1. pc' = "persist" /\ res' = res /\ Target \in issues'
      BY <2>2, <2>9 DEF ToPersist
    <3>2. res = "none"
      BY <2>2 DEF CollectorInv, PlaceInv, Working
    <3>3. \A r \in Reads : Kept(taken, r)'
      BY <3>1 DEF Kept
    <3>4. QED
      BY <2>5, <2>6, <3>1, <3>2, <3>3 DEF LossInv
  <2>10. QED
    BY <2>7, <2>8, <2>9
<1>13. CASE SnmpFails
  <2>1. /\ UNCHANGED <<kind, size, given, issues, taken, stored, page, read>>
        /\ \/ pc' = pc
           \/ pc' \in {"close", "ended", "done", "idle"}
           \/ pc \in {"secret", "connect"} /\ pc' \in {"connect", "read"}
        /\ res' = "returned" => res = "returned"
    BY <1>13 DEF SnmpFails, Leave, target
  <2>2. QED
    BY <2>1, StaticStep
<1>14. CASE SnmpPersist
  <2>1. PICK bad \in SUBSET {r \in Reads : taken[r] > 0} :
          LET facts == [r \in Reads |-> IF r \in bad THEN taken[r] - 1 ELSE taken[r]]
          IN  \/ /\ stored' = facts /\ issues' = issues \union bad /\ Leave("returned")
              \/ /\ \E last \in Reads :
                       stored' = [r \in Reads |-> IF r < last THEN facts[r] ELSE 0]
                 /\ Leave("fault") /\ UNCHANGED issues
    BY <1>14 DEF SnmpPersist
  <2>2. pc = "persist" /\ kind = "snmp" /\ UNCHANGED <<kind, size, given, taken>>
    BY <1>14 DEF SnmpPersist, target
  <2>3. /\ \A r \in Reads : taken[r] <= size[r]
        /\ \A r \in Reads : Kept(taken, r)
    BY <2>2 DEF CollectorInv, LossInv
  <2>4. pc' \in {"close", "ended"}
    BY <2>1 DEF Leave
  <2>5. res' = "returned" => \A r \in Reads : Kept(stored, r)'
    <3>1. SUFFICES ASSUME res' = "returned", NEW r \in Reads PROVE Kept(stored, r)'
      OBVIOUS
    <3>2. /\ stored' = [s \in Reads |-> IF s \in bad THEN taken[s] - 1 ELSE taken[s]]
          /\ issues' = issues \union bad
      BY <2>1, <3>1 DEF Leave
    <3>3. CASE r \in bad
      BY <3>2, <3>3 DEF Kept
    <3>4. CASE r \notin bad
      <4>1. stored'[r] = taken[r] /\ Kept(taken, r)
        BY <2>3, <3>2, <3>4
      <4>2. QED
        BY <2>2, <3>2, <4>1 DEF Kept
    <3>5. QED
      BY <3>3, <3>4
  <2>6. QED
    BY <2>2, <2>3, <2>4, <2>5 DEF LossInv
<1>15. CASE SshCommand
  <2>1. /\ kind = "ssh" /\ pc = "read" /\ read \in Reads
        /\ UNCHANGED <<kind, size, given, taken>>
    BY <1>15 DEF SshCommand, target, CollectorInv, TypeOK, Reads
  <2>2. /\ \A r \in Reads : taken[r] <= size[r]
        /\ \A r \in 1 .. read - 1 : Kept(stored, r)
        /\ \A r \in read + 1 .. NumReads : taken[r] = 0
        /\ res = "none" /\ stored \in [Reads -> 0..MaxSize]
    BY <2>1 DEF CollectorInv, LossInv, PlaceInv, TypeOK, Working
  <2>3. read \in Int /\ NumReads \in Int /\ Reads = 1..NumReads
    BY <2>1 DEF Reads
  <2>4. CASE NextRead(Leave("returned"))
    <3>1. /\ \/ stored' = [stored EXCEPT ![read] = size[read]]
             \/ stored' = stored /\ read \in issues'
          /\ issues \subseteq issues'
      <4>1. \/ /\ stored' = [stored EXCEPT ![read] = size[read]]
               /\ issues' \in {issues, issues \union {read}}
            \/ issues' = issues \union {read} /\ UNCHANGED stored
        BY <1>15, <2>1, <2>4, ToNextCommand DEF SshCommand, Leave
      <4>2. QED
        BY <4>1
    <3>2. \A r \in 1 .. read : Kept(stored, r)'
      <4>1. TAKE r \in 1 .. read
      <4>2. CASE r = read
        BY <2>1, <2>2, <3>1, <4>2 DEF Kept
      <4>3. CASE r # read
        <5>1. r \in 1 .. read - 1
          BY <2>3, <4>3
        <5>2. Kept(stored, r) /\ stored'[r] = stored[r]
          BY <2>1, <2>2, <2>3, <3>1, <4>3, <5>1
        <5>3. QED
          BY <2>1, <3>1, <5>2 DEF Kept
      <4>4. QED
        BY <4>2, <4>3
    <3>3. \/ pc' = "read" /\ read' = read + 1 /\ res' = "none"
          \/ pc' \in {"close", "ended"} /\ read = NumReads
      BY <2>1, <2>2, <2>4, ToNextCommand
    <3>4. CASE pc' = "read" /\ read' = read + 1 /\ res' = "none"
      BY <2>1, <2>2, <2>3, <3>2, <3>4 DEF LossInv
    <3>5. CASE pc' \in {"close", "ended"} /\ read = NumReads
      BY <2>1, <2>2, <2>3, <3>2, <3>5 DEF LossInv
    <3>6. QED
      BY <3>3, <3>4, <3>5
  <2>5. CASE /\ \E error \in {"auth", "retry", "fault"} : Leave(error)
             /\ UNCHANGED <<read, page, seen, issues, stored>>
    <3>1. pc' \in {"close", "ended"} /\ res' # "returned"
      BY <2>5 DEF Leave
    <3>2. QED
      BY <2>1, <2>5, <3>1, StaticStep
  <2>6. QED
    BY <1>15, <2>4, <2>5 DEF SshCommand
<1>16. CASE UnifiPage
  <2>1. PICK got \in 0..MaxSize :
           /\ taken' = [taken EXCEPT ![read] = got] /\ got <= size[read]
           /\ \/ NextRead(ToPersist) /\ got \in {given[read], Ceiling}
              \/ /\ page + 1 < MaxPages /\ page' = page + 1
                 /\ got = page' * PageSize /\ got <= given[read]
                 /\ UNCHANGED <<read, seen, pc, res>>
    BY <1>16, UnifiPageTakes
  <2>2. /\ kind = "unifi" /\ pc = "read" /\ read \in Reads
        /\ UNCHANGED <<kind, size, given, issues, stored>>
    BY <1>16 DEF UnifiPage, target, CollectorInv, TypeOK, Reads
  <2>3. taken \in [Reads -> 0..MaxSize] /\ \A r \in Reads : taken[r] <= size[r]
    BY DEF CollectorInv, TypeOK, LossInv
  <2>4. /\ \A r \in Reads : taken'[r] <= size[r] /\ (r # read => taken'[r] = taken[r])
        /\ taken'[read] = got
    BY <2>1, <2>2, <2>3
  <2>5. CASE NextRead(ToPersist) /\ got \in {given[read], Ceiling}
    BY <2>2, <2>4, <2>5, ReadOver
  <2>6. CASE /\ got = page' * PageSize /\ got <= given[read]
             /\ UNCHANGED <<read, seen, pc, res>>
    BY <2>2, <2>4, <2>6, ReadOn
  <2>7. QED
    BY <2>1, <2>5, <2>6
<1>17. CASE UnifiFails
  <2>1. /\ kind = "unifi" /\ pc = "read" /\ read \in Reads
        /\ UNCHANGED <<kind, size, given, stored>>
    BY <1>17 DEF UnifiFails, target, CollectorInv, TypeOK, Reads
  <2>2. CASE /\ taken' = [taken EXCEPT ![read] = 0]
             /\ issues' = issues \union {read} /\ NextRead(ToPersist)
    BY <2>1, <2>2, ReadDropped
  <2>3. CASE /\ \E error \in {"auth", "retry"} : Leave(error)
             /\ UNCHANGED <<read, taken, page, seen, issues>>
    <3>1. pc' \in {"close", "ended"} /\ res' # "returned"
      BY <2>3 DEF Leave
    <3>2. QED
      BY <2>1, <2>3, <3>1, StaticStep
  <2>4. QED
    BY <1>17, <2>2, <2>3 DEF UnifiFails
<1>18. CASE UnifiPersist
  <2>1. /\ kind = "unifi" /\ pc = "persist"
        /\ UNCHANGED <<kind, size, given, issues, taken, page, read>>
    BY <1>18 DEF UnifiPersist, target
  <2>2. CASE stored' = taken /\ Leave("returned")
    BY <2>1, <2>2, AllStored
  <2>3. CASE Leave("fault") /\ UNCHANGED stored
    BY <2>1, <2>3, StaticStep DEF Leave
  <2>4. QED
    BY <1>18, <2>2, <2>3 DEF UnifiPersist
<1>19. CASE AdPage
  <2>1. /\ kind = "ad" /\ pc = "read" /\ read \in Reads \ {GroupRead}
        /\ UNCHANGED <<kind, size, given, stored>>
    BY <1>19 DEF AdPage, target
  <2>2. PICK rows \in 0..Min({PageSize, size[read] - taken[read]}) : AdPageOf(rows)
    BY <1>19 DEF AdPage, AdPageOf
  <2> DEFINE got == Min({taken[read] + rows, MaxEntries})
  <2>3. got \in 0..MaxSize /\ got <= size[read] /\ (rows = 0 => got < MaxEntries)
    BY <2>1, AdRows
  <2>4. rows \in Int
    BY <2>2
  <2>5. \/ /\ got >= MaxEntries \/ got = size[read]
           /\ taken' = [taken EXCEPT ![read] = got]
           /\ issues' = IF rows > 0 /\ got >= MaxEntries THEN issues \union {read} ELSE issues
           /\ NextRead(ToPersist)
        \/ /\ taken' = [taken EXCEPT ![read] = 0]
           /\ issues' = issues \union {read}
           /\ NextRead(ToPersist)
        \/ /\ got < MaxEntries
           /\ taken' = [taken EXCEPT ![read] = got]
           /\ UNCHANGED <<issues, read, pc, res>>
    BY <2>2 DEF AdPageOf
  <2>6. rows >= 0
    BY <2>2
  <2> HIDE DEF got
  <2>7. taken \in [Reads -> 0..MaxSize] /\ \A r \in Reads : taken[r] <= size[r]
    BY DEF CollectorInv, TypeOK, LossInv
  <2>8. taken' = [taken EXCEPT ![read] = got] =>
           /\ \A r \in Reads : taken'[r] <= size[r] /\ (r # read => taken'[r] = taken[r])
           /\ taken'[read] = got
    BY <2>1, <2>3, <2>7
  <2>9. CASE /\ got >= MaxEntries \/ got = size[read]
             /\ taken' = [taken EXCEPT ![read] = got]
             /\ issues' = IF rows > 0 /\ got >= MaxEntries THEN issues \union {read} ELSE issues
             /\ NextRead(ToPersist)
    <3>1. got = size[read] \/ read \in issues'
      BY <2>3, <2>4, <2>6, <2>9
    <3>2. issues \subseteq issues'
      BY <2>9
    <3>3. QED
      BY <2>1, <2>8, <2>9, <3>1, <3>2, ReadOver
  <2>10. CASE /\ taken' = [taken EXCEPT ![read] = 0]
              /\ issues' = issues \union {read}
              /\ NextRead(ToPersist)
    BY <2>1, <2>10, ReadDropped
  <2>11. CASE /\ got < MaxEntries
              /\ taken' = [taken EXCEPT ![read] = got]
              /\ UNCHANGED <<issues, read, pc, res>>
    BY <2>1, <2>8, <2>11, ReadOn
  <2>12. QED
    BY <2>5, <2>9, <2>10, <2>11
<1>20. CASE AdRange
  <2>1. /\ kind = "ad" /\ pc = "read" /\ read \in Reads /\ read = GroupRead
        /\ UNCHANGED <<kind, size, given, stored>>
    BY <1>20 DEF AdRange, target, GroupRead, Reads
  <2>2. /\ taken \in [Reads -> 0..MaxSize] /\ size \in [Reads -> 0..MaxSize]
        /\ \A r \in Reads : taken[r] <= size[r]
    BY DEF CollectorInv, TypeOK, LossInv
  <2>3. CASE taken[read] = size[read] /\ NextRead(ToPersist) /\ UNCHANGED <<taken, issues>>
    BY <2>1, <2>2, <2>3, ReadOver
  <2>4. CASE /\ taken[read] < Min({size[read], MaxEntries})
             /\ taken' = [taken EXCEPT ![read] = taken[read] + 1]
             /\ UNCHANGED <<issues, page, seen, read, pc, res>>
    <3> DEFINE least == Min({size[read], MaxEntries})
    <3>1. size[read] \in Int /\ MaxEntries \in Int /\ taken[read] \in Int
      BY <2>1, <2>2
    <3>2. least \in {size[read], MaxEntries} /\ least <= size[read]
      BY <3>1, MinTwo, Zenon
    <3>3. taken[read] < least
      BY <2>4
    <3> HIDE DEF least
    <3>4. taken[read] + 1 <= size[read]
      BY <3>1, <3>2, <3>3
    <3>5. \A r \in Reads : taken'[r] <= size[r] /\ (r # read => taken'[r] = taken[r])
      BY <2>1, <2>2, <2>4, <3>4
    <3>6. QED
      BY <2>1, <2>4, <3>5, ReadOn
  <2>5. CASE issues' = issues \union {read} /\ NextRead(ToPersist) /\ UNCHANGED taken
    BY <2>1, <2>2, <2>5, ReadOver
  <2>6. CASE UNCHANGED <<taken, issues, seen, read, pc, res>>
    BY <2>1, <2>2, <2>6, ReadOn
  <2>7. QED
    BY <1>20, <2>3, <2>4, <2>5, <2>6 DEF AdRange
<1>21. CASE AdQueryFails
  <2>1. /\ kind = "ad" /\ pc = "read" /\ read \in Reads
        /\ UNCHANGED <<kind, size, given, stored>>
    BY <1>21 DEF AdQueryFails, target, CollectorInv, TypeOK, Reads
  <2>2. CASE /\ taken' = [taken EXCEPT ![read] = 0]
             /\ issues' = issues \union {read} /\ NextRead(ToPersist)
    BY <2>1, <2>2, ReadDropped
  <2>3. CASE /\ \E error \in {"auth", "retry"} : Leave(error)
             /\ UNCHANGED <<read, taken, page, seen, issues>>
    <3>1. pc' \in {"close", "ended"} /\ res' # "returned"
      BY <2>3 DEF Leave
    <3>2. QED
      BY <2>1, <2>3, <3>1, StaticStep
  <2>4. QED
    BY <1>21, <2>2, <2>3 DEF AdQueryFails
<1>22. CASE AdPersist
  <2>1. /\ kind = "ad" /\ pc = "persist"
        /\ UNCHANGED <<kind, size, given, issues, taken, page, read>>
    BY <1>22 DEF AdPersist, target
  <2>2. CASE stored' = taken /\ Leave("returned")
    BY <2>1, <2>2, AllStored
  <2>3. CASE Leave("fault") /\ UNCHANGED stored
    BY <2>1, <2>3, StaticStep DEF Leave
  <2>4. QED
    BY <1>22, <2>2, <2>3 DEF AdPersist
<1>23. CASE CloseSession
  <2>1. /\ UNCHANGED <<kind, size, given, issues, taken, stored, page, read>>
        /\ \/ pc' = pc
           \/ pc' \in {"close", "ended", "done", "idle"}
           \/ pc \in {"secret", "connect"} /\ pc' \in {"connect", "read"}
        /\ res' = "returned" => res = "returned"
    BY <1>23 DEF CloseSession, target
  <2>2. QED
    BY <2>1, StaticStep
<1>24. CASE EndAttempt
  <2>1. /\ UNCHANGED <<kind, size, given, issues, taken, stored, page, read>>
        /\ \/ pc' = pc
           \/ pc' \in {"close", "ended", "done", "idle"}
           \/ pc \in {"secret", "connect"} /\ pc' \in {"connect", "read"}
        /\ res' = "returned" => res = "returned"
    BY <1>24 DEF EndAttempt, target
  <2>2. QED
    BY <2>1, StaticStep
<1>25. CASE \E reason \in {"timeout", "cancelled"} : Cut(reason)
  <2>1. /\ UNCHANGED <<kind, size, given, issues, taken, stored, page, read>>
        /\ \/ pc' = pc
           \/ pc' \in {"close", "ended", "done", "idle"}
           \/ pc \in {"secret", "connect"} /\ pc' \in {"connect", "read"}
        /\ res' = "returned" => res = "returned"
    BY <1>25 DEF Cut, target
  <2>2. QED
    BY <2>1, StaticStep
<1>26. CASE ThreadReturns
  <2>1. /\ UNCHANGED <<kind, size, given, issues, taken, stored, page, read>>
        /\ \/ pc' = pc
           \/ pc' \in {"close", "ended", "done", "idle"}
           \/ pc \in {"secret", "connect"} /\ pc' \in {"connect", "read"}
        /\ res' = "returned" => res = "returned"
    BY <1>26 DEF ThreadReturns, target
  <2>2. QED
    BY <2>1, StaticStep
<1>27. CASE UNCHANGED vars
  BY <1>27, StaticStep DEF vars
<1>28. QED
  BY <1>1, <1>2, <1>3, <1>4, <1>5, <1>6, <1>7, <1>8, <1>9, <1>10, <1>11, <1>12,
     <1>13, <1>14, <1>15, <1>16, <1>17, <1>18, <1>19, <1>20, <1>21, <1>22, <1>23, <1>24,
     <1>25, <1>26, <1>27 DEF Next, Work, TimedOut, Cancelled, Done

-----------------------------------------------------------------------------
(* An attempt that has not begun has nothing in hand. *)
LEMMA CollectorInit == Init => CollectorInv
<1> SUFFICES ASSUME Init PROVE CollectorInv
  OBVIOUS
<1> USE Bounds DEF Init
<1>1. \A r \in Reads : /\ Nothing[r] = 0 /\ size[r] \in 0..MaxSize /\ size[r] >= 0
                         /\ given[r] \in Nat /\ given[r] <= size[r]
  BY DEF Nothing
<1>2. TypeOK
  <2>1. Nothing \in [Reads -> 0..MaxSize]
    BY DEF Nothing
  <2>2. copies \in 0..attempt /\ attempt \in 1..Retries + 1
    OBVIOUS
  <2>3. /\ read \in 0..NumReads /\ page \in 0..MaxPages /\ seen \in {"cookie", "none"}
        /\ remaining \in 0..MaxTableRows /\ issues \subseteq 0..NumReads
        /\ cutAt \subseteq {"secret", "connect", "read", "close"}
    OBVIOUS
  <2>4. /\ kind \in Kinds /\ size \in [Reads -> 0..MaxSize] /\ given \in [Reads -> 0..MaxSize]
        /\ taken = Nothing /\ stored = Nothing
        /\ pc = "idle" /\ session = "none" /\ leaked = FALSE /\ res = "none"
    OBVIOUS
  <2> HIDE DEF Init
  <2>5. QED
    BY <2>1, <2>2, <2>3, <2>4 DEF TypeOK
<1>3. PlaceInv
  BY DEF PlaceInv, Working
<1>4. SessionInv
  BY DEF SessionInv
<1>5. CopyInv
  BY DEF CopyInv, Working
<1>6. LossInv /\ GivenInv
  BY <1>1 DEF LossInv, GivenInv
<1>7. QED
  BY <1>2, <1>3, <1>4, <1>5, <1>6 DEF CollectorInv

(* The collectors' inductive invariant: where an attempt is, what becomes  *)
(* of its session, what it has stored and what it has disclosed.           *)
THEOREM CollectorInvariant == Spec => []CollectorInv
<1>1. CollectorInv /\ [Next]_vars => CollectorInv'
  BY TypeStep, PlaceStep, SessionStep, CopyStep, LossStep, GivenStep DEF CollectorInv
<1>2. QED
  BY <1>1, CollectorInit, PTL DEF Spec

(* What a collector returns holds all the rows of its target, or discloses *)
(* which read is short (PySnmpTransport.collect, UniFiClient.get_pages,    *)
(* _run_query, _expand_group_ranges and the collect coroutines around      *)
(* them), whatever the sizes, the limits, the failures and the cuts.  Only *)
(* a UniFi resource is short in silence, at its ceiling or where a short   *)
(* page of the controller ended it.                                        *)
THEOREM LossIsDisclosed == Spec => []LossDisclosed
<1>1. CollectorInv => LossDisclosed
  <2> SUFFICES ASSUME CollectorInv, pc = "done", res = "returned",
                      NEW r \in Reads, stored[r] < size[r]
               PROVE  \/ issues \intersect {r, Target} # {}
                      \/ /\ kind = "unifi"
                         /\ stored[r] \in {given[r], Min({MaxItems, MaxPages * PageSize})}
    BY DEF LossDisclosed
  <2>1. Kept(stored, r)
    BY DEF CollectorInv, LossInv
  <2>2. stored[r] \in Int /\ size[r] \in Int
    BY Bounds DEF CollectorInv, TypeOK
  <2>3. stored[r] # size[r]
    BY <2>2
  <2>4. QED
    BY <2>1, <2>3 DEF Kept, Ceiling
<1>2. QED
  BY <1>1, CollectorInvariant, PTL

(* What is retried has stored nothing, so that rows reach the database     *)
(* once: only SSH, which stores command by command, and a directory        *)
(* collection whose close was cut may store again.                         *)
THEOREM RowsStoredOnce == Spec => []StoredOnce
<1>1. CollectorInv => StoredOnce
  <2> SUFFICES ASSUME CollectorInv, copies > 1
               PROVE  kind = "ssh" \/ (kind = "ad" /\ "close" \in cutAt)
    BY DEF StoredOnce
  <2>1. QED
    BY KindsAssumption DEF CollectorInv, CopyInv, TypeOK
<1>2. QED
  BY <1>1, CollectorInvariant, PTL

(* What an attempt holds keeps its type and its bounds, and a session is   *)
(* closed when the collection is over, whatever ended it: by the finally   *)
(* of its attempt, or by the thread its close was left to.  What leaks was *)
(* cut while it was connecting, or in its credential helper.               *)
THEOREM SessionsEndClosed == Spec => []SessionsSound
<1>1. CollectorInv => SessionsSound
  BY DEF CollectorInv, SessionInv, TypeOK, SessionsSound, SessionsClosed
<1>2. QED
  BY <1>1, CollectorInvariant, PTL

=============================================================================
