# CodexNet: models, checks and proofs

CodexNet (`src/src/field_discovery`) is an offline network-discovery appliance. It listens
passively, runs bounded active collectors against approved targets, imports the XML a
protected nmap script leaves behind, keeps everything in one SQLite database, and writes
reports from it. This directory holds TLA+ models of the parts whose correctness depends on
the order in which things happen, TLC configurations that check them on small instances,
and TLAPS proofs that hold for every instance. `PROJECT.json` maps every definition to the
source lines it translates.

## 1. The system

| Component (source) | State it keeps | Operations | Talks to | What is hard | What makes it correct |
|---|---|---|---|---|---|
| Collector orchestrator (`collectors.py`) | one task per request, a semaphore, a shared stop event, one run row per request | `run`, `_run_one`, `approve_target`, `_record_issue` | collectors, repository | cancellation inside `acquire`, `wait_for` and `retry_sleep`; a repository call that raises; death between two transactions | permits conserved, rows closed, errors explain the status, a cycle ends |
| Run ledger (`repository.py`) | `collector_runs`, `collector_errors` | `start_run`, `record_collector_error`, `finish_run`, `recover_interrupted_runs` | every component that owns a run | processes that die with rows open | one insert, errors only while running, one final state |
| Passive event pipeline (`passive.py`) | bounded queue, workers, waiting submitters, dedupe cache, counters | `start`, `submit`, `submit_nowait`, `stop`, workers | capture adapters, parsers, sink | stop racing submitters, workers and the drain deadline | every frame counted once, nothing left after stop, only facts that were handed to the sink count as seen, stop returns |
| Nmap importer (`nmap_import.py`) | a pass, the `artifacts` table, inventory rows | `import_nmap_artifacts`, `_persist` | scan script (files), repository, retention | files growing under the reader, overlapping passes, killed passes | imports whole, settled, not repeated; every finished scan is imported |
| Nmap scan launcher (`nmap_scan.py`) | lock file, run row, the script's process group | `run_nmap_scan`, `_terminate_group` | script, repository | timeout, processes that outlive their leader, an interrupted launcher | one scan at a time, bounded launch, rows closed |
| Repository (`repository.py`) | the SQLite database | observations, prune, backup, restore, export | all | crash during backup, retention against readers | atomic replace, no dangling references |
| Passive service (`passive_service.py`) | pipeline, trackers, last failure | `observe`, `maintenance_once`, `run_service` | pipeline, neighbor command, repository | time read before an await and used after it; two calls of `finish_run` | a neighbor is declared gone only after a silence (up to the length of a poll), the first error is reported |
| Trackers (`neighbor.py`, `mdns.py`, `dhcp.py`) | bounded tables with expiry | apply, expire, observe | passive service | limits, goodbye messages, out-of-order times | bounds hold, newest evidence wins |
| Scheduler service (`scheduler_service.py`, systemd units) | children, stop event | `build_invocations`, `run_cycle`, `_run_process`, `serve` | CLI children, recovery unit | stop during a cycle, child timeout, SIGTERM without a handler, recovery beside live children | slots come back, later cycles run, a stop ends it, rows of dead children are closed |
| Configuration (`config.py`) | none (pure) | `validate_config` | scheduler, CLI | validated here, checked again in the child | what it accepts is accepted by the command, but for known gaps |
| Migrations (`database.py`) | `schema_migrations` | `migrate` | every process that opens the database | history read outside the transaction, two processes on a new or upgraded database | nobody works on an older schema than its own |
| Artifact store, storage (`artifacts.py`, `storage.py`) | content and metadata files, backups | write, expired, `prune_expired`, plan and apply | reporting, retention command | crash between the two publishes; files changed between plan and apply | retention never stops for good, only planned files are deleted |
| Correlation (`correlation.py`) | none (pure) | `correlate`: union-find, canonical keys, conflicts | importers | transitive links, order of the claims | devices are the connected components, under distinct keys |
| Topology (`topology.py`) | none (pure) | `build_topology`: filter, edge merge | reporting | evidence at the edge of its validity, competing evidence, input order | the graph is what valid evidence says |
| AD detection (`ad_detection.py`, `discover ad`) | candidates, issues, a run row | SRV queries, look-ups, RootDSE queries | DNS, repository | stale stored addresses, concurrent tasks | approved addresses only, unconfirmed hosts reported |
| Protocol collectors (`snmp.py`, `ssh_collection.py`, `unifi*.py`, `ad_collection.py`) | credentials, sessions, pages, budgets | `collect` | orchestrator, repository | ceilings, repeated cookies, threads that outlive their timeout, retries after a store | loss disclosed, stored once, sessions closed, a collection ends |
| Reporting (`reporting.py`, `platform_reporting.py`, `infrastructure_reporting.py`) | a report model, two files, `report_history` | `build_report_model`, `generate_reports` | repository, collectors at work | many reads of a changing database, publication in two files, rollback by name | sections agree, coverage honest, recorded documents stay |
| Subnet, XML parser, redaction, diagnostics, soak, rest of the CLI, installers | mostly none | | | | |

Everything concurrent is either asyncio tasks of one process (orchestrator, pipeline,
passive service, scheduler) or separate processes sharing the database and a directory tree
(importer, launcher, retention, recovery, the scheduler's children, reports).

## 2. The modules

**RunLedger** is the abstract specification of the run tables: what `start_run`,
`record_collector_error`, `finish_run` and `recover_interrupted_runs` promise a reader.
`CollectorOrchestrator` and `NmapScan` are shown to implement it (`LedgerSpec` in each,
through `INSTANCE RunLedger`).

**CollectorOrchestrator** models one cycle. Each request is a task whose `pc` is its place in
`_run_one` (`new`, `started`, `queued`, `granted`, `looping`, `collecting`, `reporting`,
`leaving`, `finishing`, then `done` or `raised`), and `coord` is the place of `run` and of
the `asyncio.run` around it. A step is the code between two awaits, cut again at each
repository transaction, so that a transaction can fail and the process can die between two of
them. The asyncio semaphore is modelled with its hand-over: a waiter whose future was
resolved is `granted` and owns the permit before its task runs. A cancellation that arrives
together with `collect`'s answer is lost, as in `asyncio.wait_for`. `Kill` ends the process
(the CLI installs no SIGTERM handler) and `RecoverInterruptedRuns` is the recovery unit.

**PassivePipeline** models `PassiveEventPipeline`. A frame is the sequence of what its parsers
yield, facts and malformed items; `worker` holds what is left of the frame in hand. `stop()`
goes through `settling` (waits for submitters), `joining` (the timed `queue.join`),
`aborting` (workers cancelled one by one), `stopped`. The dedupe cache is the set of
fingerprints it would suppress now; `Forget` stands for expiry and eviction.

**NmapImport** models passes over two files. A file's content is the number of writes it has
had (the script appends), so hashing and parsing are two reads that may see different
contents; a digest identifies a content. `Prune` is the part of `Repository.prune` that
deletes `artifacts` rows. Inventory rows are abstracted to the scan they come from, because
one transaction inserts them with the `artifacts` row.

**NmapScan** models launchers, the flock, the rows, and the script's process group as a set of
live processes. `LoseLauncher` is KeyboardInterrupt, SIGTERM or a crash of the launcher.

**PassiveService** models the observer process around the pipeline: the receiving task, the
workers that parse frames into the tables of `neighbor.py`, `mdns.py` and `dhcp.py`, and the
maintenance task that reads the kernel's neighbors and ages the same tables. A table is a
sequence of keyed records, oldest first (`OrderedDict`); `Put` is `move_to_end` with the
eviction that follows it, and `At`, which picks entries in their order, is every deletion. `At`,
`ObserveAll` (the loop over a poll) and `RecordAll` (the loop over a message) are recursive
functions, so that the proofs can follow them. The repository sink never suspends, so a frame is handled in one step
and so is everything maintenance does after its command has answered; what interleaves is the
time between stamping a frame or a poll and applying it. A parser may find any payload
malformed. `out` is what the last step gave to the sink; `heard` and `disclosed` are history
variables the properties need. The pipeline's queue is used below its capacity and its
deduplication left out: both are in `PassivePipeline`.

**Retention** models what expires under the data root: artifacts, each a metadata file and a
content file published in that order, and database backups. `db prune --apply` goes through
`planned` (the backups' identities are recorded), `checking` (dry run and row deletion are
behind it), `unlinking`, `choosing` (the next expired artifact, in name order), `checked` (both
its files were there), `half` (its content is gone), `done`; each step is one file operation
that others can observe. Writers, the backup and several prunes interleave; each can fail or be
lost between two operations; a writer whose content was linked but whose `_publish` raised
afterwards takes its metadata back and is `stranded`. An operation that meets a file another
prune has removed raises and ends the command. The artifact directories are taken as one, since
`prune_artifact_tree` visits them in name order and lets the error out.

**SchedulerService** composes the service with what it depends on. `Configuration` is
`validate_config`, `build_invocations` and the command line's own checks (`SnmpUnconfigured`,
`SshUnconfigured`, `AdUnconfigured`, `DomainRefused`, `Unapproved`), over documents whose strings are abstracted to
what validation tells apart. `Migrations` is `Repository.open` on the schema: `OpenDatabase`,
`ReadHistory` outside a transaction, one `ApplyOne` per migration. A child goes through `cli`
(its arguments are checked), `open` (it migrates), `run` or `hung` (its row is running), `term`
(the service has sent SIGTERM), `exited`; `serve` is the place of the loop, and the recovery unit
is a process of its own. Reboot, upgrade, systemd's stop and kill, and a late start of recovery
(the import unit's `Wants=`) are environment actions.

**ProtocolCollectors** is the `collect` coroutine of the four collectors, attempt after attempt:
credential, connection, first call, reads up to their ceilings, persistence, close. A target
holds a number of rows behind each read (`size`), of which its server gives `given`: a UniFi server
may end a list early with a short page. A directory may answer with fresh cookies and empty pages, or
fresh empty member ranges, for as long as it likes; its pages are counted in a circle (`TurnPage`), as
nothing bounds them. `remaining` is the row budget SNMP's tables share. `TimedOut` is `wait_for`'s timer
and `Cancelled` a cancellation at an await (`Cut`): the coroutine leaves through its `finally`, and a thread that was at work goes on by itself
(`ThreadReturns`). What SSH has stored before it is cut stays stored, and the others store in one
step at the end.

**Correlation**, **Topology** and **AdDetection** are the algorithms of the inventory. The first
takes the union-find of `correlate` one iteration of `find` at a time (`Root` is what `find` would
return, used once the loop is over) and is checked against a definition of connected components by
closed sets; the second takes the evidence of
`build_topology` in any order and is checked against what all the valid evidence together says;
the third has the tasks of `_resolve_and_probe` interleave. `MCInventory` runs one of them per
behaviour.

**Reporting** has generators read a database that collectors fill and retention prunes, one
statement after another in the order of `Sections`, then publish the DOCX and the JSON under the name of the day, and record or roll back. An
operator may move a recorded document away, which is what makes its name free again. Rows have a kind
where the code goes by one: an alias is an address, a hostname or a MAC; a fact is mapped to a section
or not; an `unread` row is an observation no statement selects (the script output of a service, the
root and domain objects of a directory, domain controller candidates, passive evidence). What the
schema and the collectors guarantee of the rows is `StoresAssumption`: an owner row for each foreign
key or subject (`Owners`), and a prunable observation (`Prunable`) in one run's rows only.

The theorems are in `CollectorOrchestratorProofs`, `PassivePipelineProofs`, `RetentionProofs`,
`NmapProofs` (launcher and importer), `SchedulerServiceProofs` (with `Configuration` and
`Migrations`), `ProtocolCollectorsProofs`, `ReportingProofs` and `EvidenceProofs` (AD detection,
topology, correlation and the observer's tables). The `MC*` modules give constants their values;
`MCInventory` also chooses among initial states, and `MCReporting` starts on an empty database
and constrains which runs begin: two beside one report, none beside two operators.

A definition named `X_word` above a definition `X` is a mutant of it: a plausible bug that the
property named in `PROJECT.json` must detect.

## 3. The runs

| Run | Shows | Bounds |
|---|---|---|
| `collector_cycle` | permits conserved and never idle behind a waiter; a refused request starts nobody; error rows and attempts account for each status; only the caller's request or a raising repository call cancels a run; rows closed when the loop ends; no attempt after stop; `RunLedger` implemented; the cycle ends | 2 requests, 1 permit, 1 retry, results with up to 2 issues, 2 categories of each sort, repository failures and kills anywhere |
| `collector_isolation` (violated) | a raising repository call of one request cancels the others | the same with one category of each sort |
| `passive_pipeline` | frame and `join` accounting, quiet after stop, a fact passed over as a duplicate was stored, is being stored or failed in the sink, `stop()` returns if the sink does, and returns whatever the sink does once nobody waits for space | 2 workers, queue of 1, one waiting submitter besides `submit_nowait`, 4 frames of 2 items |
| `nmap_import` | imports are whole, settled, one per row; finished scans are imported in the end | 2 overlapping passes, 2 files (one incomplete, finished, then rewritten; one never finished), clock 0..3, one fault |
| `nmap_import_after_prune` (violated) | a pruned row makes the unchanged file import again | 1 pass, 1 file, clock 0..5 |
| `nmap_scan` | one launcher in the scan, one script unless a launcher was lost, ledger implemented, every launch ends | 3 launchers, leader and one helper, one loss |
| `passive_service` | a neighbor is declared gone only if nothing was heard of it for its age, up to the length of a poll; tracked neighbors that conflict were disclosed; tables bounded; the service ends when told to, and one failing call leaves no row open | 2 frames of 5 kinds, kernel table of 3 neighbors, 3 entries per table, clock 0..3, age 2, lag 1, one fault |
| `retention` | content is without metadata exactly where its writer took the metadata back after the link; nothing deleted early; success means nothing due was left; repeated prunes delete all that is due and not behind an orphaned metadata file | 2 artifacts, 1 backup, 2 prunes, retention of 1, clock 0..2, one fault |
| `scheduler_service` | accepted documents yield accepted commands, but for the gaps named in section 4; no collector runs on a schema older than its release; recovery closes rows of live children only when it was started late; abandoned rows are closed after a reboot; later cycles run; a stop ends the service | 10 documents (6 valid with 1 or 2 children, one of them with an unqualified directory domain, 4 to be refused), a new database, 2 migrations with an upgrade between, 2 faults |
| `protocol_collectors` | a short result says so, except at UniFi's ceilings and where its server ends a list early; rows are stored once, except by SSH and by a directory collection cut while closing; sessions end closed; a collection ends, a directory that pages for ever by the timer | 4 collectors, 2 reads of 0 to 3 rows, every ceiling between 1 and 4, 1 retry, any number of pages |
| `inventory` | devices are components with distinct keys, explained by one join less than members; the graph shows exactly the valid evidence; detection asks approved addresses only and reports what it could not confirm | every 4 observations with any of 3 identifiers, 3 observations with graded evidence; every 4 of 21 items around the snapshot; 2 hosts, 3 addresses, 2 queries, 1 probe at a time |
| `reporting` | a run shown as succeeded has its rows shown, except exactly those the report has no place for; an alias on two devices is a conflict exactly if it is an address or a hostname; facts are attributed to no device but the one shown with the address; a recorded document stays, and a failed report leaves a file only if closing or removing it failed | two scenes: 1 report beside 2 of 4 runs with 6 commits, over two devices that share address, hostname and MAC; 2 operators with 3 invocations each over an empty database |

Why these bounds are enough to be interesting. Two requests for one permit are the least in
which a waiter is handed a permit by a task that ends, is cancelled at that moment, or waits
behind a task that retries; the semaphore's theorems cover every number of both. Four frames
are the least in which both workers sit in the sink, the queue is full and a submitter waits.
Two passes and a rewritten file let each check of the importer be made on one content and
used on another; the clock is just long enough for an import to be pruned and repeated. Two
frames and a poll of three keys fill a table of three past its bound with every sort of conflict,
and a clock of three lets a poll begin before a frame and answer after it, and the entry then
come due. Two
prunes and two artifacts let one prune find what another has half deleted and let an orphaned
metadata file come first in name order or not; the clock reaches the time at which a backup and
an artifact made at the start are due and later ones are not. Three
launchers let one be refused while a second ends and a third begins. Two children for one slot
let one wait while the other is timed out, and two faults let recovery fail at boot and start
again beside them. Rows one above each ceiling let it be missed, met and exceeded. Four observations allow a chain of three joins, in which path halving has
something to halve. Three invocations of two generators let a failed report find the files of a
recorded one, and of one that a third has begun. The two runs beside a report are those whose
rows meet in it: a scan and SNMP facts, or the two platforms.

A component keeps one conjunction for invariants that only make sense together (`PermitsSafe`,
`StatusExplained`, `CountsExact`, `ImportsSound`, `OneScan`, `TablesSound`, `SessionsSound`,
`DevicesSound`); their parts are defined just above each.

Deadlock is not checked where the program ends (a cycle, a stopped pipeline, launches that
are over, a service that has ended, a report, an algorithm); `NmapImport`, `Retention` and
`ProtocolCollectors`, whose last step repeats once everything is closed, are checked for it.

**Fairness.** Weak fairness of each task's next step is the asyncio event loop running every
ready task; `collect` is bounded by `wait_for`, and the drain deadline by its timer. Nothing
is assumed of the caller's stop, of cancellation, faults or kills. `PassivePipeline` assumes
nothing of the sink: `StopEndsIfSinkReturns` carries that hypothesis itself. `NmapImport`
assumes that time passes, that the script finishes writing and that the timer starts passes
again and again (a systemd timer), and that a pass that is not killed goes on. `NmapScan`
assumes that a launcher that has begun runs on, its waits being bounded by two timeouts;
nothing is assumed of the script. `PassiveService` assumes that
the event loop runs what is ready and that the neighbor command answers or is killed (its two
timeouts); nothing is assumed of signals, frames, faults or the drain deadline.
`Retention` assumes that the operator prunes again and again
and that a prune that is not lost goes on; nothing is assumed of writers and backups. Its clock
stands still rather than let one write or one copy take a whole retention period, which the
configuration counts in days. `SchedulerService` assumes that the service, its children taken
together and the recovery unit at boot take their steps, the children because each is timed out;
nothing is assumed of systemd's SIGKILL, of stop, upgrade or faults. `ProtocolCollectors` assumes
that the coroutine goes on, that `wait_for`'s timer expires while it does not end, and that a call left
in a thread returns, as the timeouts of netmiko and ldap3 make it; nothing is assumed of the server or
of a cancellation. The timer is needed for the directory alone: without it (`TimedOut_transport`) a server
that pages for ever keeps the collection for ever.

## 4. What the code does and its documents do not say

Shown by a run:

* `OthersContinue`: an exception out of a repository call leaves `asyncio.gather`
  (`collectors.py:187`), and `asyncio.run` cancels the other requests, although
  `docs/collector-framework.md` says they continue. `StatusExplained` and `EndedRowsClosed` say
  what does hold.
* `ImportedOnce`: the importer's memory is the `artifacts` table, which retention prunes while
  the files stay. `ImportsSound` says what does hold.

Known from modelling, with the property that says what does hold:

* A UniFi snapshot committed between the statements that read entities and relations makes the
  report drop relations (`platform_reporting.py:180`), in a branch the comment there takes for
  unreachable. `UnifiRelations` models it, and `CoverageHonest` says that it cannot happen to a
  run that the report lists as succeeded.
* `stop()` of the pipeline waits for submitters with no deadline (`passive.py:204`), so a sink
  that never returns and a submitter waiting for space keep it for ever (`DrainBounded`,
  `StopEndsIfSinkReturns`).
* `MDNSParser` ages its cache before it parses a message (`mdns.py:83`), and a parse error drops the
  expiry observations with the message. The neighbor table, which only maintenance ages, has no
  such path.
* `GoneOnlyIfSilent` allows for the length of a poll because `observed_at` is taken before the
  command runs (`passive_service.py:303`) and moves `last_seen` back past frames handled meanwhile.
* A fact is marked as seen before the sink has it (`passive.py:297`): if the first copy then fails, a
  retransmission that came in between has been dropped. `NoSilentLoss` says only that a fact that was
  passed over had been stored, is being stored or failed.
* If `_publish` raises in its `finally` after it has linked the content (`artifacts.py:235`), the
  metadata is unlinked and the content stays (`ContentHasMetadata` names exactly this). Retention goes by
  the metadata and never deletes such a file.
* A process lost between the two publishes, or between the two unlinks, leaves metadata without
  content, and every later `db prune --apply` stops at it (`artifacts.py:266`) after it has
  deleted rows and backups (`RetentionProgress`).
* `_terminate_group` returns when the leader is gone and never looks at the rest of the group
  (`nmap_scan.py:124`); `OneScan` speaks of the scripts' own processes.
* The loader accepts an enabled collector without a credential reference, a directory without a
  server name or with a domain that is not a qualified DNS name (`config.py:504`, refused by the
  collector's constructor, `ad_collection.py:588`), and a controller whose URL names another host than its approved address; the
  command then refuses in every cycle (`ScheduledRequestsAccepted` names exactly these).
* `collect unifi` leaves its row running when the repository fails while storing, and so does a
  child that is timed out; both wait for the next recovery. A cycle that was stopped still
  launches the children that were queued. A child that cannot be started ends the service.
* Two endpoints with one controller URL are collected twice.
* `_run_query` and the member ranges of a directory have no bound on pages while no entries arrive
  (`ad_collection.py:662`, `747`): fresh cookies with empty pages end only by `wait_for`, attempt after
  attempt (`CollectionEnds`).
* UniFi resources stop at the ceiling of pages or items, and at any short page (`unifi.py:339`),
  without a notice (`LossDisclosed` names both), and records of an
  unknown kind are passed over (outside its rows).
* SSH stores command by command, so a retry stores again; a directory inventory is stored again
  when its close is cut; a connection that comes up after its attempt was cut, and SNMP's
  credential helper cut while it runs, are left behind (`StoredOnce`, `SessionsSound`). A machine
  that is in two directory queries violates a unique index, and the whole inventory is lost.
* Nothing inserts into `correlation_decisions`, so the conflicts `correlate` finds do not reach the
  reports, although `docs/correlation.md` says they do.
* A UniFi client's stale MAC, too weak as an identifier, still joins as an interface.
* Between two items of evidence for the same subnet, the first in input order takes a membership.
* A host with stored addresses is not looked up again, and one whose look-up is empty stays a
  candidate without an issue; stored services beyond the limit are cut off without one
  (`DetectionHonest` says which silences are excluded). `persist_detection` stores row by row.
* The report drops SNMP facts that `_snmp_record` maps to no section, such as `snmp.system.*`,
  `snmp.address.*` and `snmp.poe.main.*`, without an entry under `data_quality`
  (`infrastructure_reporting.py:201`; an unmapped SSH fact gets one), and never reads the observations of
  services, directory roots, domain controller candidates and passive evidence (`CoverageHonest`).
* Reused identities are looked for among addresses and hostnames only (`reporting.py:325`): a MAC on
  two devices is shown on both and is no conflict (`SectionsAgree`).
* A close or an unlink that raises while a report is published or rolled back leaves its file
  (`reporting.py:1219` for the DOCX, outside any handler), which blocks that day's name
  (`RecordedDocxStays` excludes it).
* The rollback of a report unlinks both files by name. `RecordedDocxStays` holds of the DOCX; the
  JSON of a recorded report whose DOCX was moved away is removed when a later report of the day
  fails. A process lost after the DOCX was published blocks that day's name.

## 5. The proofs

Every invariant and every safety action property that a run checks is a theorem, for every value of
the constants that satisfies the assumptions named in the component's module, and so are both
refinements of `RunLedger`. Most of the assumptions are that counts are natural numbers and bounds
positive, and that sets of workers, hosts and rows are finite. The others:

| Assumption | Says | Because |
|---|---|---|
| `CategoryAssumption` | categories of failures are disjoint | one exception class each in `collectors.py` |
| `KindsAssumption` | a collector is one of the four | they are the registered ones |
| `StoresAssumption` | a run stores the owner of each row; an observation belongs to one run | foreign keys of the schema and the importers' order; `source` and `observed_at` are part of an observation's identity (`observations_exact_fact`) |
| `InvocationsAssumption` | the name that stands for no report is no generator's | a placeholder |
| `BatchesAssumption`, `ScenesAssumption` | batches and scenes are finite; times, ids and confidences are numbers | they are Python lists of validated records |
| `ServiceAssumption` | a poll and an mDNS message are finite lists; tables hold at least one entry | output and message sizes are bounded, the constructors refuse zero |

TLC evaluates each of them on the instances the runs use.

**CollectorOrchestratorProofs.** `PermitsSafe` is `PermitsConserved` and `NoLostPermit`. The first is not inductive alone: how `Acquire`,
`Release` and an aborted `acquire` change the set of holders depends on the types, and the
retry bound on what a task in the loop has spent. `SemaphoreInv` is `TypeOK`, `TaskInv` (how
`attempts`, `left` and `verdict` relate to the task's place) and `PermitsConserved`; lemmas
about `Goto` and `Move` say how a step changes `Cardinality(Holders)`, and each action follows
from one of them. `NoLostPermit` is then preserved by every step, because `FirstWaiters` wakes
all waiters or as many as there are permits. `RowInv` (a task's row follows its place) and
`CoordInv` (no task before approval, none alive after the loop has ended) give
`EndedRowsClosed`, `AllOrNoneStarted` and the refinement `Spec => LedgerSpec`: each action is
an insert, an error row, a final update, recovery, or leaves the tables alone. `StatusExplained`
needs `ErrorInv` (the errors on a row so far, against the task's place, attempts and verdict, since
the status is written some steps after the errors that explain it) and `CauseInv` (whoever is being
cancelled was asked to stop or has a sibling whose repository call raised).

**PassivePipelineProofs.** `FrameInv` is `TypeOK`, `StopInv` (what each phase of `stop()` says of
workers, submitters and `accepting`), `UnfinishedMatches` and `FramesAccounted`. The last two
(together `CountsExact`) need each other at the drain deadline, and `StopInv` to rule out a frame enqueued after it.
`InFlightChange` says how one worker's step changes the number in flight. `FactInv`
(`seen \subseteq passed` and `NoSilentLoss`) is needed because a duplicate is passed over on
the strength of `seen` alone.

**RetentionProofs.** `RetentionInv` adds to `TypeOK` and `ContentHasMetadata` how an artifact's files
follow its writer (`WriterInv`), that what a prune holds was written, is due and will not be
written again (`PruneInv`), and that a planned backup is complete or broken, never still being
copied (`PlanInv`). `ContentHasMetadata` needs them because `UnlinkMetadata` is safe only when
this prune removed the content and no writer can put it back. `NoEarlyDeletion` is an action
property of the same invariant. `SuccessIsComplete` rests on `DueBackups` and `DueArtifacts`: the
lists a prune works through cover what was due when it began, since others only remove what is
on them or add what is due later.

**NmapProofs.** For the launcher, `OneLauncher` is not inductive without `LockInv`: whoever scans
holds the lock, and whoever holds the lock is still at work. `ScriptInv` (with no launcher lost, a
leader runs only while its launcher waits for it) gives `OneScript`, and `LaunchRowInv` (a row
follows its launch's place) the refinement. For the importer, `ImportInv` adds to `ImportsSound` what a pass
has learned of its file although the file grows underneath it (`PassSound`): the digest and the
parse are of contents the file has had, in that order, and what is persisted was the same at both
ends. `RowsOfContents` bounds rows by contents. `ImportedOnceUnlessPruned` is what holds instead of the
README's "imports once", which `nmap_import_after_prune` violates.

**SchedulerServiceProofs.** `RunHasSchema` rests on `OpenersInv`: what any process has seen of the
migration history exists, and a process that has opened the database has seen its whole release.
The history is read outside the transaction, so this must be stated of every opener at every place,
not only of those at work. `RecoverySparesLiveRuns` rests on `BootInv` (until a boot's recovery has
been tried there is no service and no live child), and `ScheduledRequestsAccepted` on `ValidInv` with
a lemma for each collector: what `ValidateConfig` accepts, the command's own checks accept.

**ProtocolCollectorsProofs.** `CollectorInv` is `TypeOK`, `PlaceInv` (what an attempt has in hand where it
is), `SessionInv` (a session is open only inside its attempt, or is in the hands of the thread that
closes it), `CopyInv` (when what was stored may be stored again) and `LossInv` (each read behind the
present one is whole, disclosed, or a UniFi resource at its ceiling or its short page), with
`GivenInv`, that only a UniFi server gives less than it has. `LossDisclosed` speaks of the
result alone and is not inductive: loss happens in a read, and the result is made many reads later.

**ReportingProofs.** `FileInv` names invocations by process and number, and says who holds the DOCX
name from opening to recording (`HoldInv`), that an invocation that does not hold it owns no file
(`ClearInv`; a failed close or unlink leaves it in the place `left`), and that a recorded document which was not taken away is there, whole (`StaysInv`).
`SoundInv` says of every generator under way what its sections have in common with the database as
it is now: a run it has read as succeeded has all its rows that still exist in the sections behind it or still to come in
the loop at hand (`Coverage`), that a section holds rows of its own tables only (`Shape`, without which a
row that has no place could still be shown), and that the sections behind it agree (`Agreement`). They need `DbInv`, that
a succeeded run has committed everything and only prunable rows disappear.

**EvidenceProofs.** *AD detection*: an approved address of an unconfirmed host has been asked and is an
issue, or is still in its task's list (`AskedInv`). *Topology*: nodes and edges are at every moment those of
the items taken so far (`NodesInv`, `EdgesInv`: one edge per key, and none better was given), which
`AddEdges` keeps since `Better` is a strict order, whatever the order of the items. *Correlation*: `DevicesSound` is
about what `find` returns, which path halving keeps while it changes the forest. `CorrelationInv`
says there is a labelling `L` of the observations that is constant on trees and is each root's own name
(`Forest`), on which the two calls of `find` converge (`PlaceInv`), that joins every claim behind
the loop (`LinkedInv`), stays inside every closed set (`ClosedInv`), and under which a tree of n
observations holds n - 1 decisions (`DecidedInv`). Halving keeps `L`; a union relabels the second
root's class. At the end `Root` equals `L`, as a least observation where they differ cannot exist: its
parent is smaller. *Observer*: `ObserverInv` relates each entry's `last` to the last time anything was
heard of its key, up to `MaxLag` (`HeardInv`, `LagInv`), and keeps the tables bounded, with distinct
keys (`BoundedInv`). Distinct keys are what makes `Entry` and `Without` agree; `ConflictsDisclosed` holds
because a new key is compared with every tracked one before the oldest is evicted.

The library's induction theorems take an operator and cannot be used here. `MinIsMember` and
`AllNaturals` replace them: a set of natural numbers that is not all of them has a least one outside it
(`WFMin`). With it the recursive functions `At`, `ObserveAll` and `RecordAll` are shown to exist and
to keep what each of their steps keeps.

Liveness under fairness is outside what TLAPS proves. Only model-checked are therefore the liveness
properties: `CycleEnds`, `StopEndsIfSinkReturns`, `DrainBounded`, `FinishedScansImported`, `LaunchEnds`,
`ServiceEnds`, `RetentionProgress`, `AbandonedRowsRecovered`, `LaterCyclesRun`, `StopEndsService` and
`CollectionEnds`.

## 6. Not modelled, and the plan

Left out for good: byte-level parsers (DHCP, mDNS, link-layer frames, nmap XML, SNMP values, the
output of network devices), normalisation of identifiers, text redaction, the layout of reports and
diagrams, argument parsing, read-only diagnostics, the subnet resolver, installers. They are pure
functions of one input or plain input and output. `CollectorScheduler` is used by the soak harness
only.

Left out so far: restore and export of the database, the `.staging` files of a lost `_publish`
(no code reads them), the disk guard, the order of expiry and eviction inside the dedupe cache
(`passive.py:320`: `move_to_end` does not refresh an expiry), and an entry of the result tree that
is replaced by something other than a file (`nmap_import.py:138` then abandons the pass).

What could still be proved: the safety half of the liveness properties (a measure that no step of a
launch, a collection or a drain increases), that an entry declared gone was really due at that
moment in the observer's own clock, and that `RunLedger` is also implemented by the rows of
`SchedulerService`, `PassiveService` and `AdDetection`.
