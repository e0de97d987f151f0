# Net-Inspection: specifications, model checking and proofs

These modules specify the concurrent core of the network inspection centre: the
database task queue and its Workers, the way results become alerts and task
summaries, the outbox that sends them, the directory operations with their LDAP
calls, the schedules, the synchronisation of people and door events, topology
discovery, PC logs, retention, configuration backups and the page cache. TLC checks small
instances of them. TLAPS proves, for every number of tasks, targets, Workers, rows,
requests and attempts, every invariant and every action property that the passing runs
check, and the three refinements; liveness is left to TLC (section 4).

Everything is translated from `src/`. `PROJECT.json` names for every definition
the lines it stands for, for every property a plausible bug that breaks it, and
for every hazard of the code the properties that watch it.

## 1. The system

A Django web application and any number of Worker processes
(`manage.py run_task_worker`) share one database (MySQL at read committed,
PostgreSQL, or SQLite). There is no message broker: the database rows are the
queue, the locks and the only state the processes share. A Worker has one main
thread, a bounded pool of target threads and a maintenance cycle.

| Component | State it keeps | Operations | What makes it correct |
|---|---|---|---|
| Task queue (`net/inspections/queue.py`, `state.py`, `locking.py`, `net/models/tasks.py`) | `TaskRun` (status, worker, lease, attempts, counters, scope) and `TaskTargetRun` rows | enqueue, claim, renew, recover expired leases, cancel, finish | one active task per scope; bounded attempts; nothing that ended is reopened; counters agree with the target rows; every task ends |
| Worker and target executor (`worker.py`, `executor.py`) | the claimed task, the guard, the pool, the heartbeat | list targets, submit, begin, collect, persist, abandon, stop, die | a thread publishes only for the claim that is current; one record per target; the Worker always comes back |
| Alert evidence (`net/alerts/service.py`, `device_issues.py`) | alert states per device and finding, station events, `alert_processed_at` | process a result, replay unprocessed results | the newest result decides; recoveries are true and follow an alarm; every result is processed |
| Task summaries (`task_summaries.py`) | one summary event per task | make the summary once the evidence is settled | the summary stays true; every task gets one |
| Delivery outbox (`service.py`) | one row per summary and channel: status, attempts, lease, token | create, claim a batch, send, record, give up | bounded messages, the latest answer counts, every row is closed, the event agrees with its rows |
| Domain operations (`net/domain/tasks.py`, `executor.py`, `secrets.py`) | audit row, one-time secret, mirror of the directory | enqueue, consume the secret, write to the directory, mirror, abort | a password is written once at most; the audit row agrees with the task |
| Domain synchronisation (`sync_tasks.py`, `sync.py`) | mirror of the directory | read the directory, replace the mirror under the fence | the mirror never goes back |
| Schedules (`net/inspections/schedules.py`, three forms) | next run, last attempt, last error of each schedule | poll, enqueue, record a refusal, edit | one task per occurrence; a refusal never hides a later success; a refused schedule holds up no other |
| People synchronisation (`net/people`) | people, the source with its test and last synchronisation | test, preview, confirm, synchronise, edit | every application is the synchronisation with one complete directory; a success was applied by its own attempt |
| Access synchronisation (`net/access`, `index/access`) | door records, the source and its cursor | enqueue a window, fetch, publish, edit the platform | no event is missing behind the cursor |
| Topology (`net/topology`) | batches, interfaces, links and their misses | begin, complete, fail | a link goes stale only after two complete batches without it; one cable ends as one current link |
| PC logs (`net/devices/pc`) | raw logs, analyses, the retention setting | upload, create, analyse, publish, clean | the newest log is the latest; a log in use stays; the last result of a day stays |
| Retention (`net/inspections/retention.py`) | age limits, lists held by each Worker | delete old records and tasks | the newest record, pending alerts and referenced tasks stay; what has expired goes |
| Result archive (`archive_task_results`) | files of archived results, compacted rows | read a page, write and sync a file, compact its rows | nothing leaves the database that is not in a complete file; no page skips a row |
| Configuration backups (`net/devices/configuration_backups.py`) | versions per device | collect or reuse, store one a day, keep ten | one a day, the newest days |
| Page cache (`net/infrastructure/page_cache.py`) | cached pages by epoch and generation, the saved session | look up, render, store, rotate, invalidate | own and topology changes are shown at once, all others in time |
| Login throttle | failure counters in the cache | count, block | outside the models |
| Collectors, data exchange, views, administration, agents | none shared | protocol I/O, parsing, rendering | outside the models: their outcomes are inputs |

How they interact: views and schedules enqueue tasks; a Worker claims a task and
its threads run targets; each published result is processed into alert states by
the executor, or later by any Worker's maintenance cycle; a closed task whose
results are all processed gets a summary with one outbox row per channel; the
cycle delivers the outbox. Domain tasks take the same road through the queue with
an audit row, a secret and a mirror beside it. An inspection also feeds topology
batches and configuration backups. The maintenance of a Worker polls the schedules
and sweeps old records and tasks besides.

What is hard to test here, and what the properties are for:

- threads of an earlier claim that are still inside an uninterruptible protocol
  call when the task is recovered, claimed again, cancelled or enqueued anew;
- processes that die between any two transactions;
- leases that run out while their holder is merely slow;
- clocks read before a lock is granted;
- results processed out of order, or twice, or behind results that fail for ever;
- messages accepted although an error was reported;
- several Workers that poll or sweep the same rows with lists read earlier;
- data fetched without locks and applied later, over edits made meanwhile;
- forms and sessions that save everything they have read;
- two rows (task and targets, task and audit row, event and outbox rows, directory
  and mirror) that are written by different transactions and must still agree.

## 2. Modules

| Module | Specifies |
|---|---|
| `TaskLifecycle` | abstract: the states of tasks and targets as a client of the rows sees them, without Workers, leases and threads |
| `SummaryOutbox` | abstract: the rows of a summary and the verdict on it as a client sees them, without Workers, batches, leases and tokens |
| `TaskQueue` | the queue, the Workers and their pool threads; implements `TaskLifecycle` |
| `TaskQueueProofs`, `TaskQueueRefinement` | proofs about `TaskQueue` |
| `AlertEvidence` | results, alert states, station events, summaries and the maintenance cycle |
| `AlertEvidenceProofs` | proofs about `AlertEvidence` |
| `AlertDelivery` | the outbox; implements `SummaryOutbox` |
| `AlertDeliveryProofs` | proofs about `AlertDelivery` |
| `DomainOperations` | the queue as far as domain tasks need it, composed with the audit row, the secret, the directory and its mirror; implements `TaskLifecycle` |
| `DomainClient` | the LDAP requests of one directory operation, beside other calls and administrators |
| `DomainProofs` | proofs about `DomainOperations` |
| `Schedules` | device and bound schedules, the pollers and the forms |
| `PeopleSync` | tests, previews, confirmations and synchronisations of people |
| `AccessSync` | windows and cursor of the door events |
| `SyncProofs` | proofs about `PeopleSync`, `AccessSync` and `DomainClient` |
| `Topology` | discovery batches, interfaces and links of managed devices |
| `PcLogs` | raw logs of one PC, their analyses and what is cleaned away |
| `Retention` | the sweeps over inspection records and finished tasks |
| `TaskArchive` | the command that archives and compacts old results |
| `MaintenanceProofs` | proofs about `Schedules`, `Retention` and `TaskArchive`, and `MCMaintenance` as a whole |
| `ConfigBackups` | the daily versions of one device |
| `PageCache` | the cached pages of one browser session |
| `StationProofs` | proofs about `Topology`, `PcLogs`, `ConfigBackups` and `PageCache`, and `MCStation` as a whole |
| `MCTaskQueue`, `MCAlertEvidence`, `MCDomainOperations` | small instances for TLC |
| `MCMaintenance` | `AlertDelivery`, `Schedules`, `Retention` and `TaskArchive`, what maintenance runs beside the queue |
| `MCStation` | `PeopleSync`, `AccessSync`, `Topology`, `PcLogs`, `ConfigBackups`, `PageCache` and `DomainClient` |

The modules are joined by what one hands to the next. `TaskQueue.Persist` and
`FinishCommit` are `AlertEvidence.Publish` and `Close`. The summary that
`AlertEvidence` makes is the one `AlertDelivery.CreateSummary` creates rows for:
the code does both in one transaction, and the two modules describe its two
halves. `DomainOperations` carries its own short queue, because its fences
differ (they compare the attempt) and its main thread does more between claiming
and closing. That it still moves its rows as the task queue moves them is a
property, `ImplementsTaskLifecycle`: both queues implement the one `TaskLifecycle`, whose
`abortable` tasks, none in `TaskQueue` and the password tasks here, are those an executor
may break off (`Abort`). The newer modules are about one component each and take what the queue does
to their task (begin, recover, cancel, a thread that outlives its claim) as actions of
their own, with the fence the component itself has.

`MCMaintenance` and `MCStation` put components that share no rows into one instance.
Their variable `part` names the component that moves; the others keep their first
initial state. No step of one component reads or writes a variable of another, so a
property of one that holds while the others rest holds when all of them move: the
interleavings of independent parts add states but no behaviour of any part.

### TaskQueue

One action is one database transaction or one step in a Worker's memory. Where
code reads something, lets go and uses it later, the read is an action of its own.

| In the model | In the code |
|---|---|
| `Enqueue`, `Cancel` | `_enqueue_task`, `_cancel_task_once` |
| `Recover(w, R)`, `Claim(w, R, t)` | `recover_expired_tasks`, `claim_next_task`. `R` is any part of the expired tasks, since the clock is read before the rows are locked |
| `LoadTargets`, `Submit`, `Renew`, `HeartbeatError`, `Abandon`, `MainError` | `_execute_claimed_task` and `run_once` |
| `FinishRead`, `FinishCommit` | `finish_task`: the time is read, then the row is locked |
| `BeginTarget`, `Persist`, `Refused`, `ThreadError` | `_begin_target`, `_persist_collection`, the stale returns, exceptions in `_run_target` |
| `Expire`, `Stop`, `Crash` | time, the stop event of the service, the death of a process |
| `lease[t]` | `lease_expires_at` against the clock: none, live, expired |
| `ahead[t]` | `available_at, created_at`: which queued tasks sort before `t` |
| `scope_key[t]` | `TaskRun.scope_key`, drawn from `Scopes` when the task is enqueued |
| `records[x]` | how many inspection records exist for a target |
| `threads` | pool invocations with the attempt of the claim that submitted them |

A successful renewal leaves a live lease live, so it is not an action; `Expire`
may happen at any moment, which covers every renewal that comes too late. A
collection is abstracted to its outcome. The order of targets inside a task is
left open. The attempt of a target that is already running is not a column of the
model: `_begin_target` counts it but nothing outside the domain and PC executors
reads it.

### AlertEvidence

`Publish` gives a target any result its executor can produce. `InspectionResults`,
`PlainResults`, `AnalysisResults` and `BareResults` say which these are, from
`evaluate_device_issues`, `_collection_report`, `prepare_log` and the failure
paths. `finding_state` is `findings_for_target` with the normalisation that
follows: what a result says of one key (`says_abnormal`, `says_normal`). `Process` is `process_target_findings` in
one transaction; `ProcessFails` is the rolled-back transaction after which
`process_persisted_target` notes the attempt, so that the target sorts behind the
others (`retried` is that order). The maintenance cycle reads a list of at most
`Limit` rows and works through it, and another Worker may have done the rows
meanwhile. `inventory` holds the immutable columns of the rows (task of a target,
type of a task, device or computer); an instance lists the inventories it starts
from.

Severities are two-valued: `info`, or anything worse. The people on a roster
without any log, which an analysis adds to the abnormal ones of its summary, are
left out.

### AlertDelivery

`lease_token` is the number of the claim that drew it: a uuid4 never repeats and
neither does `attempt_count`. `Send` leaves open whether the channel accepted the
message when the answer is a failure. `SeenInLoop` is the state in which
`_claim_deliveries` refreshes an event: in the middle of its loop, when later rows
of the batch still have their old status. `inbox`, the messages a channel has
accepted, is external. `SummaryOutbox` sees of a row whether it is open (`pending`,
`sending` and `retry` are the same to it), sent or failed, its attempts and the messages
of its channel; an action of the outbox is there one step of every summary, in which its
rows are added, attempted, accepted or closed and its verdict follows, or nothing happens.

### DomainOperations

The main thread goes through `Prepare` (list targets, consume the secret),
`MarkRunning`, `Submit`, `Drain`, `FinishTask`, `Aggregate` and `Leave`, which
aborts a password task whose guard is set. A thread begins its target, calls the
directory outside any lock (`WriteDirectory`, `ReadDirectory`) and publishes under
the fence. `directory[d]` counts the changes of a name and `mirror[d]` is the last
change the local tables know, so "stale" means "smaller". The requests of one LDAP
action are abstracted to changed or not, success or not; `DomainClient` has them.

### DomainClient

A call of `DomainClient.execute` is a sequence of requests, and `client_call[c].at` is
the next one or the stage it has reported. `Change` is what a request that writes can do:
it is carried out and confirmed, carried out with its answer lost, or neither; `refused`
and `unconfirmed` are what `_execute` reports then (the two failures of the addition in a
move are one). `asserted` is the assertion control of `_modify_uac`, `ControlUnavailable`
leads to `_modify_uac_compatible`. `CompareAdded` and `CompareRemoved` accept a change
that an earlier call of the same task has made. A call started with the stage
`user_created_password_pending` begins at `MatchUser`; in the code only
`retry_failed_domain_operation` starts one. `known` is history: the object still is the
one this call has created or checked. Administrators edit flags, groups and the primary
group, and delete the object or give its name to somebody else.

What the model shows and no property forbids: on a server without assertion controls a
call may overwrite another flag, as the comment in `_modify_uac_compatible` says; a
thread left over from a cancelled move may cross with a later move in the opposite
direction, after which the user is in neither group (`StaysMember` therefore speaks of
moves in one direction); and when a name changes hands between the check and the write of
a recovery, the stranger gets the password.

### Schedules

A poll is `ListDue` (the query without locks), `EnqueueDue` (one schedule in its
transaction: lock, check again, enqueue), `Classify` and `RecordFailure` (what a
refusal was, decided and written after that transaction has ended), `EndPoll`. Each
Worker has its own clock reading. `OpenEdit` and `SaveEdit` are the device profile's
form, which reads the row without a lock and saves every column; `EditBound` is the
form of a bound schedule. `next_occurrence` counts in ticks of a day; the program's
zone, Asia/Shanghai, has no daylight saving. `runs` remembers the last two enqueues of
a schedule, for `BoundRunsAreSpaced`.

### PeopleSync

An attempt goes through `StartFetch`, `Fetch`, `ReadSource`, `ComputePreview`, then
`ApplySync` (of a synchronisation) and `PublishPeople`. `Fetch`, `ReadSource` and the
reading of the people are separate statements without locks. `is_current` is the
comparison of the signed differences with rows and source at application time.
`synchronised` says what a synchronisation makes of one row without the differences;
`ApplyIsSynchronisation` compares the two. `ImportPeople` is an import from a file, in one
transaction; all its rows get the same activity and keep their departure. `PublicationRaises`
is an exception in the publication, after which the Worker publishes a failure. A person's columns are one content.

What the model shows about the code and no property forbids: a slow attempt may
read the source after another application and still carry an older directory, which it
then writes over the newer one; a person who comes back keeps the departure date and
counts as departed in the device pages (`index/devices/views.py:228`); a lost lease
reports "本次同步未写入人员数据" although an earlier attempt may have applied.

### AccessSync

Time is in ticks, `TicksPerSecond` of which make a second: windows are cut to whole
seconds (`in_window`) and cursors are not. `OpenPlatform` and `SavePlatform` are the
platform form, which saves the row as it has read it, and with it an old cursor. That
may only repeat events that are already recorded, with one exception the property names:
a form that has read a null cursor puts it back, and the next window starts anew.
`first_start` is the start of the first successful window since. The platform is
external and is assumed to know an event at once: a door that was offline and reports
later is behind a cursor that nothing asks again for.

### Topology

Interfaces (`Ports`) of managed devices; `wiring` is which are really connected. A
target begins a batch, discovers (what it hears is read without locks), completes or
fails it, and may be retried, which reuses the batch. `stable_link_key` depends on what
is known when a link is seen. Neighbours that are unknown or ambiguous are left out, and
`complete_topology_batch` is one step, although two of them may save one link at the
same time (`net/topology/service.py:105` reads without a lock). After a lost lease the
batch of the first attempt is already cancelled, so a retry's evidence is dropped. A
completed batch makes the interfaces in its payload `known`: those with a neighbour always
are in it, the others may be.

### PcLogs

Uploads name a content; `StampOf` orders contents by the time the PC reports.
`latest_logs`, `in_use` and `has_newer` decide what is retained, `is_active` analyses
hold a log. One analysis of the PC is active at a time and each publishes one row, so the
rows are a set whose order is that of their tasks. The setting that keeps one log a day can change at any moment. What an
analysis finds is in `AlertEvidence`.

### Retention

`ListExpired` and `DeleteExpired` are the two statements of
`cleanup_inspection_records`; the second repeats the condition on alerts only.
`ListHistory` and `RemoveTask` are `cleanup_task_history`. A task is `pinned` by what
`_strongly_referenced` finds beside a record: a topology batch or a domain operation from
the time it finishes, an alert from the time its results are processed, which may come
after a Worker has listed the task. `ReferencedTasksStay` says that neither a pinned task
nor one whose record is stored is removed. `RemoveByHand` is the
administration: when a person removes the newer record between the two statements, the
listed one has become the newest and is deleted all the same, so `NewestRecordStays`
leaves out devices touched by hand. When as many of the oldest finished tasks as one
pass lists are held for ever, no other task is ever removed
(`net/inspections/retention.py:122`): a property that removable tasks go is violated, and
neither code nor tests promise it.

### TaskArchive

A command of an operator is `ReadPage` (one query after the cursor), `CompleteArchive`
(rows, trailer and both syncs), `CompactRow` for each row of the file, and `Report`, which
gives the next cursor; `CommandFails` is any error or death, after which the page is done
again into a new file. `snapshot[t]` has the details, is compact, or the row is gone;
`evidence` are the results whose record repeats the details. The documentation asks for a
maintenance window; the model lets commands overlap with retention and with each other.
Previews change nothing and are left out, as is the removal of topology observations.

### ConfigBackups

`Collect` reuses a version of today or reads the configuration; `BeginPublication` fixes
the day, `Publish` stores after waiting for the asset. A version that is older than all
the kept days is stored and dropped in the same transaction, and reported as a success.

### PageCache

A request loads its session when it comes and saves it, if at all, when it is answered.
`Lookup`, `Render` and `StorePage` are a display page; `StartPost`, `CommitPost` and
`EndPost` rotate the epoch; `FailPost` is a POST that ends with a server error, after its
commit or before: its session is not saved, so the old epoch stays and the change is
promised to the session in time only, not at once. `StartList`, `EndList` are a list page that takes a value out
of its session and saves all of it (`restored` tells that it brought an older epoch
back). `CommitTopology` and `Invalidate` are the commit and its hook, which may be lost
with the cache. `promised` is what a request that comes now must be shown. "Within the
TTL" means the lifetime of a page plus the time a request may take to render it
(`RequestTime`).

## 3. Runs

`tlc -config <cfg> <module>`, each within five minutes on two cores
(`maintenance` and `station` take the longest).

| Run | Module, configuration | Instance | Shows |
|---|---|---|---|
| `queue_safety` | `MCTaskQueue`, `TaskQueueSafety.cfg` | one task, two targets, two Workers, three attempts, pool of two | `TypeOK`, `PublisherIsCurrent`, `OnlyRunningTasksRun`, `RecordsMatchStatus`, `SummaryMatchesTargets` |
| `queue_two_tasks` | `MCTaskQueue`, `TaskQueueTwoTasks.cfg` | two tasks of one target each, of one scope or of two, two Workers, two attempts | `ScopeHasOnePublisher`, `ImplementsLifecycle` |
| `queue_liveness` | `MCTaskQueue`, `TaskQueueLiveness.cfg` | one task, two targets, pool of one; one Worker survives, one may stop or die | `EnqueuedTaskEnds`, `WorkerReturns` |
| `maintenance` | `MCMaintenance`, `Maintenance.cfg` | delivery: one summary, two channels, two Workers, batches of two, two attempts; schedules: a device schedule and a bound one, two Workers or a person who edits; retention: three tasks and one Worker, or two tasks, two Workers and a removal by hand; archive: three results, pages of one, two operators, three commands, one removal | `MaintenanceTypeOK`, `HeldRowsCount` (`MessagesBounded` and `LatestAnswerCounts`), `ImplementsOutbox`, `ClosedRowsStay`, `DeliveryEnds`; `OccurrencesAreKept` (`BoundRunsAreSpaced` and `RefusalIsCurrent`), `DueSchedulesRun`; `NothingNeededGoes`, `RecordsExpire`; `ArchiveLosesNothing` |
| `station` | `MCStation`, `Station.cfg` | each of the seven components in the small instances the module lists | `StationTypeOK`; `ApplyIsSynchronisation`, `SuccessIsApplied`; `NoGapBehindCursor`; `StaleNeedsTwoBatches`, `TopologyConverges`; `NeededLogsStay` (`LogsAreKept` and `LastAnalysisStays`); `NewestDaysAreKept`; `InvalidatedPagesGo`, `ChangesShowInTime`; `CallsKeepToTheirRequest` |
| `access_window` | `AccessSync`, `AccessWindow.cfg` | one platform, an administrator who asks whenever it is possible | violates `SourceIsCollectedAgain` |
| `evidence_safety` | `MCAlertEvidence`, `AlertEvidenceSafety.cfg` | two inspections of one device, or one analysis with two logs of one computer; every result the executors can publish | `StateFollowsNewest`, `RecoveryFollowsAlarm`, `NoFalseRecovery`, `SummaryIsSettled` |
| `evidence_liveness` | `MCAlertEvidence`, `AlertEvidenceLiveness.cfg` | two analyses, one with a target whose processing always fails; passes that list one row; one Worker that keeps dying | `EvidenceSettles`, `SummaryIsMade` |
| `evidence_sync` | `MCAlertEvidence`, `AlertEvidenceSync.cfg` | two synchronisations of one configuration | violates `LaterSuccessRecovers` |
| `domain_safety` | `MCDomainOperations`, `DomainSafety.cfg` | a password task with two targets, or another operation beside a synchronisation of the same name; two Workers, two attempts | `PasswordWrittenOnce`, `AuditMatchesTask`, `MirrorNeverRegresses`, `ImplementsTaskLifecycle` |
| `domain_secret` | `MCDomainOperations`, `DomainSecret.cfg` | the password task | violates `SecretNotRetained` |
| `domain_audit` | `MCDomainOperations`, `DomainAudit.cfg` | the password task, one Worker that survives | violates `AuditFollowsTask` |

What the passing runs say:

- **A pool thread publishes only for the current claim** (`PublisherIsCurrent`),
  although `_persist_collection` compares the Worker's name and not the attempt.
  The reason is that a Worker leaves a claim only with an empty pool: replacing
  `Drained` by a test that does not wait breaks the property. This is a contract
  between two files that neither states.
- **A scope has one publisher** (`ScopeHasOnePublisher`), also while the threads of
  a cancelled task are still inside protocol calls and the scope has been enqueued
  and claimed again.
- **Recovery, cancellation and closing leave nothing behind**: only running tasks
  have running targets; records and statuses match; the three ways the counters
  are computed (`target_progress`, `cancel_progress`, `_finish_locked`) agree.
- **`finish_task` may accept a lease that expired while it waited for the lock.**
  The model has that step (`FinishRead` before `FinishCommit`), and it is harmless:
  nobody can have recovered the task, since the row still names the Worker and is
  still running.
- **The outbox sends at most one message per attempt** and never loses the answer
  of the latest claim. It does not promise one message: a channel may get a summary
  again after a lost answer, a death between sending and recording, or a lease that
  ran out while its row waited behind slower rows of the same batch (the lease of
  the whole batch starts when it is claimed). `README.md:203` speaks of one summary
  per channel; the code bounds the number by `max_attempts`. To a client the outbox is
  `SummaryOutbox` (`ImplementsOutbox`): a row says sent only if a message was accepted,
  and the verdict on a summary fits its rows after every step, also when it is computed in
  the middle of a batch. What `SummaryOutbox` asks includes `EventMatchesRows`, which is
  therefore no property of the run but the lemma its proof rests on.
- **Alert states follow the newest result** whatever the order of processing, and
  each abnormal state is backed by the event of the result that says so. A recovery
  always follows an alarm for the same device and finding, and an incomplete run
  never recovers what it did not see.
- **A poison result does not pin the replay.** Noting the attempt behind the others
  is what makes `EvidenceSettles` and `SummaryIsMade` hold with a list of one row.
- **A password is written once at most** over every crash, retry and lost lease,
  because the secret is deleted when it is consumed; **the mirror never goes back**,
  because the two enqueue functions exclude each other under one row lock and every
  publication is fenced. Two enqueue functions, an executor with its own fences and a
  recovery that knows nothing of either move domain tasks; they live the life of any task
  (`ImplementsTaskLifecycle`), except that a password task may be aborted.

- **A bound schedule enqueues one task per occurrence** (`BoundRunsAreSpaced`), with two
  Workers whose clocks were read at different times, because the check is repeated under
  the lock. It does not hold of device schedules, whose form writes an old `next_run_at`
  back over the one a Worker has just moved (`index/inspections/tasks.py:367`).
- **A recorded refusal is current** (`RefusalIsCurrent`): `_record_schedule_failure`
  decides outside the transaction but compares what it overwrites.
- **A schedule that is refused holds up no other** (`DueSchedulesRun`).
- **Differences are applied to what they were computed from** (`ApplyIsSynchronisation`):
  whatever was edited, confirmed twice, recovered or switched off between fetch and lock,
  every application makes of the people at that moment the synchronisation with one
  complete directory.
- **No event is lost behind the cursor** (`NoGapBehindCursor`), in spite of windows cut to
  seconds, failures, retries and forms, with the exception named above.
- **Two misses are two batches** (`StaleNeedsTwoBatches`), also when targets are retried,
  and **one cable ends as one current link** (`TopologyConverges`), in whatever order its
  ends are collected.
- **Logs, results, records and versions that are needed stay** (`NeededLogsStay`,
  `NothingNeededGoes`, `NewestDaysAreKept`), with several Workers
  deleting from lists that others have made out of date; and `RecordsExpire`: what is not
  needed goes, although a pass lists one row only.
- **Archiving loses nothing** (`ArchiveLosesNothing`): details that a row has lost are in a
  complete file, and going on from the cursors of the pages leaves no row behind, although
  commands are killed, rows disappear between pages and another operator compacts them.
- **Pages** (`InvalidatedPagesGo`, `ChangesShowInTime`): the key is computed again before a
  page is stored, which is why a page rendered before a change is not found after it.
- **A directory call changes what it was asked for** (`CallsKeepToTheirRequest`): with
  assertion controls no flag of another call or administrator is lost (`FlagsAreKept`);
  the password of a creation goes to the user it was meant for (`PasswordIsOwn`); moves
  between two groups that repeat each other's requests leave the object in one of them
  (`StaysMember`), since the addition is known before anything is removed.

### Bounds, and why they are enough

- *Two Workers.* All fences compare one holder with one other. A third Worker could
  only take the place of one that is idle or dead.
- *Two or three attempts.* Two show a retry, a stale first holder and exhaustion;
  the third, in `queue_safety`, adds a claim between the first and the last one. The
  theorems cover any number. (`MAX_TASK_ATTEMPTS` is 3 in the code.)
- *Two targets or two tasks.* Two targets of a task make all verdicts (success,
  partial, failed), a pool smaller than the work, and counters that can disagree.
  Two tasks make an order of claims and recoveries that move several rows.
- *Two channels, batches of two.* Enough for an event to be refreshed in the middle
  of a batch and for one row to wait behind another.
- *Two results of one device.* Alert states are kept per device and finding, so two
  results of the same one, in both orders, exercise every comparison of times.
- *`Limit = 1`* in `evidence_liveness` is the hardest list length: one failing row
  fills it.
- *`ProcessFails`, `ProcessSummary`*: besides poison targets, each row fails at most
  on its first attempt, so that the order of retries stays bounded.

- *Schedules*: three ticks with a daily and an interval schedule give two occurrences and
  a poll that spans one; two interventions let a person act before and after a poll.
- *Retention*: limits of one row are the hardest; three finished tasks give a newest
  record, a removable one and one that is held; two days pass the age limit.
- *Archive*: three results in pages of one make cursors that rows disappear behind; three
  commands allow a page, its repetition and one of another operator.
- *People*: one edit, import or change of the directory, two tasks, two attempts; registers and directories hold a person of
  every class (own, claimable, of another source, absent, skipped, unknown).
- *Access*: two ticks a second make a fraction that the window cuts; a window of three
  ticks and one event per synchronisation reach both limits; three synchronisations.
- *Topology*: four collections let a cable move and the old link go stale; three
  interfaces on two devices let a link change its key, and leave one without a cable.
- *PcLogs*: three contents on two days, one late. *ConfigBackups*: two versions kept of
  four days, three inspections. *PageCache*: four requests, four plans of faults.
- *DomainClient*: three overlapping calls, two groups, two flags, one administrator; five
  plans (flags with and without assertion controls, moves, a move beside an addition and
  a removal, creations with recoveries). Three is `MAX_UAC_WRITE_ATTEMPTS`; one
  administrator and two other calls fail three assertions of a call.

Plans (`people_plan`, `topology_plan`, `pc_plan`, `history_plan`, `cache_plan`,
`client_plan`, `deployment`) are chosen once in the initial state: they divide what may happen into
several smaller state spaces instead of one that holds all of it at once.

Each Worker is a process incarnation (`default_worker_id` draws a fresh uuid): one
that died does not come back, it is another member of `Workers`. Deadlock is
checked only for `AlertEvidence`, whose maintenance cycles never end; in the other
modules everything may be finished or every Worker dead.

Symmetry: Workers are interchangeable in `queue_safety`, `queue_two_tasks` and
`domain_safety`, where `Reliable` is empty, and so are scopes; no liveness property
is checked under symmetry.

### Fairness

- Main threads poll and protocol calls are bounded by timeouts, so a Worker that is
  alive takes the steps open to it: weak fairness of its claims, recoveries and
  main-thread steps, and of each pool thread. Nothing is assumed of enqueueing,
  cancelling, stopping or dying, nor of a collection's outcome.
- `TaskQueue`: a lease that nobody can renew any more expires (`~Renewing(t) /\
  Expire(t)`); a lease in use may expire but need not.
- `AlertDelivery`: leases and retry delays pass; nothing limits how often a process
  dies. Each death costs a claim, and claims are bounded.
- `Schedules`: a steady Worker polls for ever and every task ends (`EnqueuedTaskEnds`);
  nothing is assumed of people, of sources or of the other Workers.
- `Retention`: a steady Worker sweeps for ever; days need not pass.
- `AccessSync` (only in `access_window`): an administrator who asks whenever the page lets
  him, Workers that run, a platform that answers. Time is not fair: the violation is a
  behaviour in which everybody does what he can.
- `AlertEvidence`: a maintenance cycle is repeated for ever (`_maintenance_loop`);
  tasks are closed, which is what `EnqueuedTaskEnds` shows of the queue. `Reliable`
  Workers do not die in the middle of a cycle: if each died in every cycle, nothing
  could be promised.

## 4. Proofs

Every module whose name ends in `Proofs`, and `TaskQueueRefinement`, is checked by
`tlapm <module>.tla`. Lemmas that the listed theorems rest on are stated beside them.

| Theorem | States | For |
|---|---|---|
| `QueueTyped` | `Spec => []TypeOK` | every number of tasks, targets, Workers, scopes, attempts, threads |
| `PublisherFenced` | `Spec => []PublisherIsCurrent` | the same |
| `NoOrphanTarget` | `Spec => []OnlyRunningTasksRun` | the same |
| `OneRecordPerTarget` | `Spec => []RecordsMatchStatus` | the same |
| `ScopePublishesOnce` | `Spec => []ScopeHasOnePublisher` | the same |
| `SummaryAgrees` | `Spec => []SummaryMatchesTargets` | the same |
| `EndedStaysEnded` | `Spec => TerminalIsFinal` | the same |
| `QueueRefinesLifecycle` | `Spec => ImplementsLifecycle` | the same |
| `OutboxTyped` | `Spec => []TypeOK` | every number of events, channels, Workers, attempts and every batch size |
| `LatestAnswerIsRecorded` | `Spec => []LatestAnswerCounts` | the same |
| `MessagesAreBounded` | `Spec => []MessagesBounded` | the same |
| `EventsMatchRows` | `Spec => []EventMatchesRows` | the same |
| `HeldRowsAreAccounted` | `Spec => []HeldRowsCount` | the same |
| `OutboxKeepsItsPromise` | `Spec => ImplementsOutbox` | the same |
| `ClosedRowsAreFinal` | `Spec => ClosedRowsStay` | the same |
| `NewestResultDecides` | `Spec => []StateFollowsNewest` | every number of targets, tasks, findings, results and Workers, every order of replays |
| `RecoveriesFollowAlarms` | `Spec => []RecoveryFollowsAlarm` | the same |
| `RecoveriesAreTrue` | `Spec => []NoFalseRecovery` | the same |
| `SummariesStayTrue` | `Spec => []SummaryIsSettled` | the same |
| `AuditAgrees` | `Spec => []AuditMatchesTask` | every number of operations, synchronisations, targets, Workers and attempts |
| `PasswordsWriteOnce` | `Spec => []PasswordWrittenOnce` | the same |
| `MirrorGoesForward` | `Spec => MirrorNeverRegresses` | the same |
| `DomainTasksKeepTheLifecycle` | `Spec => ImplementsTaskLifecycle` | the same |
| `RequestsAreKeptTo` | `ClientSpec => []ClientTypeOK /\ CallsKeepToTheirRequest` | every number of calls, flags, groups and administrators' edits |
| `AppliesAreSynchronisations` | `PeopleSpec => ApplyIsSynchronisation` | every set of people, contents, directories, registers and tasks, every number of attempts and edits |
| `SuccessesAreApplied` | `PeopleSpec => []PeopleTypeOK /\ []SuccessIsApplied` | the same |
| `CursorLeavesNoGap` | `AccessSpec => []AccessTypeOK /\ []NoGapBehindCursor` | every number of doors, events, attempts and synchronisations, every length of a second, of a window and of the look back |
| `OccurrencesRunOnce` | `SchedulesSpec => []SchedulesTypeOK /\ []OccurrencesAreKept` | every number of schedules, Workers, forms and ticks of a day |
| `RetentionTakesNothingNeeded` | `RetentionSpec => []RetentionTypeOK /\ []NothingNeededGoes` | every number of tasks, devices, Workers and removals, every limit |
| `ArchivingLosesNothing` | `ArchiveSpec => []ArchiveTypeOK /\ []ArchiveLosesNothing` | every number of results, operators, commands and rows of a page |
| `MaintenanceIsTyped` | `MaintenanceSpec => []MaintenanceTypeOK` | all that the outbox, schedules, retention and archive are parameterised by |
| `StaleAfterTwoBatches` | `TopologySpec => []TopologyTypeOK /\ []StaleNeedsTwoBatches` | every number of devices, interfaces, cables, batches and retries |
| `DiscoveryConverges` | `TopologySpec => []TopologyConverges` | the same |
| `NothingNeededIsCleaned` | `PcSpec => []PcTypeOK /\ NeededLogsStay` | every number of contents, uploads, analyses and attempts |
| `NewestBackupsStay` | `BackupsSpec => []BackupsTypeOK /\ []NewestDaysAreKept` | every number of inspections, days and kept versions |
| `ReplacedPagesGo` | `PageCacheSpec => []InvalidatedPagesGo` | every number of requests, changes and outages, every lifetime |
| `ChangesComeThrough` | `PageCacheSpec => []PageTypeOK /\ []ChangesShowInTime` | the same |
| `StationIsTyped` | `StationSpec => []StationTypeOK` | all that the seven components are parameterised by |

Assumptions on the constants, which TLC evaluates in every run of these modules:

- `TaskQueueAssumption`: targets are finitely many, each belongs to a task and each task
  has one, attempts and pool size are positive, the null values are no tasks or Workers.
- `AlertDeliveryAssumption`: rows are finitely many, each of an event; attempts and batch
  size are positive. `AlertEvidenceAssumption`: targets are finitely many.
- `DomainAssumption`: inventories are typed, a synchronisation has one target
  (`enqueue_domain_sync`). `ClientAssumption`: plans are typed, an object that nobody has
  has neither flags nor groups, a call may write at least once.
- `PeopleAssumption`: directories and registers have the types of the columns, an
  employee that is absent or skipped has no content. `AccessAssumption`: a second, a
  window and the number of attempts are positive, the clock starts within its range.
- `SchedulesAssumption`: intervals and days are positive, the clock has room for its
  first tick, no schedule is a device and a bound schedule at once. `RetentionAssumption`: the settings are typed, the lists of a
  pass have room for a row. `ArchiveAssumption`: results are finitely many positive
  numbers, a page has room for a row.
- `TopologyAssumption`: a cable joins two interfaces of different devices.
  `PcLogsAssumption`: a plan with analyses has attempts. `BackupsAssumption`: at least
  one version is kept. `PageCacheAssumption`: a page lives at least a second, a request is
  of one kind, the marks for "none" are neither epochs nor generations.

**Queue.** None of the properties is inductive. `TaskQueue!IInv` adds what they rest
on:

- `AttemptsLeft`: a queued task has an attempt left. Without it a claim could pass
  the limit, and the type of `attempt_count` would not be kept.
- `BusyWorkers`: a busy Worker knows its task and its claim number, and what it has
  not submitted belongs to that task.
- `ThreadsOfClaim`: a pool thread belongs to the claim its Worker is executing. Every
  step that leaves a claim does so with an empty pool.
- `OwnerIsLatest`: as long as the row names a busy Worker and is running, that
  Worker's claim is the latest. A recovery changes the name or the status, and a
  Worker claims only when idle, so it cannot come to own a task under an old number.

`PublisherIsCurrent` is then immediate: the fence gives a running row that names the
thread's Worker, `ThreadsOfClaim` gives the claim number of the thread and
`OwnerIsLatest` that it is the row's. `ScopeHasOnePublisher` rests on
`ActiveScopesUnique` (no two active tasks have one scope): only an enqueue makes a task
active, and it looks for another active one in its own transaction. `NextIInv` combines one lemma per action, each with
one step per conjunct. For
`SummaryMatchesTargets` the invariant says more than the property: `CountsExact`, the
counters of every task, in whatever state, are the numbers of its target rows, so that each
of the three ways to compute them starts from the right ones; and `VerdictFits`, a closed
task has no active target and the status those targets give. The refinement maps each action to `Admit`, `Take`, `Work`,
`GiveBack`, `Retake`, `Close`, `Cancel` or a stutter of `TaskLifecycle` for each task;
`Abort` is never taken, since no task of the queue is `abortable`.

**Outbox.** `AlertDelivery!IInv` adds `RowsAgree` (a row that can be claimed has an
attempt left, and the token of a row being sent is that of its latest claim),
`HeldClaims` (no Worker holds a claim from the future, and the latest claim of a row
is open or was given up, unsent or unrecorded) and `HeldOnce` (a claim is held by one
Worker at one stage). `HeldOnce` is what makes recording safe: when one answer closes
the row, no second holder of the same claim is left whose answer would then be
dropped. `MessagesBounded` rests on `SendInv`: a batch holds a row once (`BatchOnce`), so
a Worker that sends gives up its place among the finitely many holders of the row
(`FlightBound`) in the step that may add a message, and a Worker takes such a place only
in the step that counts an attempt. `EventMatchesRows` looks at one event and all its
rows, but a claim closes rows of several events one after the other and refreshes each
event with what the rows say at that point of its loop. `EventsFit` is therefore stated of
an event and any statuses (`Fits`), shown of the state in the middle of the loop, and
carried to its end: what the batch changes afterwards belongs to the same verdict.
`Accepted` says that a success that is reported, by a Worker or a row, has a message in
the channel.

For the refinement each action is first told as what it does to one row (`RowStepIs`:
nothing, or one of `Add`, `Attempt`, `Accept`, `Close`), which is where the invariants are
used: a sender that gets a message accepted held one of the claims, so there were fewer
messages than attempts (`SendInv`), and a row that is recorded as sent has its message
(`Accepted`). Whether the verdict changes with the rows is then a statement about one
summary and the rows before and after (`VerdictsAre`, from `EventsFit`), and
`StepRefines` puts the rows of all summaries together. `VerdictsStay` follows from
both: closed rows stay closed, so delivered and failed are computed again with the same
result, and the row that was sent keeps a partial verdict from falling back.

**Evidence.** Results are processed in any order, and replays may come much later.
`NewestDecides` says that a finding which some processed result tells of has the state of
one of them that no other finished after, and that this result has announced the finding if
the state is abnormal (`Decides`). A recovery needs an abnormal state and a later result,
so it has an earlier announcement. `EventsStand`: events belong to processed targets, and a
recovery speaks only of what its own result finds normal. `ProcessedStands`: a result that
was processed is the one that is stored and never another, which is why the evidence of a
summary stays what it was (`SummariesStand`).

**Domain tasks.** `DomainOperations!IInv` says whose each memory is: a Worker that has
prepared lists targets of its own task (`MemoryFits`), and a call belongs to the present
claim of a running Worker, which has taken the target off its list and submits nothing
else for that name before the call is over (`CallsBelong`). The four results add:

- *audit*: `VerdictStands`, a Worker aggregates only what its own transaction closed, and
  a task that has ended never changes again (`Untouched`). So it does not matter how late
  the second transaction comes.
- *password*: `OneKnows`, of the Workers that hold the task one at most has read the
  secret; `UnusedIsUnwritten`, as long as the secret is there nobody has written
  anything; `ListedIsUnwritten`, what is on the list of the Worker that knows it has not
  been written. Consuming the secret deletes it, hence the next claim knows nothing.
- *mirror*: `ScopesApart`, a synchronisation is active alone and two operations on one
  name are not active at once; `AnswersAreFresh`, what a call may still publish under
  the fence is not older than the mirror.
- *life cycle*: `TaskFits` (a task that waits has an attempt left and no running target, and
  no target is ever partly successful) and `ContextFits` (only the Worker of a password
  task believes that it knows a password, so no other task is aborted). `TaskFits` is
  kept by every step of the abstract life cycle, whatever the concrete action was
  (`LifeKeeps`); so it suffices to show of each action that it is such a step (`LifeStep`),
  once, and type, limit and refinement follow together.

**Directory calls.** `CallFits` ties the step of a call to its action, and keeps the
unconditional writes out where the server has assertion controls. `FlagsAreKept` follows,
since an asserted write is carried out only upon the flags that were read. `ObjectFits`:
the object a call knows has the name the call was given, and an object that nobody has is
empty. `MovesFit` is what `StaysMember` needs: while there are only moves between two
groups in one direction, the object is in the second group as soon as one call has made its
addition, and stays there.

**People.** `PeopleInv` carries, through the thread and the stored result of a preview,
what the signature stands for: `Previews` are exactly the differences of some register
and some directory without conflicts, together with that register. `is_current` then
makes that register the present one, and `AppliedIsSynchronised` compares the two
definitions row by row: a row is in exactly one of the differences or in none.
`OnlyApplicationsMark` shows that nothing else moves `last_synced_at`. For
`SuccessIsApplied` the invariant adds `ThreadFits`: a thread that reaches "applied" has
recorded its own number in its task, no later step of the task forgets it, and only
its own publication, fenced by that number, may say success.

**Door events.** `NoGapBehindCursor` speaks of one cursor, but three are alive: that of the
row, the one an open form will write back, and the start of the active window.
`AccessInv` says of each that everything since the first window is recorded before it
(`CursorCovered`, `FormCovered`, `WindowCovered`), that all of them lie in the past
(`TimesPast`), and that what a thread has fetched is all its window will ever have
(`FetchComplete`: the window ended when its task was created, so later events are behind
it). The cut to whole seconds is harmless because division is monotone (`SecondsGrow`).
A publication joins what was covered before the window to what was fetched of it.

**Archive.** A command works on a page it read once, while retention and other commands
change the rows. `ArchiveInv` keeps, for a command that compacts or reports, that its
page is one of its complete files (`FileIsComplete`), and for every running command that
its page has each remaining row between its cursor and its last row (`PageFollows`).
The second is a fact about the query: the rows of a page are those with fewer than a
page of candidates before them, so a candidate below a row of the page is in the page
too (`CandidatesFollow`, by cardinalities). Later steps only remove rows, so moving the
cursor to the last row of the page passes nothing that is not in the file.

**Retention.** A sweep deletes from a list that may be out of date. `ListedIsNotLast` says
what stays true of a listed record: another record of the device was stored after it, be it
deleted since or not. `LastRecordStands` says of every device whose records no person removed
that the last of all those ever stored still is. The second rests on the first, which is why
old lists do no harm. A list of tasks needs no such invariant: `RemoveTask` looks again for
whatever refers to the task, so `ReferencedTasksStay` is inductive with the types, and an
alert only ever pins a task that is still there.

**Schedules.** `RowExpects` says of every row that is stored, and of every row a form of a
device schedule has read and may write back, that it expects nothing before the occurrence
that follows its last task, and that a refusal it records is no older than that. For bound
schedules `BoundRowsExpect` says it of the last task there was, as long as they are switched
on. Both rest on what `next_occurrence` returns: a time after the one
it is given, and no earlier for a later one (`OccurrenceIsLater`,
`OccurrencesInOrder`). A poll's clock lies in the past (`PollsAreOld`), so that a poll
with an old clock and an old list finds the row changed.

**Topology.** `LinkInv` adds to `StaleNeedsTwoBatches` that the batches which missed a link
are complete (`MissesAreComplete`); a batch that can still be completed, by a first attempt
or a retry, is not among them, so each completion counts a new one. For convergence, `quiet` counts
the completions of a device since the cables moved last; from the first on its cabled
interfaces are known (`CompletedAreKnown`). `MovedAreMissed` and
`ProvisionalAreMissed` say of a current link that should not be there that it has no
fewer misses than the devices that would see it have quiet completions, so that two leave
none of them; and `CablesAreCurrent` says that a cable whose two devices were completed has its final link.

**PC logs.** `LogsFit`: for every log ever created a retained one of the same day is at
least as late, so nothing that is deleted was the newest. `TasksFit`: of the analyses only
the latest is active, and it has its log. A thread of an earlier claim may find its log
missing, but only after its task has ended (`AnalysisThreadsFit`), when its publication is
refused. `AnalysesFit`: each result is the only one of an analysis that succeeded, so the
last of a day is one row and no publication of another analysis replaces it.

**Backups.** The property is almost inductive. A version that is stored may be older than
some that are there, and the prune step may drop it at once: it removes the oldest of
one too many (`OldestGoes`, by cardinalities), which as many later days follow as are kept.

**Pages.** `StoredFit`: what a stored page shows is at least as new as the lifetime left to
it allows, because it is put in the cache at most `RequestTime` after its request came.
`GenerationsFit` says that nothing uses a generation of the future and that whatever is
rendered or stored under the present one is as new as the invalidation that brought it.
`OwnFits` says the same of an epoch and of every request that came with it; epochs are
those of finished requests (`EpochsFit`).

**Together.** `PartsOfMaintenance` and `PartsOfStation` show of the two composed
specifications that each implies the specification of every part: the others leave a
part's variables alone. What is proved of a part therefore holds of the whole, and so do
the type invariants, which is how `MaintenanceIsTyped` and `StationIsTyped` are proved.

### What is only model-checked

- Liveness (`EnqueuedTaskEnds`, `WorkerReturns`, `DeliveryEnds`, `DueSchedulesRun`,
  `RecordsExpire`, `EvidenceSettles`, `SummaryIsMade`): the proof system has no rules for
  `ENABLED`, which the fairness of the actions is about. These hold of the instances of
  section 3.
- That the violated properties of section 5 are violated, which is a matter of one
  behaviour each.
- That the instances meet the assumptions below the table, and that what the theorems are
  about can happen in them: every action is taken in some run.

No theorem rests on an induction over data: the models compute with sets, functions and
cardinalities, whose facts come from the library, and `RECURSIVE` occurs in none of the
modules.

## 5. Where the code and its text disagree

- `evidence_sync`, `LaterSuccessRecovers`. `findings_for_target`
  (`net/alerts/service.py:331`) gives a target without a record that succeeded no
  finding at all, so the failure alert of a domain or people synchronisation never
  becomes normal. `net/models/alerts.py:29` says that the scope is what "lets one
  failure alert recover when a later sync succeeds".
- `domain_secret`, `SecretNotRetained`. `consume_operation_secret` deletes an expired
  secret and raises; the error passes through the transaction of
  `prepare_domain_task_context` (`net/domain/executor.py:68`) and undoes the
  deletion. `net/inspections/worker.py:202` says "password text/ciphertext is never
  retained".
- `domain_audit`, `AuditFollowsTask`. `finish_task` and `aggregate_domain_operation`
  (`net/inspections/worker.py:291`) are two transactions; a Worker that dies between
  them leaves the audit row running for ever, since recovery looks at running tasks
  only. `AuditMatchesTask` shows that the row is only ever behind, never wrong.

- `access_window`, `SourceIsCollectedAgain`. A window starts at the cursor, since the page
  sends no range (`index/access/views.py:92`), and `enqueue_access_sync` refuses one of more
  than seven days (`net/access/tasks.py:48`): a platform that was not collected for a week
  is never collected again. `README.md:132` promises "按时段手动同步", and the error at
  `net/access/executor.py:77` asks for a smaller range that nobody can give.

Noticed without a run: `README.md:203` and `docs/operations.md:10` of the repository
say that people and domain synchronisation take no part in alerts, while
`ALERTED_TASK_TYPES` (`net/alerts/service.py:83`) lists both;
`retry_failed_domain_operation` (`net/domain/tasks.py:327`) is called by tests only;
`docs/database.md:98` says that old snapshots are kept until an administrator runs a
command, while the maintenance of every Worker removes finished tasks after 90 days unless
set otherwise (`net/inspections/retention.py:110`).

## 6. What is not modelled, and why

- *Row locks.* A transaction is one step. That is right for what the rows say (every
  decision is taken on rows locked in the same transaction, or the unlocked read is
  an action of its own) but says nothing of lock order: several transactions lock a
  target before its task, others the task first (`net/inspections/locking.py`,
  `net/domain/executor.py:221`). The database ends a cycle by failing one of them.
- *Snapshots built at enqueue time* (profiles, templates, targets): data that is
  never read again by the control described here, except as the scope key.
- *Domain operations*: `move_ou`, `unlock` and `must_change_password`, which are one
  unconditional request; the group tables of the mirror; the queue rows of
  `retry_failed_domain_operation`, which no view calls.
- *Topology*: unknown and ambiguous neighbours, the stored evidence, two batches that save
  one link in the same moment.
- *Retention*: tasks of before the retention setting existed.
- *Login throttle*: two counters in the cache with a time limit, one file.
- *Imports of devices*: one transaction each, on tables of no module; the rows of addresses
  are read without a lock and saved whole (`net/data_exchange/inventory_csv.py:404`), so an
  edit made meanwhile is lost.
- *Device collectors, file formats, views, administration, installation, demonstration
  data, endpoint scripts*: protocol input and output, parsing, presentation and one-shot
  scripts. They make up most of the lines of `src/` and keep no shared state that changes
  in steps of several actors, so the share of lines the map covers stays small.

## 7. What could come next

1. An abstract specification of the mirror of a directory, and the proof that
   `DomainOperations` implements it.
2. The lock sequences of all transactions, and the cycles among them.
3. Tasks of `DomainOperations` whose threads are calls of `DomainClient`, one instance.
4. Pure algorithms against reference definitions: next occurrence of a schedule on a
   calendar, evaluation of device issues, matching of people.
