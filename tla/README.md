# CloudMoo in TLA+

CloudMoo is a Django and Celery application that imports the resources of a
user's cloud accounts, checks their status periodically, keeps a log of status
changes and sends email alerts. This directory holds TLA+ models of its core,
the TLC configurations that check them, and TLAPS proofs of every safety property
that the passing runs check.
`PROJECT.json` maps every definition to the source lines it translates.

    tlc -workers 2 -config EmailOutbox.cfg EmailOutbox   # one run
    tlapm MonitoringCheckProofs.tla                      # one module of proofs

## 1. The system

Web requests and Celery workers share one PostgreSQL database (READ COMMITTED;
every statement is its own transaction outside `transaction.atomic`). Celery
beat sends the periodic tasks found in the table `PeriodicTask`. Workers
acknowledge late and are ended by time limits, so a task can be delivered twice
or be lost between two transactions.

| Component | State | Operations | Correct when | Module |
|---|---|---|---|---|
| Status checks (`apps/monitoring/tasks.py`, `models.py`) | `AssetMonitoringState` (one row per asset key, with `check_generation`), `AssetStatusLog` | `check_asset_status`, "check status now", `run_status_check`, `prune_status_logs` | overlapping checks never put an older answer over a newer one; row, log and alerts agree | `MonitoringCheck`, `CheckFence` |
| Scheduling and freshness (`schedules.py`, `_monitoring_state_stale`) | interval of the plan, `last_checked_at` | beat, time limits | checks that complete keep the monitor fresh | `CheckPacing` |
| Notification outbox (`email.py` and its tasks) | `AssetStatusEmail` | `send_status_change_email`, `retry_pending_status_emails`, `deliver_status_email` | no duplicate without a failure; every alert is settled | `EmailOutbox` |
| Cloud status and schedules (`run_cloud_sync`, `CoreCloud.save`, `UtilAsset.save`, the views) | cloud status, asset monitoring, their `PeriodicTask` rows | scheduled sync, webhook, sync button, settings form, repair command, monitoring switch | monitored assets are checked, others rest; pauses hold; invalid clouds recover, and their assets are checked again | `CloudSchedules` |
| Provider inventory (the collectors under `apps/console/cloud/`) | asset rows, `PeriodicTask` | paginated reads, reconciliation | only vanished resources are marked gone; listed ones are imported | `InventoryAdapters`, `InventorySync` |
| Provider check adapters (`apps/monitoring/checks/`) | none | map a provider's answer to a status | failed checks are silent; outages stay told; what is gone is not told to be in order | `CheckAdapters`, `CheckOutcomes` |
| Status timeline (`timeline.py`, `UtilAsset.get_status_timeline*`, the lists and pages of assets) | none, computed from the log and the state row | collapse, paging, status shown | every period is told once, dated right; paging misses nothing; the pages agree | `StatusTimeline`, `CheckOutcomes` |
| Cloud deletion (`CoreCloud.delete`) | all of the above | cleanup, then delete | nothing is left behind | the monitoring rows and the asset: `MonitoringCheck`; the rest is not modelled |
| Log retention (`prune_status_logs`) | log and outbox | nightly prune | see above | `Prune` in `MonitoringCheck`, `DeleteRows` in `EmailOutbox` |
| Webhook (`apps/api/v1`) | as a sync | `CloudSyncAPIView.post` | a sync of a paused cloud changes nothing | `Webhook` in `CloudSchedules` |
| Management commands | all schedules | create and repair, remove | repaired schedules follow the status | `RepairStart` in `CloudSchedules`; removal is not modelled |
| Metadata filters and redaction; accounts, plans, members; sign-in, two-factor, password reset, rate limiter; notification pages, settings, deployment | records, sessions, tokens, cache counters | request handlers | | not modelled, section 6 |

How they interact: a sync (beat, webhook or button) creates assets, whose
`save()` creates the periodic task; beat sends the check; the check writes the
state row, the log and the outbox in one transaction and then queues the event;
the event's task and the recovery beat drain the outbox; pages and emails read
the log back as a timeline. Deleting a cloud removes all of it, query by query.

The hard parts, listed as `hazards` in `PROJECT.json` at the line where they bite:
overlapping checks of one asset (beat, button, redelivery); deletion and import
under the same key while a check is in flight; crashes between commit, send and
commit; full-row saves of stale rows by unlocked requests; page numbers over a
list that changes; liveness through retries.

## 2. The modules

**`MonitoringCheck`**: one asset. A worker goes through `idle` → `loaded` (guards
passed) → `probing` (generation reserved, first transaction) → `observed`
(provider answered) → `publish` (second transaction committed, event not yet
queued). Actions are the code's steps between commits: `LoadPeriodic`, `LoadNow`,
`Start` (`_start_monitoring_observation`), `Observe`, `Discard`, `RecordError`,
`RecordHealthy` (`_record_monitoring_observation`), `Publish`, `Crash`, and what
else writes these rows: `ToggleMonitoring`, `Prune`, `BeginDelete`, `DeleteStep`,
`DeleteStepFails`, `Reimport`. Metadata is reduced to the values that
`compare_metadata` tells apart. The clock ticks at each provider answer, so no
two observations carry the same time (the code's `order_by('-timestamp')` leaves
ties open, microseconds apart in practice). Two ghosts: `born`, the job that
created a state row, and `aba`, whether a result reserved on a deleted row was
accepted.

**`CheckFence`**: the abstract promise of `check_generation`: a reservation
supersedes the earlier ones and only the newest check is recorded.
`MonitoringCheck` implements it with `running` = the checks between reservation
and record, `holder` = those whose generation is that of the living row.

**`CheckPacing`**: the same fence in discrete time; beat every `Interval`, checks
of any duration up to the soft limit, and the console's staleness rule. It implements
`CheckFence` as well, with `running` = the checks that have begun and not ended.

**`EmailOutbox`**: the outbox rows of one event. `deliver_status_email` is
`Begin`, `Accept`/`Refuse`, `Commit` under the row's lock; the status `sending`
is written and overwritten in one transaction, so no other reader sees it (the
recovery query's branch for stale `sending` rows never matches). `Crash` rolls the
delivery back, including the attempt it had counted.

**`CloudSchedules`**: one cloud and one of its assets. The scheduled sync writes
into `txn` and publishes it at `SyncCommit`; the sync button, the form, the repair
command and the switch write one statement at a time and wait for rows the
transaction has written. The webhook runs the same sync at any time, whatever the
cloud's status. A repair (`create_all_cloud_schedules`) loads a cloud and then takes
the form's steps from the cloud's schedule on, so `Editors` stands for both.
`TypeIsScheduled` says whether the asset's type is in the list of `UtilAsset.save`.

**`InventoryAdapters`**: one definition for each collector of the six providers, a
record of the traits that decide what a sync may import, mark and revive: how pages
end, what a failed request for details does, whose rows a collection is compared
with, the monitoring of a new row and whether its type gets a task, which listed
rows become active again, whether rows are marked through `save()`, and what
missing optional credentials do. `Traits` is the set of all combinations.

**`InventorySync`**: one family of resources under any of these records. Pages are
read one by one while resources come and go and regions or parents are withdrawn;
the complete collection is reconciled in one step: the scheduled sync is one
transaction, and its overlaps with the console are `CloudSchedules`' subject. What
a page contains is external. Collectors with equal traits are one family for TLC. Two
ghosts of a read: `throughout`, the resources listed ever since it began, and `seen`,
those listed at some time during it.

**`CheckAdapters`**: one definition for each check, a record from eight kinds of
answers (the resource working, broken, gone, missing from a good answer or without
its state; rejected credentials; a server error, a timeout or an unreadable body; an
object with none of the expected fields) to the status the check returns. The
vocabularies of the providers are reduced to one word each for working, for there but
not in use (`detached`) and for broken; the payloads kept as metadata are abstracted.
A check that asks in two ways has two records: load balancers of AWS, whose classic
kind has no state; aliases of keys, with and without a known key; Lightsail's disks
and addresses.

**`StatusTimeline`**: the log as checks write it, one check per tick, and both
timelines recomputed from it. `Window` stands for the 30 days or the plan's
retention; the limit of 10 000 rows is left out. An asset stable for longer than
the window has an empty timeline, as in the code.

**`CheckOutcomes`** composes the two: a resource works, breaks, vanishes and
returns, its provider answers properly or not (`Answer`), and what the check makes
of it is recorded or counted as a failed check (`Result`), from which the timeline,
the list of assets and the asset's page are computed. The ghost `clear` is the
condition that the last proper answer showed. `Browsed` is a bound: the checks of the
assets whose metadata changes and whose timelines a user pages through.

**`Selection`**: the elements of a sequence that are in a set, in their order, as a
function on numbers. The queries of the timeline and the provider's lists are stated
with it, so that one set of lemmas serves both.

**`*Proofs`**: theorems, section 4; `SelectionProofs` holds the lemmas about
sequences that the others cite. **`MCMonitoringCheck`** adds the symmetry sets
for TLC, **`MCCheckOutcomes`** the three checks of its `Browsed`, **`MCInventorySync`**
one order of the provider's first list: nothing else tells the resources apart.

## 3. The runs

| Run | Shows | Bounds |
|---|---|---|
| `overlapping_checks` | types, `StateAgreesWithNewestLog`, `LogsAreTransitions`, `AlertsFollowTheLog`, `FenceOrdersHeartbeats` | two workers, three checks, two statuses, an error, two metadata values, no deletion |
| `checks_and_deletion` | the same properties across a deletion with failing queries and a new import, and that the checks implement `CheckFence` | one metadata value, one deletion |
| `aba_after_deletion` (violation) | a check reserved on the deleted row is accepted on its successor, whose generation has reached the same number, and the heartbeat moves back | as above |
| `check_pacing` | with an interval above the soft limit, the monitor never goes stale (`NeverStale`, which implies `CompletedChecksKeepItFresh`), and heartbeats never end (`HeartbeatsKeepComing`) | ticks of 10 s, 2-minute plan, 90 s limit, stale after 6 minutes |
| `check_pacing_one_minute` (violation) | on the 1-minute plan every check of more than a minute is overtaken and dropped with its heartbeat: stale, though checks complete | ticks of 30 s |
| `email_outbox` | `DuplicatesNeedAFailure`, `RowsTellTheTruth`, `OutcomesAreFinal`, and `EveryAlertSettles` under fairness | two recipients, a task with one retry, repeated recovery runs of one row, two attempts, one crash or lost answer, one edit or deletion |
| `cloud_schedules` | `MonitoredAssetsAreChecked`, `UnmonitoredAssetsRest`, `CloudScheduleFollowsStatus`, `PauseHolds`; and under fairness `RecoveredCloudsAreChecked`: a cloud whose credentials work again is active and its monitored asset has its task, or its user has paused it | scheduled syncs, three uses of the form, the webhook or the repair command, four credential changes, the resource disappears, two failing syncs; a listed type; neither button nor switch |
| `cloud_schedules_liveness` | `InvalidCloudsRecover` (the status does not stay invalid), `InventoryConverges` under fairness, with the button, the webhook and the switch running along | two requests, two credential and two list changes; an unlisted type, so that nothing is said of tasks |
| `stale_cloud_status` (violation) | the sync button's full-row save brings back `ACTIVE` over a rejection; the assets' tasks stay deleted | one button request |
| `check_outcomes` | the timeline: `EveryPeriodIsTold`, `EntriesDateTheChange`, `PagesMissNothing`, `ConsoleAgrees`; the checks: `FailuresStaySilent`, `GoneIsNoRecovery`, `OutagesStayTold` | every check, four answers, two changes of the resource's condition, two answers that are not to the point; a window of two, pages of one; paging and metadata changes for three checks |
| `inventory_sync` | `OnlyVanishedAreMarked`, `ListedAreImported`, `UnlistedAreMarked`, `TasksFollowMonitoring`, and `RowsAgreeInTheEnd` under fairness | every family, three resources, pages of one, two changes, one switch, one failing request |
| `inventory_disabled` (violation) | a disabled asset that misses one inventory is revived as monitored | two resources |

Why the bounds are enough. Every hazard needs at most two actors and one
disturbance: two overlapping checks and a third to give them a history, a task
against a recovery run, a sync against one request. Pages of one resource make
every resource a page boundary. Four answers are a working period, an outage, a
disturbance and what follows it; what a reader of the timeline sees depends on its log
alone, so that reading three checks' is enough: one without oddities, one that tells
unknown states, one that takes failed checks for states. The safety properties are proved as well, for any
number of actors and any bounds (section 4). In `EmailOutbox` a second
task would run the same locked transaction as the recovery run does.

Exceptions that the properties state or the instances avoid, all of them
behaviours of the code:

- `FenceOrdersHeartbeats` and the history properties exclude `aba`; the run
  `aba_after_deletion` is that case.
- In `CloudSchedules.cfg` a resource that disappears does not come back
  (`MaxListChanges = 1`): with 2, the form loads the assets, the sync revives the
  asset, and the form deletes its task, so that `MonitoredAssetsAreChecked` fails.
- The same property needs `TypeIsScheduled`: an asset of a type missing from the
  list at `apps/console/utils/models.py:490` is imported as monitored, without task.
- The switch is absent from `CloudSchedules.cfg`: `update_monitoring` and a sync
  that saves the same asset can leave row and task in different states.
- `CloudScheduleFollowsStatus` and `UnmonitoredAssetsRest` need one form or repair at
  a time. With `Editors = {e1, e2}` both fail: the command loads all clouds before its
  loop (`create_all_cloud_schedules.py:50`), the form pauses one of them, and the
  command enables its schedules again; two forms do the same.
- In `InventorySync.cfg` lists read by page number do not shrink during a read
  (`StableNumbers` in the theorems). Add `"totals"`, `"links"` or `"short"` to
  `ShrinkDuringRead` and `OnlyVanishedAreMarked` fails: the next page starts one
  resource further (Hetzner's totals, which shrank too, still agree), so a living
  resource is marked as gone; in families that never revive, for good.
- Families of which only the first page is read (`pages = "first"`: App Runner
  services and deployments, event buses and their rules, Athena workgroups, web ACLs,
  which `iter_pages` reads by operations that botocore has no paginator for; ECS
  services and tasks, builds and executions) are exempt from `OnlyVanishedAreMarked`,
  `ListedAreImported` and `RowsAgreeInTheEnd`. Which operations have a paginator is
  botocore's, an external choice here.
- `RowsAgreeInTheEnd` exempts rows whose region or parent is no longer read
  (`withdrawn`), which stay as they were, and families that never revive a row.
- `TasksFollowMonitoring` exempts gone rows that a bulk update marked (their tasks
  stay, and the check's guard skips) and disabled ones where DigitalOcean's sync
  disabled the Spaces by a bulk update "until credentials return"
  (`digitalocean/models.py:589`): the tasks stay enabled, and once the credentials are
  back the listed rows keep `DISABLED`.
- `UnlistedAreMarked` exempts collections that a failed request or missing credentials
  left partial, windows of recent items, and rows whose region or parent is withdrawn.
- `PauseHolds` excepts a request of the sync button that had loaded the cloud before
  the pause: its full-row save writes the status it had loaded (`cloud/models.py:548`).
- `DisabledStaysDisabled` is checked for the adapters whose comments promise it.
  `security_governance.py:1519` and `account_operations.py:1449` set every listed
  row to active, so there a disabled asset is monitored again at the next sync.
- `RecoveredCloudsAreChecked` too is run without the sync button and the switch: the
  button's save can bring `ACTIVE` back over a rejection (`stale_cloud_status`), and the
  switch leaves row and task apart, as above. A cloud with an unlisted type of asset
  recovers its status alone.
- The properties of `CheckOutcomes` name the checks they leave out, in the sets
  `Alarming` (a failed request passes for a state of the resource: the AWS security
  checks, S3, Vultr's account pages), `Credulous` (an answer with nothing about the
  resource passes for its state: Linode's volumes, UpCloud, AWS snapshots, secrets,
  backup vaults and application services, ECS tasks, Vultr's status page, and buckets asked for
  with HEAD), `Collective` (the answer is not about the one resource: S3, a key's
  alias, which is told by its key, costs, Vultr's account lists and status page),
  `Existence` (only its existence is checked, as of a classic load balancer), `Blind`
  (the provider's word for broken is a diagnostic, or is not read) and `Optimistic` (a
  resource without a state passes for a working one). Each of their members by itself
  breaks the property that leaves it out. `GoneIsNoRecovery` holds of the `Credulous` as
  well, except at an answer of the kind they believe.
- `ConsoleAgrees` leaves staleness out: a stale monitor is shown as `unknown` by the list
  and by the page alike, after the same function; `CheckPacing` has the clock for it.
- `EntriesDateTheChange` excludes metadata changes: of a run of equal statuses the
  newest row is kept, so a later metadata change dates the entry.
- `docs/vultr-resources.md:100` says that missing assets are saved one by one to
  preserve their schedules; `UtilAsset.save` deletes the task of an asset that is
  gone. Other adapters mark by a bulk update and keep the task, whose guard skips.

Deadlock is checked wherever something always happens next. `EmailOutbox`,
`CloudSchedules` and `CheckOutcomes` end legitimately: the outbox is drained, the
bounds on requests or on time are used up.

Fairness. `CheckPacing`: time passes, beat is on time, the soft limit ends a
check. `EmailOutbox`: a task that is delivered is run, the recovery beat runs
(every minute, `settings.py`), five minutes pass; crashes are not fair and are
bounded. `CloudSchedules` and `InventorySync`: an enabled periodic task is sent and
a worker carries it through. The form and the repair, once begun, finish: their
statements wait only for rows that a sync's transaction has written, and the database
grants locks in turn, hence strong fairness of `EditStep`; that they begin is not
assumed, and the button, the webhook and the switch need not finish. Nothing is
assumed of the provider or the mail server.

Each property of a passing run has a mutant in `PROJECT.json`: a plausible bug in
a mapped definition that makes the run fail. The mutated bodies stand before the
definitions they replace, marked `Mutant`.

## 4. The proofs

Every proof holds for all values of the constants that the named `ASSUME`s of the
module allow; further hypotheses are in the theorem.

| Module | Theorem | Proves | Hypotheses |
|---|---|---|---|
| `MonitoringCheckProofs` | `TypeCorrect` | `Spec => []TypeOK` | |
| | `HeartbeatsNeverRegress` | `Spec => FenceOrdersHeartbeats` | |
| | `RegressionNeedsDeletion` | no heartbeat moves back before the first deletion of the cloud | |
| | `OutOfOrderWithoutDeletion` | `Spec => OutOfOrderNeverRegresses` | `MaxDeletions = 0` |
| | `StateAgrees`, `LogHoldsTransitions`, `AlertsTellTheLog` | the three history properties | |
| | `ChecksImplementFence` | `Spec => ImplementsFence` | |
| `CheckPacingProofs` | `TypeCorrect` | `Spec => []TypeOK` | |
| | `ChecksKeepItFresh` | `Spec => []CompletedChecksKeepItFresh` | `SoftLimit < Interval` |
| | `NothingGoesStale` | `Spec => []NeverStale` | the same, and `Interval + SoftLimit <= StaleAfter` |
| | `PacedChecksImplementFence` | `Spec => Fence!Spec` of `CheckFence` | |
| `EmailOutboxProofs` | `TypeCorrect` | `Spec => []TypeOK` | |
| | `NoFreeDuplicates` | `Spec => []DuplicatesNeedAFailure` | |
| | `DuplicatesAreBounded` | a recipient gets at most `1 + crashes + edits` messages | |
| | `RowsTruthful` | `Spec => []RowsTellTheTruth` | |
| | `OutcomesFinal` | `Spec => OutcomesAreFinal` | |
| `CloudSchedulesProofs` | `TypeCorrect` | `Spec => []TypeOK` | |
| | `PausesHold` | `Spec => PauseHolds` | |
| | `ScheduleFollows` | `Spec => []CloudScheduleFollowsStatus` | no button, one form or repair at a time |
| | `UnmonitoredRest` | `Spec => []UnmonitoredAssetsRest` | the same, and no switch |
| | `MonitoredChecked` | `Spec => []MonitoredAssetsAreChecked` | `RunAssumption`: the same, a listed type, and what disappears does not come back |
| `InventorySyncProofs` | `TypeCorrect` | `Spec => []TypeOK` | |
| | `TasksInStep` | `Spec => []TasksFollowMonitoring` | |
| | `VanishedOnly` | `Spec => OnlyVanishedAreMarked` | `StableNumbers` |
| | `ListedImported` | `Spec => ListedAreImported` | `StableNumbers` |
| | `UnlistedMarked` | `Spec => UnlistedAreMarked` | |
| | `ChoicesHold` | `Spec => [](KeepsChoices => DisabledStaysDisabled)` | |
| `StatusTimelineProofs` | `TypeCorrect` | `Spec => []TypeOK` | |
| | `PeriodsTold`, `ChangesDated`, `NothingMissed` | `Spec => []EveryPeriodIsTold`, `[]EntriesDateTheChange`, `[]PagesMissNothing` | |
| `CheckOutcomesProofs` | `OutcomesImplementTimeline` | `OutcomesSpec => Spec` of `StatusTimeline` | |
| | `OutcomesTypeCorrect` | `OutcomesSpec => []OutcomesTypeOK` | |
| | `FailuresAreSilent` | `OutcomesSpec => FailuresStaySilent` | |
| | `GoneStaysGone` | `OutcomesSpec => GoneIsNoRecovery` | |
| | `OutageStaysTold` | `OutcomesSpec => []OutagesStayTold` | |
| | `OneStatusShown` | `OutcomesSpec => []ConsoleAgrees` | |
| | `TimelinesHold` | the three properties of `StatusTimeline`, of the composition | |

The hypotheses are behaviours of the code, listed in section 3, or the numbers of a
plan: the soft limit is 90 s, every plan but the 1-minute one has a longer interval, and
a monitor is stale after the longer of three intervals and five minutes
(`utils/models.py:343`). Each is needed; TLC finds these violated:
`OutOfOrderNeverRegresses` by one deletion, `CompletedChecksKeepItFresh` by checks as
long as the interval, `NeverStale` where interval and limit together exceed
`StaleAfter`, `UnmonitoredAssetsRest` by a switch, a button or a second form,
`MonitoredAssetsAreChecked` when any one condition of `RunAssumption` is dropped, and
`OnlyVanishedAreMarked` when a list read by page number may shrink.

None of the properties is inductive; the invariants that are:

- **Status checks.** That an accepted result is newer than everything recorded
  (`HolderIsNewest`) needs that one generation of one row belongs to one check
  (`Generations`), which needs that a row created by a job cannot be taken for an
  earlier one (`Jobs`) and that nothing is dated in the future (`Times`); these four
  are `FenceInv`. That the observation is compared with the newest log row needs in
  addition that distinct healthy rows have distinct times, that the row's status and
  metadata are known together, and that identifiers are fresh (`HistoryInv`).
  `TypeInv` adds that a newest healthy row exists, which makes the `CHOOSE` in
  `LatestHealthy` meaningful. `IInv` is the conjunction, and `StepCases` groups the
  steps by the variables it speaks of. For the refinement, `OneHolder` and
  `EndOfCheck` say what a step does to the mapped fence, and `FenceStep` maps each
  step: a start is `Reserve`, a record `Commit`, or `Drop` for a straggler, a discard
  `Drop`, a crash `Fail` or `Drop`, the deletion of the state row `Forget`, all else
  stutters. `Untouched` says what is true before the first deletion: the row that a
  running check has reserved on is the living one, so that no straggler exists.
- **Pacing.** A running check is the newest and as old as the interval that has
  passed (`NeverOvertaken`): with the limit below the interval nobody is running when
  the beat comes, so every check that completes holds the fence, and the heartbeat is
  as recent as the last completion (`HeartbeatKeepsUp`). `HeartbeatBounded` gives its age in numbers: it is no older than
  the last beat while nobody runs, and by one interval more while a check runs. For the
  fence, one holder at most (`HolderInv`) is enough, with any interval. With a limit equal to the
  interval the argument fails at the beat, as the run `check_pacing_one_minute` shows.
- **Outbox.** A process holds a row's lock exactly while its transaction is open, and
  no two hold the same (`Locks`); a locked row still wants an attempt (`Open`); an
  accepted message is excused by a failure, told by its row, or belongs to a
  transaction still open (`Ledger`). Excuses are paid for by what happened to the
  system, a worker or an answer lost or rows deleted (`Paid`). Steps fall into those of a process without a
  lock (`Unlocked`) and those that end a transaction (`Released`).
- **Schedules.** A sync replaces only a status it has read under the lock, and never
  that of a paused cloud (`Locked`): this is what the button lacks. It loads the cloud
  without a lock and stores the row as loaded, hence the exception in `PauseHolds` and
  the hypothesis of the other theorems. The schedule agrees with the status unless the form or the repair is
  between the two, and then with what it is about to write (`Follows`).
  That unmonitored assets rest (`RestInv`) needs that what the sync has read of the
  asset is still true when it saves it (`SyncReads`: without button and switch nobody
  else writes the asset's monitoring); that the status the form has saved is still the
  cloud's when it writes the tasks, and that an asset it has loaded as disabled is still
  disabled (`FormAgrees`); and `TaskRests`, which says it of the committed rows and of
  those that the transaction is about to publish, unless a form or repair is about to
  write the task. That monitored ones are checked (`RunInv`) needs that an asset that is
  gone stays so (`GoneForGood`), that the row the sync creates has its task
  (`CreatedWithTask`), that the form has loaded the asset as it is or as it was before a
  sync (`FormUpToDate`), and the corresponding fact about the task (`TaskRuns`).
- **Inventory.** `RowInv` types the rows and says that credentials are missing only
  from families that have optional ones; `SaveKeepsStep` shows that saving a row keeps
  its task in step whatever it was before. `ReadInv` follows a read: the resources
  listed since it began (`throughout`) are, once it is complete, among the items or were
  lost by a tolerated failure (`AllGathered`). Of a list read by page number this holds
  before that for what stands within the pages read (`PagesGathered`), which a removal
  would break by moving the rest forward, hence `StableNumbers`; what follows a cursor
  is all that has not been read. `ListTypes` adds that the list holds nothing twice.
  For `UnlistedMarked`: the items and what was skipped were all listed at some time of
  the read (`OnlySeen`), whatever shrinks meanwhile. `ChoicesHold` bounds what
  `inventory_disabled` shows: `KeepsChoices` are the collectors that never revive a row,
  or only as disabled, or mark none; that rows are gone only where they are marked, and
  that a new row is as its collector wants it, is its invariant (`ChoiceInv`).
- **Timeline.** `LogInv`: rows are dated in their order and none in the future
  (`Dated`), the last row about the asset at any time tells what the checks had then
  last seen (`Recorded`), and neighbouring rows differ (`Changing`). `EntriesAreRows`
  and `Descends` describe a timeline by the rows its entries are and their order,
  `Tells` finds the entry that is about a given time, and `Stretches` relates the history of statuses, one
  per check, to the entries, one per period. For the reader, an entry only moves towards
  the last page (new rows come in front; what expires was behind), so that what was on
  the turned pages stays there (`Passed`).
- **Check outcomes.** The checks are constants, a table of records: `SilentChecks`,
  `SoberChecks` and `AttentiveChecks` go through it once. `OutageKnown` is
  `OutagesStayTold` without the timeline, whose head is the known status
  (`HeadIsKnown`). The refinement maps a check to `Observe` or `Fail` and a change of the
  resource to a stutter.

Induction. The provers cannot instantiate an induction theorem whose parameter is an
operator. `SelectionProofs` states two principles of sets instead: a set of numbers
has a least element (`LeastNumber`, from the well-foundedness of `<`), and a set that
contains the empty sequence and is closed under `Append` contains every sequence
(`AllSequences`). A proof by induction defines the set of the cases that hold and
cites one of them.

Model-checked only: what needs fairness, which the provers do not reach
(`HeartbeatsKeepComing`, `EveryAlertSettles`, `InvalidCloudsRecover`,
`RecoveredCloudsAreChecked`, `InventoryConverges`, `RowsAgreeInTheEnd`), and the
counterexamples of the four violation runs.

## 5. Plan

Built, in this order: `MonitoringCheck` with `CheckFence` and its proofs,
`CheckPacing`, `EmailOutbox`, `CloudSchedules`, `StatusTimeline`, `InventorySync`,
`CheckAdapters` with `CheckOutcomes`, `InventoryAdapters`, the proofs about the outbox,
the pacing, the schedules and the inventory, `Selection` and the proofs about the
timeline and the check outcomes. Worth adding:

1. A composition of families: the sync button runs outside a transaction, so a
   family that fails leaves the earlier ones reconciled. Families share no rows, so
   each is covered by itself today.
2. The composition of `MonitoringCheck` and `EmailOutbox` over the queue of events.
3. The rest of a cloud's deletion, below.

## 6. Not modelled

- **The rows and schedules of a cloud while it is deleted.** `CoreCloud.delete` works
  without the lock of a sync: an asset imported after `delete_all_assets` is removed
  by the cascade, which runs no `delete()` of the asset and leaves its task, or makes
  the final statement fail on its foreign key after the sync's schedule is gone. What
  happens depends on when Django collects the related rows; without an overlap the
  deletion is a sequence that tests cover. The monitoring rows are in
  `MonitoringCheck`.
- **Assets of different types with one key.** The key of the monitoring rows
  (`utils/models.py:284`) has no type, so that two assets may share a state row. The
  models follow one asset.
- **Sign-in, two-factor, password reset and the rate limiter**: request handlers on
  sessions, tokens and cache counters; they share no state with the monitoring. The
  limiter reads and writes its counter in separate cache calls
  (`console/utils/decorators.py:26`), so that concurrent attempts may share one count.
- **Metadata filters and redaction**: field tables and string processing without
  state; `MonitoringCheck` keeps the values that compare as changed.
- **Accounts, plans and members**: plain records; a plan enters `CheckPacing` as the
  interval.
- **`remove_all_cloud_schedules`** stops all monitoring on purpose.
- **Notification pages, settings, templates and deployment**: read-only pages over the
  outbox, and configuration whose intervals and limits enter as constants.
