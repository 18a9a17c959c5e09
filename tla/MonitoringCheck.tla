--------------------------- MODULE MonitoringCheck ---------------------------
(***************************************************************************)
(* The status check of one asset: src/apps/monitoring/tasks.py.            *)
(*                                                                         *)
(* A check loads the asset, reserves a generation on the asset's           *)
(* AssetMonitoringState row (first transaction), asks the provider, and    *)
(* commits the observation only if its generation is still current (second *)
(* transaction); a transition also writes an AssetStatusLog row and the    *)
(* notification outbox.  Checks of the same asset overlap: the beat starts *)
(* one every interval and the console starts one on demand.  All tables    *)
(* are keyed by asset_key, so one asset is enough; the key outlives the    *)
(* asset row, which a cloud deletion removes and a later import re-creates.*)
(*                                                                         *)
(* Metadata is abstracted to the monitored fields that compare_metadata    *)
(* looks at; time is a counter that ticks at every provider answer.        *)
(***************************************************************************)
EXTENDS Naturals, Sequences

CONSTANTS
  Workers,       \* Celery workers and web requests that can run a check
  Healthy,       \* provider statuses that describe the asset
  Errors,        \* NON_ALERTING_STATUSES: failed checks
  Metas,         \* values of the monitored metadata fields
  None,          \* '' or NULL in a column
  MaxJobs,       \* bound: checks ever started
  MaxDeletions,  \* bound: deletions of the cloud that owns the asset
  CleanupMayFail \* whether a cleanup query of a deletion may raise

ASSUME StatusAssumption ==
  /\ Healthy \cap Errors = {}
  /\ None \notin Healthy \cup Errors \cup Metas
ASSUME BoundAssumption ==
  /\ MaxJobs \in Nat
  /\ MaxDeletions \in Nat
  /\ CleanupMayFail \in BOOLEAN

VARIABLES
  asset,     \* the asset row, and whether the task's guards let a check run
  state,     \* the AssetMonitoringState row
  logs,      \* AssetStatusLog rows
  outbox,    \* AssetStatusEmail rows, one per event
  queue,     \* events handed to send_status_change_email
  worker,    \* what each worker holds in memory
  deleter,   \* progress of CoreCloud.delete: index into DeletePlan, 0 if none
  clock,     \* time of the latest provider answer
  nextId,    \* next AssetStatusLog primary key
  jobs,      \* checks started so far
  deletions, \* deletions started so far
  aba        \* ghost: a result reserved on a deleted row has been committed

vars == <<asset, state, logs, outbox, queue, worker, deleter, clock, nextId,
          jobs, deletions, aba>>
rows == <<state, logs, outbox>>

-----------------------------------------------------------------------------
Statuses == Healthy \cup Errors
MaybeMeta == Metas \cup {None}

StateRow ==
  [exists: BOOLEAN,
   gen: Nat,                     \* check_generation
   status: Healthy \cup {None},  \* last_status
   meta: MaybeMeta,              \* metadata
   error: Errors \cup {None},    \* last_error_status
   failures: Nat,                \* consecutive_failures
   checkedAt: Nat,               \* last_checked_at, 0 for NULL
   born: Nat]                    \* ghost: the job that created the row

NoRow ==
  [exists |-> FALSE, gen |-> 0, status |-> None, meta |-> None,
   error |-> None, failures |-> 0, checkedAt |-> 0, born |-> 0]

LogRow == [id: Nat, status: Statuses, meta: MaybeMeta, at: Nat]
OutboxRow == [event: Nat, prev: Healthy, cur: Healthy, at: Nat]

WorkerState ==
  [pc: {"idle", "loaded", "probing", "observed", "publish"},
   job: Nat, gen: Nat, row: Nat,  \* row: ghost, the row's born at reservation
   status: Statuses \cup {None}, meta: MaybeMeta, at: Nat, event: Nat]

IdleWorker ==
  [pc |-> "idle", job |-> 0, gen |-> 0, row |-> 0,
   status |-> None, meta |-> None, at |-> 0, event |-> 0]

\* The cleanup of CoreCloud.delete, query by query: delete_monitoring_data
\* (positions 1..3), then the asset's own delete() (4..7).
DeletePlan == <<"logs", "outbox", "state", "state", "logs", "outbox", "asset">>

TypeOK ==
  /\ asset \in {"monitored", "unmonitored", "absent"}
  /\ state \in StateRow
  /\ logs \in SUBSET LogRow
  /\ outbox \in SUBSET OutboxRow
  /\ queue \in SUBSET Nat
  /\ worker \in [Workers -> WorkerState]
  /\ deleter \in 0..Len(DeletePlan)
  /\ clock \in Nat
  /\ nextId \in Nat
  /\ jobs \in Nat
  /\ deletions \in Nat
  /\ aba \in BOOLEAN

-----------------------------------------------------------------------------
\* The asset exists and is monitored; an installation that predates the
\* state table has a log row and no state row.
Init ==
  /\ asset = "monitored"
  /\ state = NoRow
  /\ \/ logs = {}
     \/ \E s \in Healthy, m \in Metas :
          logs = {[id |-> 0, status |-> s, meta |-> m, at |-> 0]}
  /\ outbox = {}
  /\ queue = {}
  /\ worker = [w \in Workers |-> IdleWorker]
  /\ deleter = 0
  /\ clock = 0
  /\ nextId = 1
  /\ jobs = 0
  /\ deletions = 0
  /\ aba = FALSE

-----------------------------------------------------------------------------
(* Checks *)

\* check_asset_status finds the asset and passes the monitoring guards.
LoadPeriodic(w) ==
  /\ worker[w].pc = "idle"
  /\ jobs < MaxJobs
  /\ asset = "monitored"
  /\ worker' = [worker EXCEPT ![w] = [IdleWorker EXCEPT !.pc = "loaded",
                                                        !.job = jobs + 1]]
  /\ jobs' = jobs + 1
  /\ UNCHANGED <<asset, rows, queue, deleter, clock, nextId, deletions, aba>>

\* The "Check status now" button: the view only requires the row to exist.  On
\* a monitored asset it takes the same step as LoadPeriodic.
LoadNow(w) ==
  /\ worker[w].pc = "idle"
  /\ jobs < MaxJobs
  /\ asset = "unmonitored"
  /\ worker' = [worker EXCEPT ![w] = [IdleWorker EXCEPT !.pc = "loaded",
                                                        !.job = jobs + 1]]
  /\ jobs' = jobs + 1
  /\ UNCHANGED <<asset, rows, queue, deleter, clock, nextId, deletions, aba>>

\* What get_or_create returns: the row, or a fresh one.
ReservedRow(job) ==
  IF state.exists THEN state
  ELSE [NoRow EXCEPT !.exists = TRUE, !.born = job]

\* _start_monitoring_observation: reserve the next generation.
Start(w) ==
  /\ worker[w].pc = "loaded"
  /\ LET row == ReservedRow(worker[w].job) IN
     /\ state' = [row EXCEPT !.gen = @ + 1]
     /\ worker' = [worker EXCEPT ![w].pc = "probing",
                                 ![w].gen = row.gen + 1,
                                 ![w].row = row.born]
  /\ UNCHANGED <<asset, logs, outbox, queue, deleter, clock, nextId, jobs,
                 deletions, aba>>

\* The provider answers, or any exception becomes an 'error' observation;
\* the observation is timestamped when it completes.
Observe(w) ==
  /\ worker[w].pc = "probing"
  /\ clock' = clock + 1
  /\ \/ \E s \in Healthy, m \in Metas :
          worker' = [worker EXCEPT ![w].pc = "observed", ![w].status = s,
                                   ![w].meta = m, ![w].at = clock + 1]
     \/ \E e \in Errors :
          worker' = [worker EXCEPT ![w].pc = "observed", ![w].status = e,
                                   ![w].at = clock + 1]
  /\ UNCHANGED <<asset, rows, queue, deleter, nextId, jobs, deletions, aba>>

\* Mutant: the commit does not compare generations.
CurrentIfRowExists(w) == state.exists

\* The fence: the row still carries the generation this check reserved.
Current(w) == state.exists /\ state.gen = worker[w].gen

\* Ghost: the row this check reserved has been deleted since.
Straggler(w) == worker[w].row # state.born

HealthyLogs == {l \in logs : l.status \in Healthy}
IsLatest(l, L) == \A k \in L : k.at <= l.at
LatestHealthy == CHOOSE l \in HealthyLogs : IsLatest(l, HealthyLogs)

\* Mutant: an asset without a state row has no history.
StateStatusOnly == state.status

\* What the observation is compared with: the state row, or the newest log
\* row that is not an error when the state row has no value.
PreviousStatus ==
  IF state.status # None THEN state.status
  ELSE IF HealthyLogs # {} THEN LatestHealthy.status ELSE None
PreviousMeta ==
  IF state.meta # None THEN state.meta
  ELSE IF HealthyLogs # {} THEN LatestHealthy.meta ELSE None

\* Mutant: the status alone decides whether an observation is a transition.
StatusChanged(s, m) == PreviousStatus # s

Changed(s, m) ==
  \/ PreviousStatus # s
  \/ PreviousMeta # None /\ PreviousMeta # m

\* A superseded result is dropped: nothing is written.
Discard(w) ==
  /\ worker[w].pc = "observed"
  /\ ~Current(w)
  /\ worker' = [worker EXCEPT ![w] = IdleWorker]
  /\ UNCHANGED <<asset, rows, queue, deleter, clock, nextId, jobs, deletions,
                 aba>>

NewLog(w) == [id |-> nextId, status |-> worker[w].status,
              meta |-> worker[w].meta, at |-> worker[w].at]

\* Mutant: a failed check overwrites the last known status.
ErrorIsStatus(r, e, at) ==
  [r EXCEPT !.checkedAt = at, !.error = e, !.failures = @ + 1, !.status = e]

AfterError(r, e, at) ==
  [r EXCEPT !.checkedAt = at, !.error = e, !.failures = @ + 1]

\* A failed check keeps the last known status and logs once per error state.
RecordError(w) ==
  /\ worker[w].pc = "observed"
  /\ Current(w)
  /\ worker[w].status \in Errors
  /\ state' = AfterError(state, worker[w].status, worker[w].at)
  /\ IF state.error # worker[w].status
     THEN logs' = logs \cup {NewLog(w)} /\ nextId' = nextId + 1
     ELSE UNCHANGED <<logs, nextId>>
  /\ worker' = [worker EXCEPT ![w] = IdleWorker]
  /\ aba' = (aba \/ Straggler(w))
  /\ UNCHANGED <<asset, outbox, queue, deleter, clock, jobs, deletions>>

\* Mutant: the baseline metadata is stored once and never refreshed.
HealthyKeepsMeta(r, s, m, at) ==
  [r EXCEPT !.checkedAt = at, !.status = s, !.error = None, !.failures = 0,
            !.meta = IF @ = None THEN m ELSE @]

AfterHealthy(r, s, m, at) ==
  [r EXCEPT !.checkedAt = at, !.status = s, !.error = None, !.failures = 0,
            !.meta = m]

\* should_notify: the transition has a known previous status.
ShouldNotify(w) ==
  /\ PreviousStatus # None
  /\ Changed(worker[w].status, worker[w].meta)

\* A healthy observation: a transition adds a log row and, when the asset has
\* notification emails, its outbox rows, in the same transaction.
RecordHealthy(w) ==
  /\ worker[w].pc = "observed"
  /\ Current(w)
  /\ worker[w].status \in Healthy
  /\ state' = AfterHealthy(state, worker[w].status, worker[w].meta,
                           worker[w].at)
  /\ IF Changed(worker[w].status, worker[w].meta)
     THEN logs' = logs \cup {NewLog(w)} /\ nextId' = nextId + 1
     ELSE UNCHANGED <<logs, nextId>>
  /\ IF ShouldNotify(w)
     THEN /\ \E subscribed \in BOOLEAN :
               outbox' = IF subscribed
                         THEN outbox \cup
                              {[event |-> nextId, prev |-> PreviousStatus,
                                cur |-> worker[w].status,
                                at |-> worker[w].at]}
                         ELSE outbox
          /\ worker' = [worker EXCEPT ![w] =
                         [IdleWorker EXCEPT !.pc = "publish",
                                            !.job = worker[w].job,
                                            !.at = worker[w].at,
                                            !.event = nextId]]
     ELSE /\ worker' = [worker EXCEPT ![w] = IdleWorker]
          /\ UNCHANGED outbox
  /\ aba' = (aba \/ Straggler(w))
  /\ UNCHANGED <<asset, queue, deleter, clock, jobs, deletions>>

\* After the commit the event is queued, or sent inline without a broker.
Publish(w) ==
  /\ worker[w].pc = "publish"
  /\ queue' = queue \cup {worker[w].event}
  /\ worker' = [worker EXCEPT ![w] = IdleWorker]
  /\ UNCHANGED <<asset, rows, deleter, clock, nextId, jobs, deletions, aba>>

\* The worker is killed between two transactions (time limit, lost worker);
\* the redelivered task loads the asset again like any other check.
Crash(w) ==
  /\ worker[w].pc # "idle"
  /\ worker' = [worker EXCEPT ![w] = IdleWorker]
  /\ UNCHANGED <<asset, rows, queue, deleter, clock, nextId, jobs, deletions,
                 aba>>

-----------------------------------------------------------------------------
(* The rest of the system, as far as it writes the same rows *)

\* A user flips the asset's monitoring, or the cloud is paused or resumed.
ToggleMonitoring ==
  /\ asset # "absent"
  /\ asset' = IF asset = "monitored" THEN "unmonitored" ELSE "monitored"
  /\ UNCHANGED <<rows, queue, worker, deleter, clock, nextId, jobs, deletions,
                 aba>>

\* prune_status_logs with a cutoff older than any check still in flight.
Prune(cutoff) ==
  /\ \A w \in Workers : worker[w].at # 0 => worker[w].at >= cutoff
  /\ logs' = {l \in logs : l.at >= cutoff}
  /\ outbox' = {o \in outbox : o.at >= cutoff}
  /\ logs' # logs \/ outbox' # outbox
  /\ UNCHANGED <<asset, state, queue, worker, deleter, clock, nextId, jobs,
                 deletions, aba>>

BeginDelete ==
  /\ asset # "absent"
  /\ deleter = 0
  /\ deletions < MaxDeletions
  /\ deleter' = 1
  /\ deletions' = deletions + 1
  /\ UNCHANGED <<asset, rows, queue, worker, clock, nextId, jobs, aba>>

\* One query of the cleanup, each in its own transaction.
DeleteStep ==
  /\ deleter # 0
  /\ logs' = IF DeletePlan[deleter] = "logs" THEN {} ELSE logs
  /\ outbox' = IF DeletePlan[deleter] = "outbox" THEN {} ELSE outbox
  /\ state' = IF DeletePlan[deleter] = "state" THEN NoRow ELSE state
  /\ asset' = IF DeletePlan[deleter] = "asset" THEN "absent" ELSE asset
  /\ deleter' = IF deleter = Len(DeletePlan) THEN 0 ELSE deleter + 1
  /\ UNCHANGED <<queue, worker, clock, nextId, jobs, deletions, aba>>

\* A query raises: the handler logs a warning and deletes the asset row
\* anyway, after the part of the cleanup that the exception skipped.
DeleteStepFails ==
  /\ CleanupMayFail
  /\ deleter \in 1..(Len(DeletePlan) - 1)
  /\ deleter' = IF deleter <= 3 THEN 4 ELSE Len(DeletePlan)
  /\ UNCHANGED <<asset, rows, queue, worker, clock, nextId, jobs, deletions,
                 aba>>

\* The cloud is connected again and the inventory sync imports the asset:
\* same account, provider and unique_id, hence the same asset_key.
Reimport ==
  /\ asset = "absent"
  /\ asset' = "monitored"
  /\ UNCHANGED <<rows, queue, worker, deleter, clock, nextId, jobs, deletions,
                 aba>>

CheckStep(w) ==
  \/ LoadPeriodic(w) \/ LoadNow(w) \/ Start(w) \/ Observe(w)
  \/ Discard(w) \/ RecordError(w) \/ RecordHealthy(w) \/ Publish(w)
  \/ Crash(w)

Next ==
  \/ \E w \in Workers : CheckStep(w)
  \/ ToggleMonitoring
  \/ \E cutoff \in 1..clock : Prune(cutoff)
  \/ BeginDelete \/ DeleteStep \/ DeleteStepFails \/ Reimport

Spec == Init /\ [][Next]_vars

Running == {w \in Workers : worker[w].pc \in {"probing", "observed"}}
Holders == {w \in Running : Current(w) /\ ~Straggler(w)}
Fence == INSTANCE CheckFence WITH running <- Running, holder <- Holders

-----------------------------------------------------------------------------
(* Properties *)

\* While a state row lives, its heartbeat never moves back to an older
\* observation, however the checks overlap, unless a check that reserved its
\* generation on a deleted row of the same key gets its result accepted.
FenceOrdersHeartbeats ==
  [][ (state.exists /\ state'.exists /\ state'.born = state.born /\ ~aba')
        => state'.checkedAt >= state.checkedAt ]_vars

\* The status and metadata the console shows are those of the newest log row
\* that is not an error, across errors, pruning and deletions.
StateAgreesWithNewestLog ==
  ~aba /\ state.status # None =>
    \A l \in HealthyLogs :
      IsLatest(l, HealthyLogs) => l.status = state.status /\ l.meta = state.meta

Predecessor(p, l) ==
  p.at < l.at /\ ~\E k \in HealthyLogs : p.at < k.at /\ k.at < l.at

\* The log holds only changes: neighbouring rows that are not errors differ,
\* although overlapping checks compute their transitions independently.
LogsAreTransitions ==
  ~aba =>
    \A p, l \in HealthyLogs :
      Predecessor(p, l) => p.status # l.status \/ p.meta # l.meta

\* An alert tells the transition the log shows: its current status is that of
\* its log row, its previous status that of the row before.
AlertsFollowTheLog ==
  ~aba =>
    \A o \in outbox, l \in HealthyLogs :
      l.id = o.event =>
        /\ o.cur = l.status
        /\ \A p \in HealthyLogs : Predecessor(p, l) => o.prev = p.status

\* Overlapping checks behave as CheckFence: each start supersedes the earlier
\* checks, only the newest one is recorded, and a deletion forgets it.  A
\* straggler holds nothing: what it writes is OutOfOrderNeverRegresses' matter.
ImplementsFence == Fence!Spec

\* The claim of AssetMonitoringState.check_generation: out-of-order provider
\* responses never regress a newer health result of the row.
OutOfOrderNeverRegresses ==
  [][ (state.exists /\ state'.exists /\ state'.born = state.born)
        => state'.checkedAt >= state.checkedAt ]_vars
=============================================================================
