------------------------ MODULE MonitoringCheckProofs ------------------------
(***************************************************************************)
(* Proofs about MonitoringCheck, for any number of workers, statuses,      *)
(* metadata values, checks and deletions.                                  *)
(*                                                                         *)
(* The properties are not inductive.  That a result accepted by the fence  *)
(* is newer than everything recorded (HolderIsNewest) needs that no two    *)
(* checks hold one generation of one row (Generations), which needs that a *)
(* new row cannot be mistaken for the row of an earlier check (Jobs).      *)
(***************************************************************************)
EXTENDS MonitoringCheck, TLAPS

\* The newest healthy log row exists when there is any: what makes the CHOOSE
\* of LatestHealthy well defined.
HasLatest ==
  HealthyLogs # {} => \E l \in HealthyLogs : IsLatest(l, HealthyLogs)

\* Observations carry a status, and metadata when the status is healthy.
ObservationsComplete ==
  \A w \in Workers : worker[w].pc = "observed" =>
    /\ worker[w].status \in Statuses
    /\ worker[w].status \in Healthy => worker[w].meta \in Metas

TypeInv == TypeOK /\ HasLatest /\ ObservationsComplete

\* A job that has not reserved yet cannot be taken for the creator of a row.
Jobs ==
  /\ state.born <= jobs
  /\ \A w \in Workers : worker[w].row <= jobs
  /\ \A w \in Workers : worker[w].pc = "loaded" =>
       /\ 0 < worker[w].job
       /\ worker[w].job <= jobs
       /\ worker[w].job # state.born
       /\ \A v \in Workers : worker[v].row # worker[w].job
       /\ \A v \in Workers \ {w} :
            worker[v].pc = "loaded" => worker[v].job # worker[w].job

\* A row hands out each generation once, in increasing order.
Generations ==
  \A w \in Running :
    /\ state.exists /\ worker[w].row = state.born => worker[w].gen <= state.gen
    /\ \A v \in Running \ {w} :
         worker[v].row = worker[w].row => worker[v].gen # worker[w].gen

\* Nothing recorded is from the future.
Times ==
  /\ state.checkedAt <= clock
  /\ \A l \in logs : l.at <= clock
  /\ \A w \in Workers : worker[w].at <= clock

\* What the fence accepts is newer than everything recorded.
HolderIsNewest ==
  ~aba =>
    \A w \in Workers :
      worker[w].pc = "observed" /\ Current(w) /\ ~Straggler(w) =>
        /\ state.checkedAt < worker[w].at
        /\ \A l \in logs : l.at < worker[w].at

\* Status and metadata are known together, in the row and in the log.
Baselines ==
  /\ state.status = None <=> state.meta = None
  /\ \A l \in HealthyLogs : l.meta \in Metas

\* No two healthy log rows carry the same time.
DistinctTimes ==
  ~aba => \A k, l \in HealthyLogs : k.at = l.at => k = l

\* Log rows and events are numbered below the next identifier.
Identifiers ==
  /\ \A l \in logs : l.id < nextId
  /\ \A o \in outbox : o.event < nextId

FenceInv == Jobs /\ Generations /\ Times /\ HolderIsNewest
HistoryInv ==
  /\ Baselines
  /\ DistinctTimes
  /\ Identifiers
  /\ StateAgreesWithNewestLog
  /\ LogsAreTransitions
  /\ AlertsFollowTheLog

IInv == TypeInv /\ FenceInv /\ HistoryInv

-----------------------------------------------------------------------------
(* The steps, grouped by the variables the invariant speaks of *)

\* Nothing the invariant speaks of changes.
Quiet == UNCHANGED <<state, logs, outbox, worker, clock, nextId, jobs, aba>>

\* A worker gives up or finishes what it was doing.
Leave(w) ==
  /\ worker' = [worker EXCEPT ![w] = IdleWorker]
  /\ UNCHANGED <<state, logs, outbox, clock, nextId, jobs, aba>>

Load(w) == LoadPeriodic(w) \/ LoadNow(w)

LEMMA StepCases ==
  ASSUME [Next]_vars
  PROVE  \/ Quiet
         \/ \E w \in Workers : \/ Leave(w) \/ Load(w) \/ Start(w) \/ Observe(w)
                               \/ RecordError(w) \/ RecordHealthy(w)
         \/ \E cutoff \in 1..clock : Prune(cutoff)
         \/ DeleteStep
<1>1. CASE UNCHANGED vars
  BY <1>1 DEF vars, Quiet
<1>2. ASSUME NEW w \in Workers, CheckStep(w)
      PROVE  \/ Leave(w) \/ Load(w) \/ Start(w) \/ Observe(w)
             \/ RecordError(w) \/ RecordHealthy(w)
  BY <1>2 DEF CheckStep, Leave, Load, Discard, Publish, Crash, rows
<1>3. CASE ToggleMonitoring \/ BeginDelete \/ DeleteStepFails \/ Reimport
  BY <1>3 DEF ToggleMonitoring, BeginDelete, DeleteStepFails, Reimport, rows,
              Quiet
<1> QED BY <1>1, <1>2, <1>3 DEF Next

-----------------------------------------------------------------------------
(* Types *)

LEMMA PlanLength == Len(DeletePlan) = 7
BY DEF DeletePlan

LEMMA IdleType == IdleWorker \in WorkerState
BY DEF IdleWorker, WorkerState, MaybeMeta

\* The previous status, when there is one, is a healthy status.
LEMMA PreviousStatusType ==
  ASSUME TypeOK, HasLatest
  PROVE  PreviousStatus \in Healthy \cup {None}
<1>1. CASE state.status # None
  BY <1>1 DEF PreviousStatus, TypeOK, StateRow
<1>2. CASE state.status = None /\ HealthyLogs = {}
  BY <1>2 DEF PreviousStatus
<1>3. CASE state.status = None /\ HealthyLogs # {}
  <2>1. PICK l \in HealthyLogs : IsLatest(l, HealthyLogs)
    BY <1>3 DEF HasLatest
  <2>2. LatestHealthy \in HealthyLogs
    BY <2>1 DEF LatestHealthy
  <2>3. LatestHealthy.status \in Healthy
    BY <2>2 DEF HealthyLogs
  <2> QED BY <1>3, <2>3 DEF PreviousStatus
<1> QED BY <1>1, <1>2, <1>3

LEMMA InitTypeInv == Init => TypeInv
<1> SUFFICES ASSUME Init PROVE TypeInv OBVIOUS
<1>1. TypeOK
  <2>1. state \in StateRow
    BY DEF Init, StateRow, NoRow, MaybeMeta
  <2>2. logs \in SUBSET LogRow
    BY DEF Init, LogRow, Statuses, MaybeMeta
  <2>3. worker \in [Workers -> WorkerState]
    BY IdleType DEF Init
  <2>4. deleter \in 0..Len(DeletePlan)
    BY PlanLength DEF Init
  <2> QED BY <2>1, <2>2, <2>3, <2>4 DEF Init, TypeOK
<1>2. HasLatest
  BY DEF Init, HasLatest, HealthyLogs, IsLatest
<1>3. ObservationsComplete
  BY DEF Init, ObservationsComplete, IdleWorker
<1> QED BY <1>1, <1>2, <1>3 DEF TypeInv

\* A set of log rows with one row more still has a latest.
LEMMA LatestAfterInsert ==
  ASSUME NEW L, NEW x, x.at \in Nat, \A l \in L : l.at \in Nat,
         L # {} => \E l \in L : IsLatest(l, L)
  PROVE  \E l \in L \cup {x} : IsLatest(l, L \cup {x})
<1>1. CASE L = {}
  BY <1>1 DEF IsLatest
<1>2. CASE L # {}
  <2>1. PICK l \in L : IsLatest(l, L)
    BY <1>2
  <2>2. CASE l.at <= x.at
    BY <2>1, <2>2 DEF IsLatest
  <2>3. CASE ~(l.at <= x.at)
    BY <2>1, <2>3 DEF IsLatest
  <2> QED BY <2>2, <2>3
<1> QED BY <1>1, <1>2

\* Pruning keeps the latest row of what it keeps.
LEMMA LatestAfterPrune ==
  ASSUME NEW L, NEW c \in Nat, \A l \in L : l.at \in Nat,
         L # {} => \E l \in L : IsLatest(l, L),
         {l \in L : l.at >= c} # {}
  PROVE  \E l \in {k \in L : k.at >= c} : IsLatest(l, {k \in L : k.at >= c})
<1>1. PICK k \in L : k.at >= c
  OBVIOUS
<1>2. PICK l \in L : IsLatest(l, L)
  BY <1>1
<1>3. l.at >= c
  BY <1>1, <1>2 DEF IsLatest
<1> QED BY <1>2, <1>3 DEF IsLatest

\* The healthy rows after a row is added.
LEMMA HealthyAfterInsert ==
  ASSUME NEW x, logs' = logs \cup {x}
  PROVE  HealthyLogs' = IF x.status \in Healthy THEN HealthyLogs \cup {x}
                        ELSE HealthyLogs
BY DEF HealthyLogs

LEMMA LogTimes ==
  ASSUME TypeOK
  PROVE  /\ \A l \in logs : l.at \in Nat /\ l.id \in Nat
         /\ \A o \in outbox : o.at \in Nat /\ o.event \in Nat
         /\ HealthyLogs \subseteq logs
BY DEF TypeOK, LogRow, OutboxRow, HealthyLogs

LEMMA ReservedRowType ==
  ASSUME TypeOK, NEW j \in Nat
  PROVE  ReservedRow(j) \in StateRow
BY DEF TypeOK, ReservedRow, StateRow, NoRow, MaybeMeta

\* What a failed check writes to the state row.
LEMMA AfterErrorRow ==
  ASSUME NEW r \in StateRow, NEW e \in Errors, NEW at \in Nat
  PROVE  /\ AfterError(r, e, at) \in StateRow
         /\ AfterError(r, e, at).exists = r.exists
         /\ AfterError(r, e, at).gen = r.gen
         /\ AfterError(r, e, at).born = r.born
         /\ AfterError(r, e, at).status = r.status
         /\ AfterError(r, e, at).meta = r.meta
         /\ AfterError(r, e, at).checkedAt = at
<1> DEFINE n == r.failures + 1
<1>1. n \in Nat
  BY DEF StateRow
<1>2. AfterError(r, e, at) =
        [r EXCEPT !.checkedAt = at, !.error = e, !.failures = n]
  BY DEF AfterError
<1> HIDE DEF n
<1> QED BY <1>1, <1>2 DEF StateRow

\* What a healthy observation writes to the state row.
LEMMA AfterHealthyRow ==
  ASSUME NEW r \in StateRow, NEW s \in Healthy, NEW m \in MaybeMeta,
         NEW at \in Nat
  PROVE  /\ AfterHealthy(r, s, m, at) \in StateRow
         /\ AfterHealthy(r, s, m, at).exists = r.exists
         /\ AfterHealthy(r, s, m, at).gen = r.gen
         /\ AfterHealthy(r, s, m, at).born = r.born
         /\ AfterHealthy(r, s, m, at).status = s
         /\ AfterHealthy(r, s, m, at).meta = m
         /\ AfterHealthy(r, s, m, at).checkedAt = at
BY DEF AfterHealthy, StateRow

\* The log row of a commit.
LEMMA NewLogRow ==
  ASSUME TypeInv, NEW w \in Workers, worker[w].pc = "observed"
  PROVE  /\ worker[w].at \in Nat
         /\ worker[w].status \in Statuses
         /\ worker[w].meta \in MaybeMeta
         /\ NewLog(w) \in LogRow
         /\ NewLog(w).at = worker[w].at
         /\ NewLog(w).status = worker[w].status
         /\ NewLog(w).meta = worker[w].meta
         /\ NewLog(w).id = nextId
BY DEF TypeInv, TypeOK, ObservationsComplete, WorkerState, NewLog, LogRow

-----------------------------------------------------------------------------
(* Every step preserves TypeInv *)

LEMMA LeaveType ==
  ASSUME TypeInv, NEW w \in Workers, Leave(w), queue' \in SUBSET Nat,
         UNCHANGED <<asset, deleter, deletions>>
  PROVE  TypeInv'
<1>1. TypeOK'
  BY IdleType DEF TypeInv, TypeOK, Leave
<1>2. HasLatest'
  BY DEF TypeInv, Leave, HasLatest, HealthyLogs, IsLatest
<1>3. ObservationsComplete'
  BY DEF TypeInv, TypeOK, Leave, ObservationsComplete, IdleWorker
<1> QED BY <1>1, <1>2, <1>3 DEF TypeInv

LEMMA LoadType ==
  ASSUME TypeInv, NEW w \in Workers, Load(w)
  PROVE  TypeInv'
<1> DEFINE loaded == [IdleWorker EXCEPT !.pc = "loaded", !.job = jobs + 1]
<1>1. /\ worker' = [worker EXCEPT ![w] = loaded]
      /\ jobs' = jobs + 1
      /\ UNCHANGED <<asset, state, logs, outbox, queue, deleter, clock, nextId,
                     deletions, aba>>
  BY DEF Load, LoadPeriodic, LoadNow, rows
<1>2. jobs + 1 \in Nat
  BY DEF TypeInv, TypeOK
<1>3. loaded \in WorkerState /\ loaded.pc = "loaded"
  BY <1>2 DEF IdleWorker, WorkerState, MaybeMeta
<1> HIDE DEF loaded
<1>4. TypeOK'
  BY <1>1, <1>2, <1>3 DEF TypeInv, TypeOK
<1>5. HasLatest'
  BY <1>1 DEF TypeInv, HasLatest, HealthyLogs, IsLatest
<1>6. ObservationsComplete'
  BY <1>1, <1>3 DEF TypeInv, TypeOK, ObservationsComplete
<1> QED BY <1>4, <1>5, <1>6 DEF TypeInv

LEMMA StartType ==
  ASSUME TypeInv, NEW w \in Workers, Start(w)
  PROVE  TypeInv'
<1> DEFINE row == ReservedRow(worker[w].job)
<1> DEFINE gen == row.gen + 1
<1>1. worker[w] \in WorkerState /\ worker[w].job \in Nat
  BY DEF TypeInv, TypeOK, WorkerState
<1>2. row \in StateRow
  BY <1>1, ReservedRowType DEF TypeInv
<1>3. /\ state' = [row EXCEPT !.gen = gen]
      /\ worker' = [worker EXCEPT ![w] = [@ EXCEPT !.pc = "probing",
                                            !.gen = gen, !.row = row.born]]
      /\ UNCHANGED <<asset, logs, outbox, queue, deleter, clock, nextId, jobs,
                     deletions, aba>>
  BY DEF Start
<1> HIDE DEF row
<1>4. gen \in Nat /\ row.born \in Nat
  BY <1>2 DEF StateRow
<1> HIDE DEF gen
<1>5. state' \in StateRow
  BY <1>2, <1>3, <1>4 DEF StateRow
<1>6. worker' \in [Workers -> WorkerState] /\ worker'[w].pc = "probing"
  <2>1. [worker[w] EXCEPT !.pc = "probing", !.gen = gen, !.row = row.born]
          \in WorkerState
    BY <1>1, <1>4 DEF WorkerState
  <2>2. [worker[w] EXCEPT !.pc = "probing", !.gen = gen, !.row = row.born].pc
          = "probing"
    BY <1>1 DEF WorkerState
  <2> QED BY <2>1, <2>2, <1>3 DEF TypeInv, TypeOK
<1>7. TypeOK'
  BY <1>3, <1>5, <1>6 DEF TypeInv, TypeOK
<1>8. HasLatest'
  BY <1>3 DEF TypeInv, HasLatest, HealthyLogs, IsLatest
<1>9. ObservationsComplete'
  BY <1>3, <1>6 DEF TypeInv, TypeOK, ObservationsComplete
<1> QED BY <1>7, <1>8, <1>9 DEF TypeInv

\* The two ways an observation is made.
LEMMA ObserveStep ==
  ASSUME TypeInv, NEW w \in Workers, Observe(w)
  PROVE  \E o \in WorkerState :
           /\ worker' = [worker EXCEPT ![w] = o]
           /\ o.pc = "observed" /\ o.at = clock + 1
           /\ o.gen = worker[w].gen /\ o.row = worker[w].row
           /\ o.status \in Statuses
           /\ o.status \in Healthy => o.meta \in Metas
<1>1. worker[w] \in WorkerState
  BY DEF TypeInv, TypeOK
<1> DEFINE now == clock + 1
<1>2. now \in Nat
  BY DEF TypeInv, TypeOK
<1>3. CASE \E s \in Healthy, m \in Metas :
             worker' = [worker EXCEPT ![w].pc = "observed", ![w].status = s,
                                      ![w].meta = m, ![w].at = now]
  <2>1. PICK s \in Healthy, m \in Metas :
          worker' = [worker EXCEPT ![w].pc = "observed", ![w].status = s,
                                   ![w].meta = m, ![w].at = now]
    BY <1>3
  <2> DEFINE o == [worker[w] EXCEPT !.pc = "observed", !.status = s,
                                    !.meta = m, !.at = now]
  <2> HIDE DEF now
  <2>2. worker' = [worker EXCEPT ![w] = o]
    BY <2>1
  <2>3. /\ o \in WorkerState
        /\ o.pc = "observed" /\ o.at = now
        /\ o.gen = worker[w].gen /\ o.row = worker[w].row
        /\ o.status = s /\ o.meta = m
    BY <1>1, <1>2 DEF WorkerState, Statuses, MaybeMeta
  <2> HIDE DEF o
  <2> QED BY <2>2, <2>3 DEF now, Statuses
<1>4. CASE \E e \in Errors :
             worker' = [worker EXCEPT ![w].pc = "observed", ![w].status = e,
                                      ![w].at = now]
  <2>1. PICK e \in Errors :
          worker' = [worker EXCEPT ![w].pc = "observed", ![w].status = e,
                                   ![w].at = now]
    BY <1>4
  <2> DEFINE o == [worker[w] EXCEPT !.pc = "observed", !.status = e, !.at = now]
  <2> HIDE DEF now
  <2>2. worker' = [worker EXCEPT ![w] = o]
    BY <2>1
  <2>3. /\ o \in WorkerState
        /\ o.pc = "observed" /\ o.at = now
        /\ o.gen = worker[w].gen /\ o.row = worker[w].row
        /\ o.status = e
    BY <1>1, <1>2 DEF WorkerState, Statuses
  <2>4. e \notin Healthy
    BY StatusAssumption
  <2> HIDE DEF o
  <2> QED BY <2>2, <2>3, <2>4 DEF now, Statuses
<1> QED BY <1>3, <1>4 DEF Observe

LEMMA ObserveType ==
  ASSUME TypeInv, NEW w \in Workers, Observe(w)
  PROVE  TypeInv'
<1>1. PICK o \in WorkerState :
           /\ worker' = [worker EXCEPT ![w] = o]
           /\ o.pc = "observed" /\ o.at = clock + 1
           /\ o.status \in Statuses
           /\ o.status \in Healthy => o.meta \in Metas
  BY ObserveStep
<1>2. /\ clock' = clock + 1
      /\ UNCHANGED <<asset, state, logs, outbox, queue, deleter, nextId, jobs,
                     deletions, aba>>
  BY DEF Observe, rows
<1>3. TypeOK'
  BY <1>1, <1>2 DEF TypeInv, TypeOK
<1>4. HasLatest'
  BY <1>2 DEF TypeInv, HasLatest, HealthyLogs, IsLatest
<1>5. ObservationsComplete'
  BY <1>1 DEF TypeInv, TypeOK, ObservationsComplete
<1> QED BY <1>3, <1>4, <1>5 DEF TypeInv

\* The log after a commit still has a newest healthy row.
LEMMA LatestAfterCommit ==
  ASSUME TypeInv, NEW w \in Workers, worker[w].pc = "observed",
         logs' = logs \cup {NewLog(w)} \/ logs' = logs
  PROVE  HasLatest'
<1>1. CASE logs' = logs
  BY <1>1 DEF TypeInv, HasLatest, HealthyLogs, IsLatest
<1>2. CASE logs' = logs \cup {NewLog(w)}
  <2> DEFINE x == NewLog(w)
  <2>1. x.at \in Nat
    BY NewLogRow
  <2>2. \A l \in HealthyLogs : l.at \in Nat
    BY LogTimes DEF TypeInv
  <2>3. HealthyLogs # {} => \E l \in HealthyLogs : IsLatest(l, HealthyLogs)
    BY DEF TypeInv, HasLatest
  <2> DEFINE H == HealthyLogs
  <2>4. HealthyLogs' = IF x.status \in Healthy THEN H \cup {x} ELSE H
    BY <1>2, HealthyAfterInsert
  <2> HIDE DEF x, H
  <2>5. \E l \in H \cup {x} : IsLatest(l, H \cup {x})
    BY <2>1, <2>2, <2>3, LatestAfterInsert DEF H
  <2>6. HealthyLogs' # {} =>
          \E l \in HealthyLogs' : IsLatest(l, HealthyLogs')
    BY <2>3, <2>4, <2>5 DEF H
  <2> QED BY <2>6 DEF HasLatest, IsLatest
<1> QED BY <1>1, <1>2

LEMMA RecordErrorType ==
  ASSUME TypeInv, NEW w \in Workers, RecordError(w)
  PROVE  TypeInv'
<1>1. worker[w].pc = "observed" /\ worker[w].status \in Errors
  BY DEF RecordError
<1>2. worker[w].at \in Nat /\ NewLog(w) \in LogRow
  BY <1>1, NewLogRow
<1>3. state' \in StateRow
  BY <1>1, <1>2, AfterErrorRow DEF RecordError, TypeInv, TypeOK
<1>4. logs' \in SUBSET LogRow /\ nextId' \in Nat
  BY <1>2 DEF RecordError, TypeInv, TypeOK
<1>5. worker' \in [Workers -> WorkerState]
  BY IdleType DEF RecordError, TypeInv, TypeOK
<1>6. TypeOK'
  BY <1>3, <1>4, <1>5 DEF RecordError, TypeInv, TypeOK, Straggler
<1>7. HasLatest'
  BY <1>1, LatestAfterCommit DEF RecordError
<1>8. ObservationsComplete'
  BY DEF RecordError, TypeInv, TypeOK, ObservationsComplete, IdleWorker
<1> QED BY <1>6, <1>7, <1>8 DEF TypeInv

LEMMA RecordHealthyType ==
  ASSUME TypeInv, NEW w \in Workers, RecordHealthy(w)
  PROVE  TypeInv'
<1>1. worker[w].pc = "observed" /\ worker[w].status \in Healthy
  BY DEF RecordHealthy
<1>2. /\ worker[w].at \in Nat /\ worker[w].meta \in MaybeMeta
      /\ NewLog(w) \in LogRow
  BY <1>1, NewLogRow
<1>3. state' \in StateRow
  BY <1>1, <1>2, AfterHealthyRow DEF RecordHealthy, TypeInv, TypeOK
<1>4. logs' \in SUBSET LogRow /\ nextId' \in Nat
  BY <1>2 DEF RecordHealthy, TypeInv, TypeOK
<1>5. nextId \in Nat
  BY DEF TypeInv, TypeOK
<1>6. outbox' \in SUBSET OutboxRow
  <2>1. CASE ShouldNotify(w)
    <3>1. PreviousStatus \in Healthy
      BY <2>1, PreviousStatusType DEF ShouldNotify, TypeInv
    <3>2. [event |-> nextId, prev |-> PreviousStatus,
           cur |-> worker[w].status, at |-> worker[w].at] \in OutboxRow
      BY <1>1, <1>2, <1>5, <3>1 DEF OutboxRow
    <3> QED BY <2>1, <3>2 DEF RecordHealthy, TypeInv, TypeOK
  <2>2. CASE ~ShouldNotify(w)
    BY <2>2 DEF RecordHealthy, TypeInv, TypeOK
  <2> QED BY <2>1, <2>2
<1> DEFINE pub == [IdleWorker EXCEPT !.pc = "publish", !.job = worker[w].job,
                                     !.at = worker[w].at, !.event = nextId]
<1>7. worker' = [worker EXCEPT ![w] = pub]
      \/ worker' = [worker EXCEPT ![w] = IdleWorker]
  BY DEF RecordHealthy
<1>8. pub \in WorkerState /\ pub.pc = "publish"
  <2>1. worker[w].job \in Nat
    BY DEF TypeInv, TypeOK, WorkerState
  <2> QED BY <2>1, <1>2, <1>5 DEF IdleWorker, WorkerState, MaybeMeta
<1> HIDE DEF pub
<1>9. TypeOK'
  <2>1. worker' \in [Workers -> WorkerState]
    BY <1>7, <1>8, IdleType DEF TypeInv, TypeOK
  <2> QED BY <1>3, <1>4, <1>6, <2>1
          DEF RecordHealthy, TypeInv, TypeOK, Straggler
<1>10. HasLatest'
  BY <1>1, LatestAfterCommit DEF RecordHealthy
<1>11. ObservationsComplete'
  <2>1. worker'[w].pc # "observed"
    BY <1>7, <1>8 DEF TypeInv, TypeOK, IdleWorker
  <2>2. \A v \in Workers \ {w} : worker'[v] = worker[v]
    BY <1>7 DEF TypeInv, TypeOK
  <2> QED BY <2>1, <2>2 DEF TypeInv, ObservationsComplete
<1> QED BY <1>9, <1>10, <1>11 DEF TypeInv

LEMMA PruneType ==
  ASSUME TypeInv, NEW cutoff \in Nat, Prune(cutoff)
  PROVE  TypeInv'
<1>1. TypeOK'
  BY DEF Prune, TypeInv, TypeOK
<1>2. HealthyLogs' = {l \in HealthyLogs : l.at >= cutoff}
  BY DEF Prune, HealthyLogs
<1>3. \A l \in HealthyLogs : l.at \in Nat
  BY LogTimes DEF TypeInv
<1>4. HasLatest'
  <2> DEFINE H == HealthyLogs
             G == {l \in HealthyLogs : l.at >= cutoff}
  <2>1. H # {} => \E l \in H : IsLatest(l, H)
    BY DEF TypeInv, HasLatest
  <2>2. G # {} => \E l \in G : IsLatest(l, G)
    <3> HIDE DEF H
    <3>1. G = {l \in H : l.at >= cutoff}
      BY DEF H
    <3> HIDE DEF G
    <3> QED BY <1>3, <2>1, <3>1, LatestAfterPrune DEF H
  <2> QED BY <1>2, <2>2 DEF HasLatest, IsLatest
<1>5. ObservationsComplete'
  BY DEF Prune, TypeInv, ObservationsComplete
<1> QED BY <1>1, <1>4, <1>5 DEF TypeInv

LEMMA DeleteType ==
  ASSUME TypeInv, DeleteStep
  PROVE  TypeInv'
<1>1. state' \in StateRow
  BY DEF DeleteStep, TypeInv, TypeOK, StateRow, NoRow, MaybeMeta
<1>2. deleter' \in 0..Len(DeletePlan)
  BY PlanLength DEF DeleteStep, TypeInv, TypeOK
<1>3. TypeOK'
  BY <1>1, <1>2 DEF DeleteStep, TypeInv, TypeOK
<1>4. HasLatest'
  BY DEF DeleteStep, TypeInv, HasLatest, HealthyLogs, IsLatest
<1>5. ObservationsComplete'
  BY DEF DeleteStep, TypeInv, ObservationsComplete
<1> QED BY <1>3, <1>4, <1>5 DEF TypeInv

\* The steps of the users and of the deletion that touch no row.
LEMMA EnvironmentType ==
  ASSUME TypeInv,
         ToggleMonitoring \/ BeginDelete \/ DeleteStepFails \/ Reimport
         \/ UNCHANGED vars
  PROVE  TypeInv'
<1>1. /\ asset' \in {"monitored", "unmonitored", "absent"}
      /\ deleter' \in 0..Len(DeletePlan)
      /\ deletions' \in Nat
      /\ UNCHANGED <<state, logs, outbox, queue, worker, clock, nextId, jobs,
                     aba>>
  BY PlanLength DEF ToggleMonitoring, BeginDelete, DeleteStepFails, Reimport,
                    vars, rows, TypeInv, TypeOK
<1>2. TypeOK'
  BY <1>1 DEF TypeInv, TypeOK
<1>3. HasLatest'
  BY <1>1 DEF TypeInv, HasLatest, HealthyLogs, IsLatest
<1>4. ObservationsComplete'
  BY <1>1 DEF TypeInv, ObservationsComplete
<1> QED BY <1>2, <1>3, <1>4 DEF TypeInv

LEMMA NextTypeInv ==
  ASSUME TypeInv, [Next]_vars
  PROVE  TypeInv'
<1>1. ASSUME NEW w \in Workers, CheckStep(w)
      PROVE  TypeInv'
  <2>1. CASE LoadPeriodic(w) \/ LoadNow(w)
    BY <2>1, LoadType DEF Load
  <2>2. CASE Start(w)
    BY <2>2, StartType
  <2>3. CASE Observe(w)
    BY <2>3, ObserveType
  <2>4. CASE Discard(w) \/ Crash(w)
    BY <2>4, LeaveType DEF Discard, Crash, Leave, rows, TypeInv, TypeOK
  <2>5. CASE RecordError(w)
    BY <2>5, RecordErrorType
  <2>6. CASE RecordHealthy(w)
    BY <2>6, RecordHealthyType
  <2>7. CASE Publish(w)
    <3>1. worker[w].event \in Nat
      BY DEF TypeInv, TypeOK, WorkerState
    <3>2. queue' \in SUBSET Nat
      BY <2>7, <3>1 DEF Publish, TypeInv, TypeOK
    <3> QED BY <2>7, <3>2, LeaveType DEF Publish, Leave, rows
  <2> QED BY <1>1, <2>1, <2>2, <2>3, <2>4, <2>5, <2>6, <2>7 DEF CheckStep
<1>2. ASSUME NEW cutoff \in 1..clock, Prune(cutoff)
      PROVE  TypeInv'
  <2>1. cutoff \in Nat
    BY DEF TypeInv, TypeOK
  <2> QED BY <1>2, <2>1, PruneType
<1>3. CASE DeleteStep
  BY <1>3, DeleteType
<1>4. CASE ToggleMonitoring \/ BeginDelete \/ DeleteStepFails \/ Reimport
           \/ UNCHANGED vars
  BY <1>4, EnvironmentType
<1> QED BY <1>1, <1>2, <1>3, <1>4 DEF Next

\* Every variable keeps its type, and every worker that observes a healthy
\* status also holds its metadata.
THEOREM TypeCorrect == Spec => []TypeOK
<1>1. Init => TypeInv
  BY InitTypeInv
<1>2. TypeInv /\ [Next]_vars => TypeInv'
  BY NextTypeInv
<1>3. TypeInv => TypeOK
  BY DEF TypeInv
<1> QED BY <1>1, <1>2, <1>3, PTL DEF Spec

-----------------------------------------------------------------------------
(* Every step preserves FenceInv *)

\* The arithmetic needs the fields to be numbers.
LEMMA Numbers ==
  ASSUME TypeOK
  PROVE  /\ state.gen \in Nat /\ state.born \in Nat /\ state.checkedAt \in Nat
         /\ clock \in Nat /\ jobs \in Nat /\ nextId \in Nat
         /\ \A w \in Workers : /\ worker[w].gen \in Nat /\ worker[w].row \in Nat
                               /\ worker[w].job \in Nat /\ worker[w].at \in Nat
BY DEF TypeOK, StateRow, WorkerState

LEMMA InitFenceInv == Init => FenceInv
<1> SUFFICES ASSUME Init PROVE FenceInv OBVIOUS
<1>1. \A w \in Workers : /\ worker[w].pc = "idle" /\ worker[w].row = 0
                         /\ worker[w].at = 0
  BY DEF Init, IdleWorker
<1>2. state.born = 0 /\ state.checkedAt = 0 /\ \A l \in logs : l.at = 0
  BY DEF Init, NoRow
<1> QED BY <1>1, <1>2 DEF Init, FenceInv, Jobs, Generations, Times,
                          HolderIsNewest, Running

\* What a commit changes, whatever was observed.
LEMMA CommitStep ==
  ASSUME TypeInv, NEW w \in Workers, RecordError(w) \/ RecordHealthy(w)
  PROVE  /\ worker[w].pc = "observed" /\ Current(w)
         /\ state'.exists = state.exists /\ state'.gen = state.gen
         /\ state'.born = state.born /\ state'.checkedAt = worker[w].at
         /\ logs' = logs \cup {NewLog(w)} \/ logs' = logs
         /\ worker'[w].pc \in {"idle", "publish"} /\ worker'[w].row = 0
         /\ worker'[w].at \in {0, worker[w].at}
         /\ \A v \in Workers \ {w} : worker'[v] = worker[v]
         /\ aba' = (aba \/ Straggler(w))
         /\ UNCHANGED <<clock, jobs>>
<1>1. /\ worker[w].pc = "observed" /\ worker[w].at \in Nat
      /\ worker[w].meta \in MaybeMeta /\ state \in StateRow
      /\ worker \in [Workers -> WorkerState]
  BY NewLogRow DEF RecordError, RecordHealthy, TypeInv, TypeOK
<1>2. CASE RecordError(w)
  <2>1. worker[w].status \in Errors
    BY <1>2 DEF RecordError
  <2>2. worker' = [worker EXCEPT ![w] = IdleWorker]
    BY <1>2 DEF RecordError
  <2> QED BY <1>1, <1>2, <2>1, <2>2, AfterErrorRow DEF RecordError, IdleWorker
<1>3. CASE RecordHealthy(w)
  <2>1. worker[w].status \in Healthy
    BY <1>3 DEF RecordHealthy
  <2> DEFINE pub == [IdleWorker EXCEPT !.pc = "publish", !.job = worker[w].job,
                                       !.at = worker[w].at, !.event = nextId]
  <2>2. worker' = [worker EXCEPT ![w] = pub]
        \/ worker' = [worker EXCEPT ![w] = IdleWorker]
    BY <1>3 DEF RecordHealthy
  <2>3. pub.pc = "publish" /\ pub.row = 0 /\ pub.at = worker[w].at
    BY DEF IdleWorker
  <2> HIDE DEF pub
  <2>4. /\ worker'[w].pc \in {"idle", "publish"} /\ worker'[w].row = 0
        /\ worker'[w].at \in {0, worker[w].at}
        /\ \A v \in Workers \ {w} : worker'[v] = worker[v]
    BY <1>1, <2>2, <2>3 DEF IdleWorker
  <2>5. /\ state'.exists = state.exists /\ state'.gen = state.gen
        /\ state'.born = state.born /\ state'.checkedAt = worker[w].at
    BY <1>1, <1>3, <2>1, AfterHealthyRow DEF RecordHealthy
  <2> QED BY <1>1, <1>3, <2>4, <2>5 DEF RecordHealthy
<1> QED BY <1>2, <1>3

LEMMA QuietFence ==
  ASSUME FenceInv, Quiet
  PROVE  FenceInv'
BY DEF FenceInv, Quiet, Jobs, Generations, Times, HolderIsNewest, Running,
       Current, Straggler

\* Fewer running checks and less recorded cannot break the fence.
LEMMA LeaveFence ==
  ASSUME TypeInv, FenceInv, NEW w \in Workers, Leave(w)
  PROVE  FenceInv'
<1>1. /\ worker'[w].pc = "idle" /\ worker'[w].row = 0 /\ worker'[w].at = 0
      /\ \A v \in Workers \ {w} : worker'[v] = worker[v]
  BY DEF Leave, IdleWorker, TypeInv, TypeOK
<1>2. UNCHANGED <<state, logs, clock, jobs, aba>>
  BY DEF Leave
<1>3. jobs \in Nat /\ clock \in Nat
  BY Numbers DEF TypeInv
<1>4. Jobs'
  BY <1>1, <1>2, <1>3 DEF FenceInv, Jobs
<1>5. Generations'
  BY <1>1, <1>2 DEF FenceInv, Generations, Running
<1>6. Times'
  BY <1>1, <1>2, <1>3 DEF FenceInv, Times
<1>7. HolderIsNewest'
  BY <1>1, <1>2 DEF FenceInv, HolderIsNewest, Current, Straggler
<1> QED BY <1>4, <1>5, <1>6, <1>7 DEF FenceInv

\* A new job is larger than every row's creator.
LEMMA LoadFence ==
  ASSUME TypeInv, FenceInv, NEW w \in Workers, Load(w)
  PROVE  FenceInv'
<1> DEFINE loaded == [IdleWorker EXCEPT !.pc = "loaded", !.job = jobs + 1]
<1>1. /\ worker' = [worker EXCEPT ![w] = loaded]
      /\ jobs' = jobs + 1
      /\ UNCHANGED <<state, logs, clock, aba>>
  BY DEF Load, LoadPeriodic, LoadNow, rows
<1>2. /\ loaded.pc = "loaded" /\ loaded.job = jobs + 1
      /\ loaded.row = 0 /\ loaded.at = 0
  BY DEF IdleWorker
<1> HIDE DEF loaded
<1>3. /\ worker'[w].pc = "loaded" /\ worker'[w].job = jobs + 1
      /\ worker'[w].row = 0 /\ worker'[w].at = 0
      /\ \A v \in Workers \ {w} : worker'[v] = worker[v]
  BY <1>1, <1>2 DEF TypeInv, TypeOK
<1>4. Jobs'
  <2>1. /\ state'.born <= jobs
        /\ \A v \in Workers : worker'[v].row <= jobs /\ worker'[v].row \in Nat
    BY <1>1, <1>3, Numbers DEF FenceInv, Jobs, TypeInv
  <2>2. state'.born \in Nat /\ jobs \in Nat /\ jobs' = jobs + 1
    BY <1>1, Numbers DEF TypeInv
  <2>3. ASSUME NEW u \in Workers, worker'[u].pc = "loaded"
        PROVE  /\ 0 < worker'[u].job
               /\ worker'[u].job <= jobs'
               /\ worker'[u].job # state'.born
               /\ \A v \in Workers : worker'[v].row # worker'[u].job
               /\ \A v \in Workers \ {u} :
                    worker'[v].pc = "loaded" => worker'[v].job # worker'[u].job
    <3>1. \A v \in Workers \ {w} :
            worker'[v].pc = "loaded" => worker'[v].job \in Nat
                                        /\ worker'[v].job <= jobs
      BY <1>3, Numbers DEF FenceInv, Jobs, TypeInv
    <3>2. CASE u = w
      BY <1>3, <2>1, <2>2, <3>1, <3>2
    <3>3. CASE u # w
      BY <1>1, <1>3, <2>2, <2>3, <3>1, <3>3 DEF FenceInv, Jobs
    <3> QED BY <3>2, <3>3
  <2> QED BY <2>1, <2>2, <2>3 DEF Jobs
<1>5. Generations'
  BY <1>1, <1>3 DEF FenceInv, Generations, Running
<1>6. Times'
  BY <1>1, <1>3, Numbers DEF FenceInv, Times, TypeInv
<1>7. HolderIsNewest'
  BY <1>1, <1>3 DEF FenceInv, HolderIsNewest, Current, Straggler
<1> QED BY <1>4, <1>5, <1>6, <1>7 DEF FenceInv

\* A reservation is either the next generation of the row or the first one of
\* a row nobody has seen; every earlier check loses the fence.
LEMMA StartStep ==
  ASSUME TypeInv, NEW w \in Workers, Start(w)
  PROVE  /\ worker[w].pc = "loaded"
         /\ worker'[w].pc = "probing" /\ worker'[w].at = worker[w].at
         /\ worker'[w].row = state'.born /\ worker'[w].gen = state'.gen
         /\ \A v \in Workers \ {w} : worker'[v] = worker[v]
         /\ state'.exists
         /\ IF state.exists
            THEN /\ state'.gen = state.gen + 1 /\ state'.born = state.born
                 /\ state'.checkedAt = state.checkedAt
            ELSE state'.born = worker[w].job /\ state'.checkedAt = 0
         /\ state'.status = IF state.exists THEN state.status ELSE None
         /\ state'.meta = IF state.exists THEN state.meta ELSE None
         /\ UNCHANGED <<logs, outbox, clock, nextId, jobs, aba>>
<1> DEFINE row == ReservedRow(worker[w].job)
           gen == row.gen + 1
<1>1. worker[w] \in WorkerState /\ worker[w].job \in Nat
  BY DEF TypeInv, TypeOK, WorkerState
<1>2. row \in StateRow
  BY <1>1, ReservedRowType DEF TypeInv
<1>3. /\ worker[w].pc = "loaded"
      /\ state' = [row EXCEPT !.gen = gen]
      /\ worker' = [worker EXCEPT ![w] = [@ EXCEPT !.pc = "probing",
                                            !.gen = gen, !.row = row.born]]
      /\ UNCHANGED <<logs, outbox, clock, nextId, jobs, aba>>
  BY DEF Start
<1>4. CASE state.exists
  <2>1. row = state
    BY <1>4 DEF ReservedRow
  <2>2. gen = state.gen + 1
    BY <2>1
  <2> HIDE DEF row, gen
  <2>3. /\ state'.exists /\ state'.gen = gen /\ state'.born = row.born
        /\ state'.checkedAt = row.checkedAt /\ state'.status = row.status
        /\ state'.meta = row.meta
    BY <1>2, <1>3, <1>4, <2>1 DEF StateRow
  <2>4. /\ worker'[w].pc = "probing" /\ worker'[w].at = worker[w].at
        /\ worker'[w].row = row.born /\ worker'[w].gen = gen
        /\ \A v \in Workers \ {w} : worker'[v] = worker[v]
    BY <1>1, <1>3 DEF TypeInv, TypeOK, WorkerState
  <2> QED BY <1>3, <1>4, <2>1, <2>2, <2>3, <2>4
<1>5. CASE ~state.exists
  <2>1. /\ row.exists /\ row.born = worker[w].job /\ row.checkedAt = 0
        /\ row.status = None /\ row.meta = None
    BY <1>5 DEF ReservedRow, NoRow
  <2> HIDE DEF row, gen
  <2>2. /\ state'.exists /\ state'.gen = gen /\ state'.born = row.born
        /\ state'.checkedAt = row.checkedAt /\ state'.status = row.status
        /\ state'.meta = row.meta
    BY <1>2, <1>3, <2>1 DEF StateRow
  <2>3. /\ worker'[w].pc = "probing" /\ worker'[w].at = worker[w].at
        /\ worker'[w].row = row.born /\ worker'[w].gen = gen
        /\ \A v \in Workers \ {w} : worker'[v] = worker[v]
    BY <1>1, <1>3 DEF TypeInv, TypeOK, WorkerState
  <2> QED BY <1>3, <1>5, <2>1, <2>2, <2>3
<1> QED BY <1>4, <1>5

LEMMA StartFence ==
  ASSUME TypeInv, FenceInv, NEW w \in Workers, Start(w)
  PROVE  FenceInv'
<1>1. /\ worker[w].pc = "loaded"
      /\ worker'[w].pc = "probing" /\ worker'[w].at = worker[w].at
      /\ worker'[w].row = state'.born /\ worker'[w].gen = state'.gen
      /\ \A v \in Workers \ {w} : worker'[v] = worker[v]
      /\ state'.exists
      /\ state.exists => /\ state'.gen = state.gen + 1
                         /\ state'.born = state.born
                         /\ state'.checkedAt = state.checkedAt
      /\ ~state.exists => state'.born = worker[w].job /\ state'.checkedAt = 0
      /\ UNCHANGED <<logs, clock, jobs, aba>>
  BY StartStep
<1>2. /\ state.gen \in Nat /\ state.born \in Nat /\ jobs \in Nat
      /\ clock \in Nat
      /\ \A v \in Workers : worker[v].gen \in Nat /\ worker[v].row \in Nat
  BY Numbers DEF TypeInv
<1>3. /\ 0 < worker[w].job /\ worker[w].job <= jobs
      /\ worker[w].job # state.born
      /\ \A v \in Workers : worker[v].row # worker[w].job
      /\ \A v \in Workers \ {w} :
           worker[v].pc = "loaded" => worker[v].job # worker[w].job
  BY <1>1 DEF FenceInv, Jobs
<1>4. Jobs'
  <2>1. state'.born <= jobs' /\ \A v \in Workers : worker'[v].row <= jobs'
    BY <1>1, <1>2, <1>3 DEF FenceInv, Jobs
  <2>2. ASSUME NEW u \in Workers, worker'[u].pc = "loaded"
        PROVE  /\ 0 < worker'[u].job
               /\ worker'[u].job <= jobs'
               /\ worker'[u].job # state'.born
               /\ \A v \in Workers : worker'[v].row # worker'[u].job
               /\ \A v \in Workers \ {u} :
                    worker'[v].pc = "loaded" => worker'[v].job # worker'[u].job
    <3>1. u # w /\ worker'[u] = worker[u]
      BY <1>1, <2>2
    <3>2. worker[u].job # state.born /\ worker[u].job # worker[w].job
      BY <1>1, <2>2, <3>1 DEF FenceInv, Jobs
    <3>3. worker'[u].job # state'.born
      BY <1>1, <3>1, <3>2
    <3> QED BY <1>1, <2>2, <3>1, <3>3 DEF FenceInv, Jobs
  <2> QED BY <2>1, <2>2 DEF Jobs
<1>5. \A v \in Running \ {w} :
        worker[v].row = state'.born => worker[v].gen < state'.gen
  <2>1. CASE state.exists
    BY <1>1, <1>2, <2>1 DEF FenceInv, Generations, Running
  <2>2. CASE ~state.exists
    BY <1>1, <1>3, <2>2 DEF Running
  <2> QED BY <2>1, <2>2
<1>6. Running' = Running \cup {w}
  BY <1>1 DEF Running
<1>7. state'.gen \in Nat
  BY StartType DEF TypeInv, TypeOK, StateRow
<1>8. Generations'
  <2>1. ASSUME NEW u \in Running'
        PROVE  /\ worker'[u].row = state'.born => worker'[u].gen <= state'.gen
               /\ \A v \in Running' \ {u} :
                    worker'[v].row = worker'[u].row =>
                      worker'[v].gen # worker'[u].gen
    <3>1. CASE u = w
      <4>1. \A v \in Running' \ {w} : v \in Running \ {w} /\ v \in Workers
        BY <1>6 DEF Running
      <4> QED BY <1>1, <1>2, <1>5, <1>7, <3>1, <4>1
    <3>2. CASE u # w
      <4>1. u \in Running \ {w} /\ u \in Workers
        BY <1>6, <3>2, <2>1 DEF Running
      <4>2. \A v \in Running' \ {u} : v = w \/ v \in Running \ {u}
        BY <1>6
      <4>3. \A v \in Running \ {w} : worker'[v] = worker[v]
        BY <1>1 DEF Running
      <4>4. \A v \in Running \ {u} :
              worker[v].row = worker[u].row => worker[v].gen # worker[u].gen
        BY <4>1 DEF FenceInv, Generations
      <4>5. worker'[u].row = state'.born => worker'[u].gen < state'.gen
        BY <1>5, <4>1, <4>3
      <4> QED BY <1>1, <1>2, <1>7, <4>1, <4>2, <4>3, <4>4, <4>5
    <3> QED BY <3>1, <3>2
  <2> QED BY <2>1 DEF Generations
<1>9. Times'
  <2>1. \A v \in Workers : worker'[v].at = worker[v].at
    BY <1>1
  <2>2. state'.checkedAt <= clock
    BY <1>1, <1>2 DEF FenceInv, Times
  <2> QED BY <1>1, <2>1, <2>2 DEF FenceInv, Times
<1>10. HolderIsNewest'
  <2>1. ASSUME NEW v \in Workers, worker'[v].pc = "observed",
               worker'[v].gen = state'.gen, worker'[v].row = state'.born
        PROVE  FALSE
    <3>1. v # w /\ worker'[v] = worker[v]
      BY <1>1, <2>1
    <3>2. v \in Running \ {w}
      BY <2>1, <3>1 DEF Running
    <3> QED BY <1>2, <1>5, <1>7, <2>1, <3>1, <3>2
  <2> QED BY <2>1 DEF HolderIsNewest, Current, Straggler
<1> QED BY <1>4, <1>8, <1>9, <1>10 DEF FenceInv

\* An answer is newer than everything recorded so far.
LEMMA ObserveFence ==
  ASSUME TypeInv, FenceInv, NEW w \in Workers, Observe(w)
  PROVE  FenceInv'
<1>1. PICK o \in WorkerState :
           /\ worker' = [worker EXCEPT ![w] = o]
           /\ o.pc = "observed" /\ o.at = clock + 1
           /\ o.gen = worker[w].gen /\ o.row = worker[w].row
  BY ObserveStep
<1>2. /\ worker'[w].pc = "observed" /\ worker'[w].at = clock + 1
      /\ worker'[w].gen = worker[w].gen /\ worker'[w].row = worker[w].row
      /\ \A v \in Workers \ {w} : worker'[v] = worker[v]
  BY <1>1 DEF TypeInv, TypeOK
<1>3. /\ clock' = clock + 1 /\ worker[w].pc = "probing"
      /\ UNCHANGED <<state, logs, jobs, aba>>
  BY DEF Observe, rows
<1>4. /\ state.checkedAt \in Nat /\ clock \in Nat
      /\ \A v \in Workers : worker[v].at \in Nat
      /\ \A l \in logs : l.at \in Nat
  BY Numbers, LogTimes DEF TypeInv
<1>5. Jobs'
  <2>1. \A v \in Workers : worker'[v].row = worker[v].row
    BY <1>2
  <2>2. \A v \in Workers : worker'[v].pc = "loaded" =>
          v # w /\ worker'[v] = worker[v]
    BY <1>2
  <2> QED BY <1>3, <2>1, <2>2 DEF FenceInv, Jobs
<1>6. Generations'
  <2>1. Running' = Running
    BY <1>2, <1>3 DEF Running
  <2>2. \A v \in Running : /\ worker'[v].gen = worker[v].gen
                           /\ worker'[v].row = worker[v].row
    BY <1>2 DEF Running
  <2> QED BY <1>3, <2>1, <2>2 DEF FenceInv, Generations
<1>7. Times'
  BY <1>2, <1>3, <1>4 DEF FenceInv, Times
<1>8. HolderIsNewest'
  BY <1>2, <1>3, <1>4 DEF FenceInv, HolderIsNewest, Times, Current, Straggler
<1> QED BY <1>5, <1>6, <1>7, <1>8 DEF FenceInv

\* Of the checks of one row only one holds its generation, so the one that
\* commits leaves no other holder behind.
LEMMA CommitFence ==
  ASSUME TypeInv, FenceInv, NEW w \in Workers, RecordError(w) \/ RecordHealthy(w)
  PROVE  FenceInv'
<1>1. /\ worker[w].pc = "observed" /\ Current(w)
      /\ state'.exists = state.exists /\ state'.gen = state.gen
      /\ state'.born = state.born /\ state'.checkedAt = worker[w].at
      /\ logs' = logs \cup {NewLog(w)} \/ logs' = logs
      /\ worker'[w].pc \in {"idle", "publish"} /\ worker'[w].row = 0
      /\ worker'[w].at \in {0, worker[w].at}
      /\ \A v \in Workers \ {w} : worker'[v] = worker[v]
      /\ aba' = (aba \/ Straggler(w))
      /\ UNCHANGED <<clock, jobs>>
  BY CommitStep
<1>2. jobs \in Nat /\ clock \in Nat
  BY Numbers DEF TypeInv
<1>3. Jobs'
  <2>1. \A v \in Workers : worker'[v].row = worker[v].row \/ worker'[v].row = 0
    BY <1>1
  <2>2. \A v \in Workers : worker'[v].pc = "loaded" =>
          v # w /\ worker'[v] = worker[v]
    BY <1>1
  <2>3. \A v \in Workers : worker'[v].row <= jobs
    BY <1>2, <2>1 DEF FenceInv, Jobs
  <2> QED BY <1>1, <2>1, <2>2, <2>3 DEF FenceInv, Jobs
<1>4. Running' = Running \ {w}
  BY <1>1 DEF Running
<1>5. Generations'
  <2>1. \A v \in Running \ {w} : worker'[v] = worker[v]
    BY <1>1 DEF Running
  <2> QED BY <1>1, <1>4, <2>1 DEF FenceInv, Generations
<1>6. Times'
  <2>1. NewLog(w).at = worker[w].at
    BY <1>1, NewLogRow
  <2> QED BY <1>1, <1>2, <2>1 DEF FenceInv, Times
<1>7. HolderIsNewest'
  <2>1. ASSUME ~aba', NEW v \in Workers, worker'[v].pc = "observed",
               worker'[v].gen = state'.gen, worker'[v].row = state'.born
        PROVE  FALSE
    <3>1. v # w /\ worker'[v] = worker[v]
      BY <1>1, <2>1
    <3>2. v \in Running /\ w \in Running
      BY <1>1, <2>1, <3>1 DEF Running
    <3>3. worker[w].row = state.born /\ worker[w].gen = state.gen
      BY <1>1, <2>1 DEF Straggler, Current
    <3> QED BY <1>1, <2>1, <3>1, <3>2, <3>3 DEF FenceInv, Generations
  <2> QED BY <2>1 DEF HolderIsNewest, Current, Straggler
<1> QED BY <1>3, <1>5, <1>6, <1>7 DEF FenceInv

LEMMA PruneFence ==
  ASSUME FenceInv, NEW cutoff, Prune(cutoff)
  PROVE  FenceInv'
BY DEF FenceInv, Prune, Jobs, Generations, Times, HolderIsNewest, Running,
       Current, Straggler

\* A deletion leaves no row to hold, or the row it found.
LEMMA DeleteFence ==
  ASSUME TypeInv, FenceInv, DeleteStep
  PROVE  FenceInv'
<1>1. /\ logs' \subseteq logs
      /\ UNCHANGED <<worker, clock, jobs, aba>>
  BY DEF DeleteStep
<1>2. CASE state' = state
  BY <1>1, <1>2 DEF FenceInv, Jobs, Generations, Times, HolderIsNewest,
                    Running, Current, Straggler
<1>3. CASE state' = NoRow
  <2>1. ~state'.exists /\ state'.born = 0 /\ state'.checkedAt = 0
    BY <1>3 DEF NoRow
  <2>2. clock \in Nat /\ jobs \in Nat
        /\ \A w \in Workers : worker[w].job \in Nat
    BY Numbers DEF TypeInv
  <2>3. Jobs'
    BY <1>1, <2>1, <2>2 DEF FenceInv, Jobs
  <2>4. Generations'
    BY <1>1, <2>1 DEF FenceInv, Generations, Running
  <2>5. Times'
    BY <1>1, <2>1, <2>2 DEF FenceInv, Times
  <2>6. HolderIsNewest'
    BY <2>1 DEF HolderIsNewest, Current
  <2> QED BY <2>3, <2>4, <2>5, <2>6 DEF FenceInv
<1> QED BY <1>2, <1>3 DEF DeleteStep

LEMMA NextFenceInv ==
  ASSUME TypeInv, FenceInv, [Next]_vars
  PROVE  FenceInv'
<1>1. CASE Quiet
  BY <1>1, QuietFence
<1>2. CASE \E w \in Workers : Leave(w)
  BY <1>2, LeaveFence
<1>3. CASE \E w \in Workers : Load(w)
  BY <1>3, LoadFence
<1>4. CASE \E w \in Workers : Start(w)
  BY <1>4, StartFence
<1>5. CASE \E w \in Workers : Observe(w)
  BY <1>5, ObserveFence
<1>6. CASE \E w \in Workers : RecordError(w) \/ RecordHealthy(w)
  BY <1>6, CommitFence
<1>7. CASE \E cutoff \in 1..clock : Prune(cutoff)
  BY <1>7, PruneFence
<1>8. CASE DeleteStep
  BY <1>8, DeleteFence
<1> QED BY <1>1, <1>2, <1>3, <1>4, <1>5, <1>6, <1>7, <1>8, StepCases

-----------------------------------------------------------------------------
(* The heartbeat *)

\* One step never moves the heartbeat of a living row back.
LEMMA HeartbeatStep ==
  ASSUME TypeInv, FenceInv, [Next]_vars,
         state.exists, state'.exists, state'.born = state.born, ~aba'
  PROVE  state'.checkedAt >= state.checkedAt
<1> state.checkedAt \in Nat /\ \A w \in Workers : worker[w].at \in Nat
  BY Numbers DEF TypeInv
<1>1. ASSUME NEW w \in Workers, RecordError(w) \/ RecordHealthy(w)
      PROVE  state'.checkedAt >= state.checkedAt
  <2>1. /\ worker[w].pc = "observed" /\ Current(w) /\ ~Straggler(w) /\ ~aba
        /\ state'.checkedAt = worker[w].at
    BY <1>1, CommitStep
  <2> QED BY <2>1 DEF FenceInv, HolderIsNewest
<1>2. ASSUME NEW w \in Workers, Start(w)
      PROVE  state'.checkedAt >= state.checkedAt
  BY <1>2, StartStep
<1>3. ASSUME NEW w \in Workers, Leave(w) \/ Load(w) \/ Observe(w)
      PROVE  state' = state
  BY <1>3 DEF Leave, Load, LoadPeriodic, LoadNow, Observe, rows
<1>4. ASSUME NEW cutoff \in 1..clock, Prune(cutoff)
      PROVE  state' = state
  BY <1>4 DEF Prune
<1>5. ASSUME DeleteStep
      PROVE  state' = state
  BY <1>5 DEF DeleteStep, NoRow
<1>6. ASSUME Quiet
      PROVE  state' = state
  BY <1>6 DEF Quiet
<1> QED BY <1>1, <1>2, <1>3, <1>4, <1>5, <1>6, StepCases

\* The fence works: while a state row lives, no overlap of checks, crashes,
\* pruning or concurrent deletion moves its heartbeat back, as long as no
\* result reserved on a deleted row of the same key is accepted.
THEOREM HeartbeatsNeverRegress == Spec => FenceOrdersHeartbeats
<1> DEFINE Inv == TypeInv /\ FenceInv
<1>1. Init => Inv
  BY InitTypeInv, InitFenceInv
<1>2. Inv /\ [Next]_vars => Inv'
  BY NextTypeInv, NextFenceInv
<1>3. Inv /\ [Next]_vars =>
        [ (state.exists /\ state'.exists /\ state'.born = state.born /\ ~aba')
            => state'.checkedAt >= state.checkedAt ]_vars
  BY HeartbeatStep
<1> QED BY <1>1, <1>2, <1>3, PTL DEF Spec, FenceOrdersHeartbeats

-----------------------------------------------------------------------------
(* Before the first deletion *)

\* The checks under way have reserved the row that is there, so that none of
\* them can be mistaken for another.
Untouched ==
  deletions = 0 =>
    /\ deleter = 0
    /\ ~aba
    /\ \A w \in Running : state.exists /\ worker[w].row = state.born

LEMMA NextUntouched ==
  ASSUME TypeInv, Untouched, [Next]_vars
  PROVE  Untouched'
<1> SUFFICES ASSUME deletions' = 0
             PROVE  /\ deleter' = 0
                    /\ ~aba'
                    /\ \A w \in Running' :
                         state'.exists /\ worker'[w].row = state'.born
  BY DEF Untouched
<1> worker \in [Workers -> WorkerState] /\ deletions \in Nat
  BY DEF TypeInv, TypeOK
<1>1. ~BeginDelete /\ UNCHANGED deletions
  <2>1. ~BeginDelete
    BY DEF BeginDelete
  <2> QED BY <2>1
      DEF Next, CheckStep, LoadPeriodic, LoadNow, Start, Observe, Discard,
          RecordError, RecordHealthy, Publish, Crash, ToggleMonitoring, Prune,
          DeleteStep, DeleteStepFails, Reimport, vars
<1>2. deleter = 0 /\ ~aba
  BY <1>1 DEF Untouched
<1>3. \A w \in Running : state.exists /\ worker[w].row = state.born
  BY <1>1 DEF Untouched
<1>4. ~DeleteStep /\ ~DeleteStepFails
  BY <1>2 DEF DeleteStep, DeleteStepFails
<1>5. UNCHANGED deleter
  BY <1>1, <1>4
     DEF Next, CheckStep, LoadPeriodic, LoadNow, Start, Observe, Discard,
         RecordError, RecordHealthy, Publish, Crash, ToggleMonitoring, Prune,
         Reimport, vars
<1>6. CASE Quiet
  BY <1>2, <1>3, <1>5, <1>6 DEF Quiet, Running
<1>7. ASSUME NEW w \in Workers, Leave(w)
      PROVE  /\ ~aba'
             /\ \A v \in Running' : state'.exists /\ worker'[v].row = state'.born
  BY <1>2, <1>3, <1>7 DEF Leave, Running, IdleWorker
<1>8. ASSUME NEW w \in Workers, Load(w)
      PROVE  /\ ~aba'
             /\ \A v \in Running' : state'.exists /\ worker'[v].row = state'.born
  <2> DEFINE new == [[IdleWorker EXCEPT !.pc = "loaded"] EXCEPT !.job = jobs + 1]
  <2>1. worker' = [worker EXCEPT ![w] = new] /\ UNCHANGED <<state, aba>>
    BY <1>8 DEF Load, LoadPeriodic, LoadNow, rows
  <2>2. new.pc = "loaded"
    BY DEF IdleWorker
  <2> HIDE DEF new
  <2> QED BY <1>2, <1>3, <2>1, <2>2 DEF Running
<1>9. ASSUME NEW w \in Workers, Start(w)
      PROVE  /\ ~aba'
             /\ \A v \in Running' : state'.exists /\ worker'[v].row = state'.born
  BY <1>2, <1>3, <1>9, StartStep DEF Running
<1>10. ASSUME NEW w \in Workers, Observe(w)
       PROVE  /\ ~aba'
              /\ \A v \in Running' : state'.exists /\ worker'[v].row = state'.born
  <2>1. /\ worker[w].pc = "probing" /\ worker'[w].row = worker[w].row
        /\ \A v \in Workers \ {w} : worker'[v] = worker[v]
        /\ UNCHANGED <<state, aba>>
    BY <1>10, ObserveStep DEF Observe, rows
  <2> QED BY <1>2, <1>3, <2>1 DEF Running
<1>11. ASSUME NEW w \in Workers, RecordError(w) \/ RecordHealthy(w)
       PROVE  /\ ~aba'
              /\ \A v \in Running' : state'.exists /\ worker'[v].row = state'.born
  <2>1. /\ worker[w].pc = "observed" /\ worker'[w].pc \in {"idle", "publish"}
        /\ state'.exists = state.exists /\ state'.born = state.born
        /\ \A v \in Workers \ {w} : worker'[v] = worker[v]
        /\ aba' = (aba \/ Straggler(w))
    BY <1>11, CommitStep
  <2>2. ~Straggler(w)
    BY <1>3, <2>1 DEF Running, Straggler
  <2>3. ~aba'
    BY <1>2, <2>1, <2>2
  <2>4. ASSUME NEW v \in Running'
        PROVE  v # w /\ v \in Running /\ worker'[v] = worker[v]
    BY <2>1, <2>4 DEF Running
  <2> QED BY <1>3, <2>1, <2>3, <2>4
<1>12. ASSUME NEW cutoff \in 1..clock, Prune(cutoff)
       PROVE  /\ ~aba'
              /\ \A v \in Running' : state'.exists /\ worker'[v].row = state'.born
  BY <1>2, <1>3, <1>12 DEF Prune, Running
<1> QED BY <1>2, <1>4, <1>5, <1>6, <1>7, <1>8, <1>9, <1>10, <1>11, <1>12,
           StepCases DEF Quiet

LEMMA InitUntouched == Init => Untouched
BY DEF Init, Untouched, Running, IdleWorker

\* What the comment on check_generation promises is true until the cloud is
\* deleted for the first time: out-of-order answers never move a heartbeat
\* back.  The run aba_after_deletion shows that one deletion is enough to
\* break it.
THEOREM RegressionNeedsDeletion ==
  Spec => [][ (/\ state.exists /\ state'.exists /\ state'.born = state.born
               /\ deletions' = 0)
                => state'.checkedAt >= state.checkedAt ]_vars
<1> DEFINE Inv == TypeInv /\ FenceInv /\ Untouched
<1>1. Init => Inv
  BY InitTypeInv, InitFenceInv, InitUntouched
<1>2. Inv /\ [Next]_vars => Inv'
  BY NextTypeInv, NextFenceInv, NextUntouched
<1>3. Inv /\ [Next]_vars =>
        [ (/\ state.exists /\ state'.exists /\ state'.born = state.born
           /\ deletions' = 0)
             => state'.checkedAt >= state.checkedAt ]_vars
  <2> SUFFICES ASSUME Inv, [Next]_vars, state.exists, state'.exists,
                      state'.born = state.born, deletions' = 0
               PROVE  state'.checkedAt >= state.checkedAt
    OBVIOUS
  <2>1. ~aba'
    BY NextUntouched DEF Untouched
  <2> QED BY <2>1, HeartbeatStep
<1> QED BY <1>1, <1>2, <1>3, PTL DEF Spec

\* Where no cloud is ever deleted, the promise holds as it stands.
COROLLARY OutOfOrderWithoutDeletion ==
  ASSUME MaxDeletions = 0
  PROVE  Spec => OutOfOrderNeverRegresses
<1> DEFINE Inv == TypeInv /\ FenceInv /\ Untouched /\ deletions = 0
<1>1. Init => Inv
  BY InitTypeInv, InitFenceInv, InitUntouched DEF Init
<1>2. ASSUME deletions = 0, [Next]_vars PROVE deletions' = 0
  <2>1. ~BeginDelete
    BY <1>2 DEF BeginDelete
  <2> QED BY <1>2, <2>1
      DEF Next, CheckStep, LoadPeriodic, LoadNow, Start, Observe, Discard,
          RecordError, RecordHealthy, Publish, Crash, ToggleMonitoring, Prune,
          DeleteStep, DeleteStepFails, Reimport, vars
<1>3. Inv /\ [Next]_vars => Inv'
  BY <1>2, NextTypeInv, NextFenceInv, NextUntouched
<1>4. Inv /\ [Next]_vars =>
        [ (state.exists /\ state'.exists /\ state'.born = state.born)
             => state'.checkedAt >= state.checkedAt ]_vars
  BY <1>3, HeartbeatStep DEF Untouched
<1> QED BY <1>1, <1>3, <1>4, PTL DEF Spec, OutOfOrderNeverRegresses

-----------------------------------------------------------------------------
(* Every step preserves HistoryInv *)

LEMMA InitHistoryInv == Init => HistoryInv
<1> SUFFICES ASSUME Init PROVE HistoryInv OBVIOUS
<1>1. state.status = None /\ state.meta = None
  BY DEF Init, NoRow
<1>2. /\ \A l \in HealthyLogs : l.meta \in Metas
      /\ \A k, l \in HealthyLogs : k = l
      /\ \A l \in logs : l.id = 0 /\ l.at = 0
  BY DEF Init, HealthyLogs
<1>3. LogsAreTransitions
  BY <1>2 DEF LogsAreTransitions, Predecessor, HealthyLogs
<1>4. Identifiers /\ AlertsFollowTheLog
  BY <1>2 DEF Init, Identifiers, AlertsFollowTheLog
<1> QED BY <1>1, <1>2, <1>3, <1>4
        DEF HistoryInv, Baselines, DistinctTimes, StateAgreesWithNewestLog

\* A step that leaves the healthy log rows and the alerts alone, and keeps or
\* forgets the last status with its metadata.
LEMMA HistoryKept ==
  ASSUME HistoryInv, HealthyLogs' = HealthyLogs, UNCHANGED outbox, aba => aba',
         \/ state'.status = state.status /\ state'.meta = state.meta
         \/ state'.status = None /\ state'.meta = None,
         Identifiers'
  PROVE  HistoryInv'
<1>1. Baselines'
  BY DEF HistoryInv, Baselines
<1>2. DistinctTimes'
  BY DEF HistoryInv, DistinctTimes
<1>3. StateAgreesWithNewestLog'
  BY DEF HistoryInv, StateAgreesWithNewestLog, IsLatest
<1>4. LogsAreTransitions'
  BY DEF HistoryInv, LogsAreTransitions, Predecessor
<1>5. AlertsFollowTheLog'
  BY DEF HistoryInv, AlertsFollowTheLog, Predecessor
<1> QED BY <1>1, <1>2, <1>3, <1>4, <1>5 DEF HistoryInv

LEMMA SameLogsHistory ==
  ASSUME HistoryInv, UNCHANGED <<logs, outbox, nextId, aba>>,
         \/ state'.status = state.status /\ state'.meta = state.meta
         \/ state'.status = None /\ state'.meta = None
  PROVE  HistoryInv'
<1>1. HealthyLogs' = HealthyLogs
  BY DEF HealthyLogs
<1>2. Identifiers'
  BY DEF HistoryInv, Identifiers
<1> QED BY <1>1, <1>2, HistoryKept

\* A failed check logs an error row, which no comparison looks at.
LEMMA RecordErrorHistory ==
  ASSUME TypeInv, HistoryInv, NEW w \in Workers, RecordError(w)
  PROVE  HistoryInv'
<1>1. /\ worker[w].pc = "observed" /\ worker[w].status \in Errors
      /\ worker[w].at \in Nat /\ state \in StateRow /\ nextId \in Nat
  BY NewLogRow DEF RecordError, TypeInv, TypeOK
<1>2. state'.status = state.status /\ state'.meta = state.meta
  BY <1>1, AfterErrorRow DEF RecordError
<1>3. NewLog(w).status \notin Healthy /\ NewLog(w).id = nextId
  BY <1>1, NewLogRow, StatusAssumption
<1>4. HealthyLogs' = HealthyLogs
  BY <1>3, HealthyAfterInsert DEF RecordError, HealthyLogs
<1>5. Identifiers'
  <2>1. /\ outbox' = outbox
        /\ \/ logs' = logs \cup {NewLog(w)} /\ nextId' = nextId + 1
           \/ logs' = logs /\ nextId' = nextId
    BY DEF RecordError
  <2>2. /\ \A l \in logs : l.id \in Nat /\ l.id < nextId
        /\ \A o \in outbox : o.event \in Nat /\ o.event < nextId
    BY LogTimes DEF TypeInv, HistoryInv, Identifiers
  <2>3. \A l \in logs : l.id < nextId'
    BY <1>1, <2>1, <2>2
  <2>4. \A o \in outbox : o.event < nextId'
    BY <1>1, <2>1, <2>2
  <2>5. logs' # logs => NewLog(w).id < nextId'
    BY <1>1, <1>3, <2>1
  <2> QED BY <2>1, <2>3, <2>4, <2>5 DEF Identifiers
<1> QED BY <1>2, <1>4, <1>5, HistoryKept DEF RecordError

\* Pruning removes the oldest rows, so neighbours and the newest row stay.
LEMMA PruneHistory ==
  ASSUME TypeInv, HistoryInv, NEW cutoff \in Nat, Prune(cutoff)
  PROVE  HistoryInv'
<1>1. /\ HealthyLogs' = {l \in HealthyLogs : l.at >= cutoff}
      /\ logs' \subseteq logs /\ outbox' \subseteq outbox
      /\ UNCHANGED <<state, nextId, aba>>
  BY DEF Prune, HealthyLogs
<1>2. \A l \in HealthyLogs : l.at \in Nat
  BY LogTimes DEF TypeInv
<1>3. Baselines' /\ DistinctTimes' /\ Identifiers'
  BY <1>1 DEF HistoryInv, Baselines, DistinctTimes, Identifiers
<1>4. StateAgreesWithNewestLog'
  <2>1. \A l \in HealthyLogs' :
          IsLatest(l, HealthyLogs') => IsLatest(l, HealthyLogs)
    BY <1>1, <1>2 DEF IsLatest
  <2> QED BY <1>1, <2>1
          DEF HistoryInv, StateAgreesWithNewestLog, IsLatest
<1>5. \A p, l \in HealthyLogs' : Predecessor(p, l)' => Predecessor(p, l)
  BY <1>1, <1>2 DEF Predecessor
<1>6. LogsAreTransitions' /\ AlertsFollowTheLog'
  BY <1>1, <1>5 DEF HistoryInv, LogsAreTransitions, AlertsFollowTheLog
<1> QED BY <1>3, <1>4, <1>6 DEF HistoryInv

LEMMA DeleteHistory ==
  ASSUME HistoryInv, DeleteStep
  PROVE  HistoryInv'
<1>1. UNCHANGED <<nextId, aba>>
  BY DEF DeleteStep
<1>2. \/ state' = state
      \/ state'.status = None /\ state'.meta = None
  BY DEF DeleteStep, NoRow
<1>3. HealthyLogs' = HealthyLogs \/ HealthyLogs' = {}
  BY DEF DeleteStep, HealthyLogs
<1>4. outbox' = outbox \/ outbox' = {}
  BY DEF DeleteStep
<1>5. Identifiers'
  BY <1>1 DEF DeleteStep, HistoryInv, Identifiers
<1>6. Baselines'
  BY <1>2, <1>3 DEF HistoryInv, Baselines
<1>7. DistinctTimes' /\ StateAgreesWithNewestLog'
  BY <1>1, <1>2, <1>3
     DEF HistoryInv, DistinctTimes, StateAgreesWithNewestLog, IsLatest
<1>8. LogsAreTransitions' /\ AlertsFollowTheLog'
  BY <1>1, <1>3, <1>4
     DEF HistoryInv, LogsAreTransitions, AlertsFollowTheLog, Predecessor
<1> QED BY <1>5, <1>6, <1>7, <1>8 DEF HistoryInv

\* Before any result of a deleted row is accepted, the comparison of a commit
\* is with the newest healthy row.
LEMMA ComparisonIsWithNewest ==
  ASSUME TypeInv, HistoryInv, ~aba,
         NEW p \in HealthyLogs, IsLatest(p, HealthyLogs)
  PROVE  PreviousStatus = p.status /\ PreviousMeta = p.meta
<1>1. CASE state.status # None
  BY <1>1 DEF HistoryInv, Baselines, StateAgreesWithNewestLog, PreviousStatus,
              PreviousMeta
<1>2. CASE state.status = None
  <2>1. LatestHealthy \in HealthyLogs /\ IsLatest(LatestHealthy, HealthyLogs)
    BY DEF LatestHealthy
  <2>2. LatestHealthy.at = p.at
    BY <2>1, LogTimes DEF IsLatest, TypeInv
  <2>3. LatestHealthy = p
    BY <2>1, <2>2 DEF HistoryInv, DistinctTimes
  <2> QED BY <1>2, <2>3 DEF HistoryInv, Baselines, PreviousStatus, PreviousMeta
<1> QED BY <1>1, <1>2

\* An accepted transition goes to the end of the log; what it was compared with
\* is the row before it.
LEMMA TransitionAppends ==
  ASSUME TypeInv, HolderIsNewest, HistoryInv, NEW w \in Workers,
         RecordHealthy(w), logs' = logs \cup {NewLog(w)}, ~aba'
  PROVE  /\ HealthyLogs' = HealthyLogs \cup {NewLog(w)}
         /\ \A l \in HealthyLogs : l.at < NewLog(w).at
         /\ \A p, l \in HealthyLogs' :
              Predecessor(p, l)' =>
                \/ p \in HealthyLogs /\ l \in HealthyLogs /\ Predecessor(p, l)
                \/ /\ p \in HealthyLogs /\ l = NewLog(w)
                   /\ PreviousStatus = p.status /\ PreviousMeta = p.meta
<1> DEFINE x == NewLog(w)
<1>1. /\ worker[w].pc = "observed" /\ Current(w) /\ ~Straggler(w) /\ ~aba
      /\ worker[w].status \in Healthy
  BY DEF RecordHealthy
<1>2. x.at = worker[w].at /\ x.at \in Nat /\ x.status \in Healthy
  BY <1>1, NewLogRow
<1>3. \A l \in HealthyLogs : l.at \in Nat /\ l.at < x.at
  BY <1>1, <1>2, LogTimes DEF HolderIsNewest, TypeInv
<1>4. HealthyLogs' = HealthyLogs \cup {x}
  BY <1>2, HealthyAfterInsert
<1> HIDE DEF x
<1>5. ASSUME NEW p \in HealthyLogs', NEW l \in HealthyLogs', Predecessor(p, l)'
      PROVE  \/ p \in HealthyLogs /\ l \in HealthyLogs /\ Predecessor(p, l)
             \/ /\ p \in HealthyLogs /\ l = x
                /\ PreviousStatus = p.status /\ PreviousMeta = p.meta
  <2>1. /\ p.at < l.at
        /\ \A k \in HealthyLogs : ~(p.at < k.at /\ k.at < l.at)
    BY <1>4, <1>5 DEF Predecessor
  <2>2. p \in HealthyLogs
    BY <1>2, <1>3, <1>4, <2>1
  <2>3. CASE l \in HealthyLogs
    BY <2>1, <2>2, <2>3 DEF Predecessor
  <2>4. CASE l = x
    <3>1. IsLatest(p, HealthyLogs)
      BY <1>3, <2>1, <2>2, <2>4 DEF IsLatest
    <3> QED BY <1>1, <2>2, <2>4, <3>1, ComparisonIsWithNewest
  <2> QED BY <1>4, <2>3, <2>4
<1> QED BY <1>3, <1>4, <1>5 DEF x

LEMMA RecordHealthyHistory ==
  ASSUME TypeInv, HolderIsNewest, HistoryInv, NEW w \in Workers,
         RecordHealthy(w)
  PROVE  HistoryInv'
<1> DEFINE x == NewLog(w)
           s == worker[w].status
           m == worker[w].meta
<1>1. /\ worker[w].pc = "observed" /\ s \in Healthy /\ m \in Metas
      /\ s # None /\ m # None
  BY StatusAssumption DEF RecordHealthy, TypeInv, ObservationsComplete
<1>2. /\ worker[w].at \in Nat /\ nextId \in Nat /\ m \in MaybeMeta
      /\ x.status = s /\ x.meta = m /\ x.id = nextId
  BY <1>1, NewLogRow DEF TypeInv, TypeOK
<1>3. state'.status = s /\ state'.meta = m
  BY <1>1, <1>2, AfterHealthyRow DEF RecordHealthy, TypeInv, TypeOK
<1>4. /\ \A l \in logs : l.id \in Nat /\ l.id < nextId
      /\ \A o \in outbox : o.event \in Nat /\ o.event < nextId
  BY LogTimes DEF TypeInv, HistoryInv, Identifiers
<1>5. HealthyLogs \subseteq logs
  BY LogTimes DEF TypeInv
<1>6. aba => aba'
  BY DEF RecordHealthy
<1>7. CASE Changed(s, m)
  <2>1. logs' = logs \cup {x} /\ nextId' = nextId + 1
    BY <1>7 DEF RecordHealthy
  <2>2. HealthyLogs' = HealthyLogs \cup {x}
    BY <1>1, <1>2, <2>1, HealthyAfterInsert
  <2>3. \A o \in outbox' \ outbox :
          o.event = nextId /\ o.cur = s /\ o.prev = PreviousStatus
    <3>1. CASE ShouldNotify(w)
      BY <3>1 DEF RecordHealthy
    <3>2. CASE ~ShouldNotify(w)
      BY <3>2 DEF RecordHealthy
    <3> QED BY <3>1, <3>2
  <2>4. /\ ~aba' => \A l \in HealthyLogs : l.at < x.at
        /\ ~aba' => \A p, l \in HealthyLogs' :
              Predecessor(p, l)' =>
                \/ p \in HealthyLogs /\ l \in HealthyLogs /\ Predecessor(p, l)
                \/ /\ p \in HealthyLogs /\ l = x
                   /\ PreviousStatus = p.status /\ PreviousMeta = p.meta
    BY <2>1, TransitionAppends
  <2>5. \A l \in HealthyLogs : l.at \in Nat
    BY LogTimes DEF TypeInv
  <2>6. x.at \in Nat
    BY <1>1, NewLogRow
  <2> HIDE DEF x, s, m
  <2>7. Baselines'
    BY <1>1, <1>2, <1>3, <2>2 DEF HistoryInv, Baselines
  <2>8. DistinctTimes'
    BY <1>6, <2>2, <2>4, <2>5, <2>6 DEF HistoryInv, DistinctTimes
  <2>9. Identifiers'
    <3>1. \A l \in logs' : l.id < nextId'
      BY <1>2, <1>4, <2>1
    <3>2. \A o \in outbox' : o.event < nextId'
      BY <1>2, <1>4, <2>1, <2>3
    <3> QED BY <3>1, <3>2 DEF Identifiers
  <2>10. StateAgreesWithNewestLog'
    <3>1. ASSUME ~aba', NEW l \in HealthyLogs', IsLatest(l, HealthyLogs')
          PROVE  l = x
      BY <2>2, <2>4, <2>5, <2>6, <3>1 DEF IsLatest
    <3> QED BY <1>2, <1>3, <3>1 DEF StateAgreesWithNewestLog, IsLatest
  <2>11. LogsAreTransitions'
    <3>1. ASSUME ~aba', NEW p \in HealthyLogs', NEW l \in HealthyLogs',
                 Predecessor(p, l)'
          PROVE  p.status # l.status \/ p.meta # l.meta
      <4>1. CASE /\ p \in HealthyLogs /\ l \in HealthyLogs
                 /\ Predecessor(p, l)
        BY <1>6, <3>1, <4>1 DEF HistoryInv, LogsAreTransitions
      <4>2. CASE /\ p \in HealthyLogs /\ l = x
                 /\ PreviousStatus = p.status /\ PreviousMeta = p.meta
        BY <1>2, <1>7, <4>2 DEF Changed
      <4> QED BY <2>4, <3>1, <4>1, <4>2
    <3> QED BY <3>1 DEF LogsAreTransitions, Predecessor
  <2>12. AlertsFollowTheLog'
    <3>1. ASSUME ~aba', NEW o \in outbox', NEW l \in HealthyLogs',
                 l.id = o.event
          PROVE  /\ o.cur = l.status
                 /\ \A p \in HealthyLogs' :
                      Predecessor(p, l)' => o.prev = p.status
      <4>1. CASE o \in outbox /\ l \in HealthyLogs
        <5>1. l # x
          BY <1>2, <1>4, <1>5, <4>1
        <5> QED BY <1>6, <2>4, <3>1, <4>1, <5>1
                DEF HistoryInv, AlertsFollowTheLog
      <4>2. CASE o \notin outbox /\ l = x
        <5>1. x \notin HealthyLogs
          BY <1>2, <1>4, <1>5
        <5> QED BY <1>2, <2>3, <2>4, <3>1, <4>2, <5>1
      <4>3. CASE o \in outbox /\ l = x
        BY <1>2, <1>4, <3>1, <4>3
      <4>4. CASE o \notin outbox /\ l \in HealthyLogs
        BY <1>4, <1>5, <2>3, <3>1, <4>4
      <4> QED BY <2>2, <4>1, <4>2, <4>3, <4>4
    <3> QED BY <3>1 DEF AlertsFollowTheLog, Predecessor
  <2> QED BY <2>7, <2>8, <2>9, <2>10, <2>11, <2>12 DEF HistoryInv
<1>8. CASE ~Changed(s, m)
  <2>1. UNCHANGED <<logs, nextId, outbox>>
    BY <1>8 DEF RecordHealthy, ShouldNotify
  <2>2. HealthyLogs' = HealthyLogs
    BY <2>1 DEF HealthyLogs
  <2> HIDE DEF x, s, m
  <2>3. Baselines'
    BY <1>1, <1>3, <2>2 DEF HistoryInv, Baselines
  <2>4. DistinctTimes' /\ Identifiers'
    BY <1>6, <2>1, <2>2 DEF HistoryInv, DistinctTimes, Identifiers
  <2>5. StateAgreesWithNewestLog'
    <3>1. ASSUME ~aba', NEW l \in HealthyLogs, IsLatest(l, HealthyLogs)
          PROVE  l.status = s /\ l.meta = m
      <4>1. PreviousStatus = l.status /\ PreviousMeta = l.meta
        BY <1>6, <3>1, ComparisonIsWithNewest
      <4>2. l.meta # None
        BY StatusAssumption DEF HistoryInv, Baselines
      <4> QED BY <1>8, <4>1, <4>2 DEF Changed
    <3> QED BY <1>3, <2>2, <3>1 DEF StateAgreesWithNewestLog, IsLatest
  <2>6. LogsAreTransitions' /\ AlertsFollowTheLog'
    BY <1>6, <2>1, <2>2
       DEF HistoryInv, LogsAreTransitions, AlertsFollowTheLog, Predecessor
  <2> QED BY <2>3, <2>4, <2>5, <2>6 DEF HistoryInv
<1> QED BY <1>7, <1>8

LEMMA NextHistoryInv ==
  ASSUME TypeInv, FenceInv, HistoryInv, [Next]_vars
  PROVE  HistoryInv'
<1>1. CASE Quiet
  BY <1>1, SameLogsHistory DEF Quiet
<1>2. ASSUME NEW w \in Workers, Leave(w) \/ Load(w) \/ Observe(w)
      PROVE  HistoryInv'
  BY <1>2, SameLogsHistory
     DEF Leave, Load, LoadPeriodic, LoadNow, Observe, rows
<1>3. ASSUME NEW w \in Workers, Start(w)
      PROVE  HistoryInv'
  BY <1>3, StartStep, SameLogsHistory
<1>4. CASE \E w \in Workers : RecordError(w)
  BY <1>4, RecordErrorHistory
<1>5. CASE \E w \in Workers : RecordHealthy(w)
  BY <1>5, RecordHealthyHistory DEF FenceInv
<1>6. ASSUME NEW cutoff \in 1..clock, Prune(cutoff)
      PROVE  HistoryInv'
  <2>1. cutoff \in Nat
    BY DEF TypeInv, TypeOK
  <2> QED BY <1>6, <2>1, PruneHistory
<1>7. CASE DeleteStep
  BY <1>7, DeleteHistory
<1> QED BY <1>1, <1>2, <1>3, <1>4, <1>5, <1>6, <1>7, StepCases

LEMMA InvariantHolds == Spec => []IInv
<1>1. Init => IInv
  BY InitTypeInv, InitFenceInv, InitHistoryInv DEF IInv
<1>2. IInv /\ [Next]_vars => IInv'
  BY NextTypeInv, NextFenceInv, NextHistoryInv DEF IInv
<1> QED BY <1>1, <1>2, PTL DEF Spec

\* The console shows the status and metadata of the newest healthy log row.
THEOREM StateAgrees == Spec => []StateAgreesWithNewestLog
<1>1. IInv => StateAgreesWithNewestLog
  BY DEF IInv, HistoryInv
<1> QED BY <1>1, InvariantHolds, PTL

\* Neighbouring healthy log rows differ: the log holds transitions only.
THEOREM LogHoldsTransitions == Spec => []LogsAreTransitions
<1>1. IInv => LogsAreTransitions
  BY DEF IInv, HistoryInv
<1> QED BY <1>1, InvariantHolds, PTL

\* Every alert tells a transition that the log shows.
THEOREM AlertsTellTheLog == Spec => []AlertsFollowTheLog
<1>1. IInv => AlertsFollowTheLog
  BY DEF IInv, HistoryInv
<1> QED BY <1>1, InvariantHolds, PTL

-----------------------------------------------------------------------------
(* The checks implement CheckFence *)

\* A generation of a row has one holder.
LEMMA OneHolder ==
  ASSUME FenceInv, NEW w \in Holders
  PROVE  Holders = {w}
BY DEF FenceInv, Generations, Holders, Running, Current, Straggler

\* Nothing happens to the fence when no check starts, ends or loses its row.
LEMMA SameFence ==
  ASSUME UNCHANGED state, Running' = Running,
         \A w \in Running :
           worker'[w].gen = worker[w].gen /\ worker'[w].row = worker[w].row
  PROVE  UNCHANGED <<Running, Holders>>
BY DEF Holders, Current, Straggler

\* A check that ends leaves the others where they were.
LEMMA EndOfCheck ==
  ASSUME NEW w \in Workers, worker'[w].pc \notin {"probing", "observed"},
         \A v \in Workers \ {w} : worker'[v] = worker[v],
         state'.exists = state.exists, state'.gen = state.gen,
         state'.born = state.born
  PROVE  Running' = Running \ {w} /\ Holders' = Holders \ {w}
<1>1. Running' = Running \ {w}
  BY DEF Running
<1>2. \A v \in Running \ {w} : worker'[v] = worker[v]
  BY DEF Running
<1> QED BY <1>1, <1>2 DEF Holders, Current, Straggler

\* Every step is a step of the fence, or leaves it alone.
LEMMA FenceStep ==
  ASSUME TypeInv, FenceInv, [Next]_vars
  PROVE  [Fence!Next]_(Fence!fenceVars)
<1> worker \in [Workers -> WorkerState]
  BY DEF TypeInv, TypeOK
<1> USE DEF Fence!fenceVars
<1>1. CASE Quiet
  BY <1>1, SameFence DEF Quiet, Running
<1>2. ASSUME NEW w \in Workers, Load(w)
      PROVE  UNCHANGED <<Running, Holders>>
  <2> DEFINE new == [[IdleWorker EXCEPT !.pc = "loaded"] EXCEPT !.job = jobs + 1]
  <2>1. /\ worker[w].pc = "idle" /\ worker' = [worker EXCEPT ![w] = new]
        /\ UNCHANGED state
    BY <1>2 DEF Load, LoadPeriodic, LoadNow, rows
  <2>2. new.pc = "loaded"
    BY DEF IdleWorker
  <2> HIDE DEF new
  <2>3. worker'[w].pc = "loaded" /\ \A v \in Workers \ {w} : worker'[v] = worker[v]
    BY <2>1, <2>2
  <2> QED BY <2>1, <2>3, SameFence DEF Running
<1>3. ASSUME NEW w \in Workers, Observe(w)
      PROVE  UNCHANGED <<Running, Holders>>
  <2>1. /\ worker[w].pc = "probing" /\ worker'[w].pc = "observed"
        /\ worker'[w].gen = worker[w].gen /\ worker'[w].row = worker[w].row
        /\ \A v \in Workers \ {w} : worker'[v] = worker[v]
        /\ UNCHANGED state
    <3>1. worker[w].pc = "probing" /\ UNCHANGED state
      BY <1>3 DEF Observe, rows
    <3>2. PICK o \in WorkerState :
            /\ worker' = [worker EXCEPT ![w] = o]
            /\ o.pc = "observed"
            /\ o.gen = worker[w].gen /\ o.row = worker[w].row
      BY <1>3, ObserveStep
    <3>3. worker'[w] = o /\ \A v \in Workers \ {w} : worker'[v] = worker[v]
      BY <3>2
    <3> QED BY <3>1, <3>2, <3>3
  <2> QED BY <2>1, SameFence DEF Running
<1>4. ASSUME NEW w \in Workers, Start(w)
      PROVE  Fence!Reserve(w)
  <2>1. w \notin Running /\ Running' = Running \cup {w}
    BY <1>4, StartStep DEF Running
  <2>2. w \in Holders'
    BY <1>4, <2>1, StartStep DEF Holders, Current, Straggler
  <2>3. FenceInv'
    BY <1>4, StartFence
  <2>4. Holders' = {w}
    BY <2>2, <2>3 DEF FenceInv, Generations, Holders, Running, Current,
                      Straggler
  <2> QED BY <2>1, <2>4 DEF Fence!Reserve
<1>5. ASSUME NEW w \in Workers, Leave(w)
      PROVE  Fence!Drop(w) \/ Fence!Fail(w) \/ UNCHANGED <<Running, Holders>>
  <2>1. Running' = Running \ {w} /\ Holders' = Holders \ {w}
    BY <1>5, EndOfCheck DEF Leave, IdleWorker
  <2>2. Holders \subseteq Running
    BY DEF Holders
  <2> QED BY <2>1, <2>2 DEF Fence!Drop, Fence!Fail
<1>6. ASSUME NEW w \in Workers, RecordError(w) \/ RecordHealthy(w)
      PROVE  Fence!Commit(w) \/ Fence!Drop(w)
  <2>1. Running' = Running \ {w} /\ Holders' = Holders \ {w}
    BY <1>6, CommitStep, EndOfCheck
  <2>2. w \in Running
    BY <1>6, CommitStep DEF Running
  <2>3. CASE w \in Holders
    BY <2>1, <2>2, <2>3, OneHolder DEF Fence!Commit
  <2>4. CASE w \notin Holders
    BY <2>1, <2>2, <2>4 DEF Fence!Drop
  <2> QED BY <2>3, <2>4
<1>7. ASSUME NEW cutoff \in 1..clock, Prune(cutoff)
      PROVE  UNCHANGED <<Running, Holders>>
  BY <1>7, SameFence DEF Prune, Running
<1>8. CASE DeleteStep
  <2>1. UNCHANGED worker /\ (UNCHANGED state \/ state' = NoRow)
    BY <1>8 DEF DeleteStep
  <2>2. CASE UNCHANGED state
    BY <2>1, <2>2, SameFence DEF Running
  <2>3. CASE state' = NoRow
    <3>1. UNCHANGED Running /\ Holders' = {}
      BY <2>1, <2>3 DEF Running, Holders, Current, NoRow
    <3> QED BY <3>1 DEF Fence!Forget, Fence!Next
  <2> QED BY <2>1, <2>2, <2>3
<1> QED
  BY <1>1, <1>2, <1>3, <1>4, <1>5, <1>6, <1>7, <1>8, StepCases DEF Fence!Next

\* The check of an asset, with its transactions, crashes and deletions,
\* implements the abstract fence.
THEOREM ChecksImplementFence == Spec => ImplementsFence
<1> DEFINE Inv == TypeInv /\ FenceInv
<1>1. Init => Fence!Init
  BY DEF Init, Fence!Init, Running, Holders, IdleWorker
<1>2. Init => Inv
  BY InitTypeInv, InitFenceInv
<1>3. Inv /\ [Next]_vars => Inv'
  BY NextTypeInv, NextFenceInv
<1>4. Inv /\ [Next]_vars => [Fence!Next]_(Fence!fenceVars)
  BY FenceStep
<1> QED BY <1>1, <1>2, <1>3, <1>4, PTL DEF Spec, ImplementsFence, Fence!Spec
=============================================================================
