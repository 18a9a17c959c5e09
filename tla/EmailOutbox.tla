----------------------------- MODULE EmailOutbox -----------------------------
(***************************************************************************)
(* The notification outbox of one status change: src/apps/monitoring/      *)
(* email.py and the two tasks that drain it.  The transition that caused   *)
(* the event has committed one pending AssetStatusEmail row per recipient. *)
(* The event's task, possibly duplicated by the broker or by the inline    *)
(* fallback, and overlapping runs of the recovery beat deliver the rows,   *)
(* one transaction and one row lock per delivery.                          *)
(*                                                                         *)
(* The mail server is external: it accepts or refuses a message, or the    *)
(* answer is lost after it accepted.                                       *)
(***************************************************************************)
EXTENDS Naturals, FiniteSets

CONSTANTS
  Recipients,  \* addresses, normalised
  Tasks,       \* deliveries of send_status_change_email to a worker
  Beats,       \* concurrent runs of retry_pending_status_emails
  MaxAttempts, \* MAX_DELIVERY_ATTEMPTS
  BatchLimit,  \* rows one recovery run takes
  MaxRetries,  \* max_retries of the task
  MaxCrashes,  \* bound: workers lost
  MaxEdits     \* bound: edits of the asset's notification list

ASSUME OutboxAssumption ==
  /\ Tasks \cap Beats = {}
  /\ MaxAttempts \in Nat \ {0}
  /\ BatchLimit \in Nat \ {0}
  /\ {MaxRetries, MaxCrashes, MaxEdits} \subseteq Nat

VARIABLES
  asset,      \* whether the asset row exists
  subscribed, \* its notification_emails
  row,        \* the AssetStatusEmail row of each recipient
  proc,       \* what each task or recovery run holds in memory
  retries,    \* retries each task has used
  accepted,   \* ghost: messages the mail server accepted
  excused,    \* ghost: deliveries whose acceptance the database never saw
  crashes,
  edits

vars == <<asset, subscribed, row, proc, retries, accepted, excused, crashes,
          edits>>

-----------------------------------------------------------------------------
Procs == Tasks \cup Beats

\* A missing row; a row keeps whether its last attempt is within the gap of
\* five minutes that the recovery run respects.
NoRow == [status |-> "none", attempts |-> 0, recent |-> FALSE]
PendingRow == [NoRow EXCEPT !.status = "pending"]

\* pc: "off" no message, "queued" the broker holds it, "ensure" rows are
\* being created, "deliver" between two deliveries, "sending" the transaction
\* of the delivery to "at" is open, "accepted" its message was accepted.
ProcState ==
  [pc: {"off", "queued", "ensure", "deliver", "sending", "accepted"},
   list: SUBSET Recipients, todo: SUBSET Recipients, at: SUBSET Recipients,
   failed: BOOLEAN]
Off == [pc |-> "off", list |-> {}, todo |-> {}, at |-> {}, failed |-> FALSE]
Queued == [Off EXCEPT !.pc = "queued"]

TypeOK ==
  /\ asset \in BOOLEAN
  /\ subscribed \in SUBSET Recipients
  /\ row \in [Recipients ->
       [status: {"none", "pending", "failed", "sent", "dead"},
        attempts: 0..MaxAttempts, recent: BOOLEAN]]
  /\ proc \in [Procs -> ProcState]
  /\ retries \in [Tasks -> 0..MaxRetries]
  /\ accepted \in [Recipients -> Nat]
  /\ excused \in [Recipients -> Nat]
  /\ crashes \in 0..MaxCrashes
  /\ edits \in 0..MaxEdits

\* The transition has just been committed with rows for the subscribers; the
\* publication may have been lost, or may have produced several messages.
Init ==
  /\ asset = TRUE
  /\ subscribed \in SUBSET Recipients \ {{}}
  /\ row = [r \in Recipients |-> IF r \in subscribed THEN PendingRow ELSE NoRow]
  /\ proc \in [Procs -> {Off, Queued}]
  /\ \A b \in Beats : proc[b] = Off
  /\ retries = [t \in Tasks |-> 0]
  /\ accepted = [r \in Recipients |-> 0]
  /\ excused = [r \in Recipients |-> 0]
  /\ crashes = 0
  /\ edits = 0

-----------------------------------------------------------------------------
(* send_status_change_email *)

\* The task reads the asset and its current recipients, and stops when there
\* is no asset or no recipient left.
TaskStart(t) ==
  /\ proc[t].pc = "queued"
  /\ proc' = [proc EXCEPT ![t] =
       IF asset /\ subscribed # {}
       THEN [Off EXCEPT !.pc = "ensure", !.list = subscribed,
                        !.todo = subscribed]
       ELSE Off]
  /\ UNCHANGED <<asset, subscribed, row, retries, accepted, excused, crashes,
                 edits>>

\* ensure_status_change_email_outbox: get_or_create of each recipient's row.
Ensure(t, r) ==
  /\ proc[t].pc = "ensure"
  /\ r \in proc[t].todo
  /\ row' = [row EXCEPT ![r] = IF @.status = "none" THEN PendingRow ELSE @]
  /\ LET left == proc[t].todo \ {r} IN
     proc' = [proc EXCEPT ![t].pc = IF left = {} THEN "deliver" ELSE @,
                          ![t].todo = IF left = {} THEN proc[t].list ELSE left]
  /\ UNCHANGED <<asset, subscribed, retries, accepted, excused, crashes, edits>>

\* All recipients were tried: a failure raises and Celery retries the task.
TaskEnd(t) ==
  /\ proc[t].pc = "deliver"
  /\ proc[t].todo = {}
  /\ IF proc[t].failed /\ retries[t] < MaxRetries
     THEN /\ proc' = [proc EXCEPT ![t] = Queued]
          /\ retries' = [retries EXCEPT ![t] = @ + 1]
     ELSE /\ proc' = [proc EXCEPT ![t] = Off]
          /\ UNCHANGED retries
  /\ UNCHANGED <<asset, subscribed, row, accepted, excused, crashes, edits>>

-----------------------------------------------------------------------------
(* retry_pending_status_emails *)

\* Mutant: a failed delivery is left to the task's own retries.
PendingOnly ==
  {r \in Recipients : row[r].status = "pending" /\ ~row[r].recent}

\* The rows the recovery query selects.  The transaction of a delivery hides
\* its 'sending' status, so no row is ever seen in it.
Retryable ==
  {r \in Recipients : row[r].status \in {"pending", "failed"} /\ ~row[r].recent}

\* A run takes the oldest BatchLimit of them; creation order is left open.
BeatStart(b) ==
  /\ proc[b].pc = "off"
  /\ Retryable # {}
  /\ \E batch \in SUBSET Retryable :
       /\ \/ batch = Retryable /\ Cardinality(batch) <= BatchLimit
          \/ Cardinality(batch) = BatchLimit
       /\ proc' = [proc EXCEPT ![b] = [Off EXCEPT !.pc = "deliver",
                                                  !.todo = batch]]
  /\ UNCHANGED <<asset, subscribed, row, retries, accepted, excused, crashes,
                 edits>>

BeatEnd(b) ==
  /\ proc[b].pc = "deliver"
  /\ proc[b].todo = {}
  /\ proc' = [proc EXCEPT ![b] = Off]
  /\ UNCHANGED <<asset, subscribed, row, retries, accepted, excused, crashes,
                 edits>>

-----------------------------------------------------------------------------
(* deliver_status_email: one transaction under the row's lock *)

\* Mutant: the row is read without select_for_update.
NeverLocked(r) == FALSE

Locked(r) == \E p \in Procs : proc[p].at = {r}

\* Mutant: a row that is sent already is delivered again.
DeliverableAgain(r) == row[r].attempts < MaxAttempts

\* Mutant: one attempt too many.
DeliverableOnceMore(r) ==
  row[r].status # "sent" /\ row[r].attempts <= MaxAttempts

Deliverable(r) == row[r].status # "sent" /\ row[r].attempts < MaxAttempts

\* The row is gone, already sent, or out of attempts: no message is sent.  A
\* missing row raises, which the caller counts as a failure.
Skip(p, r) ==
  /\ proc[p].pc = "deliver"
  /\ r \in proc[p].todo
  /\ ~Locked(r)
  /\ row[r].status = "none" \/ ~Deliverable(r)
  /\ row' = [row EXCEPT ![r].status =
       IF @ \notin {"none", "sent"} THEN "dead" ELSE @]
  /\ proc' = [proc EXCEPT ![p].todo = @ \ {r},
                          ![p].failed = @ \/ row[r].status = "none"]
  /\ UNCHANGED <<asset, subscribed, retries, accepted, excused, crashes, edits>>

Begin(p, r) ==
  /\ proc[p].pc = "deliver"
  /\ r \in proc[p].todo
  /\ ~Locked(r)
  /\ row[r].status # "none" /\ Deliverable(r)
  /\ proc' = [proc EXCEPT ![p].pc = "sending", ![p].todo = @ \ {r},
                          ![p].at = {r}]
  /\ UNCHANGED <<asset, subscribed, row, retries, accepted, excused, crashes,
                 edits>>

\* The row as the delivery transaction commits it.
Attempted(x, s) ==
  [status |-> s, attempts |-> x.attempts + 1, recent |-> TRUE]

\* The mail server refuses the message, or the connection fails.
Refuse(p, r) ==
  /\ proc[p].pc = "sending" /\ proc[p].at = {r}
  /\ row' = [row EXCEPT ![r] = Attempted(@, "failed")]
  /\ proc' = [proc EXCEPT ![p].pc = "deliver", ![p].at = {},
                          ![p].failed = TRUE]
  /\ UNCHANGED <<asset, subscribed, retries, accepted, excused, crashes, edits>>

\* The mail server accepts the message; nothing is committed yet.
Accept(p, r) ==
  /\ proc[p].pc = "sending" /\ proc[p].at = {r}
  /\ accepted' = [accepted EXCEPT ![r] = @ + 1]
  /\ proc' = [proc EXCEPT ![p].pc = "accepted"]
  /\ UNCHANGED <<asset, subscribed, row, retries, excused, crashes, edits>>

Commit(p, r) ==
  /\ proc[p].pc = "accepted" /\ proc[p].at = {r}
  /\ row' = [row EXCEPT ![r] = Attempted(@, "sent")]
  /\ proc' = [proc EXCEPT ![p].pc = "deliver", ![p].at = {}]
  /\ UNCHANGED <<asset, subscribed, retries, accepted, excused, crashes, edits>>

\* The answer of the mail server is lost, or the soft time limit interrupts
\* send(): the accepted message is recorded as failed.
AnswerLost(p, r) ==
  /\ proc[p].pc = "accepted" /\ proc[p].at = {r}
  /\ crashes < MaxCrashes
  /\ crashes' = crashes + 1
  /\ row' = [row EXCEPT ![r] = Attempted(@, "failed")]
  /\ excused' = [excused EXCEPT ![r] = @ + 1]
  /\ proc' = [proc EXCEPT ![p].pc = "deliver", ![p].at = {},
                          ![p].failed = TRUE]
  /\ UNCHANGED <<asset, subscribed, retries, accepted, edits>>

\* The worker dies: the open transaction rolls back, attempt included.  A
\* task is delivered again, unless the time limit acknowledged it; a recovery
\* run is simply over, the next beat starts another.
Crash(p) ==
  /\ proc[p].pc \notin {"off", "queued"}
  /\ crashes < MaxCrashes
  /\ crashes' = crashes + 1
  /\ \/ proc' = [proc EXCEPT ![p] = Off]
     \/ p \in Tasks /\ proc' = [proc EXCEPT ![p] = Queued]
  /\ excused' = [r \in Recipients |->
       IF proc[p].pc = "accepted" /\ proc[p].at = {r} THEN excused[r] + 1
       ELSE excused[r]]
  /\ UNCHANGED <<asset, subscribed, row, retries, accepted, edits>>

-----------------------------------------------------------------------------
(* The rest of the system *)

\* Five minutes pass since the row's last attempt.
GapElapses(r) ==
  /\ row[r].recent
  /\ row' = [row EXCEPT ![r].recent = FALSE]
  /\ UNCHANGED <<asset, subscribed, proc, retries, accepted, excused, crashes,
                 edits>>

\* update_email_list replaces the asset's recipients.
EditRecipients ==
  /\ asset
  /\ edits < MaxEdits
  /\ edits' = edits + 1
  /\ subscribed' \in SUBSET Recipients \ {subscribed}
  /\ UNCHANGED <<asset, row, proc, retries, accepted, excused, crashes>>

\* The rows are deleted, by prune_status_logs or by the deletion of the asset,
\* which goes on to delete the asset row; a DELETE waits for locked rows.
DeleteRows ==
  /\ asset
  /\ edits < MaxEdits
  /\ edits' = edits + 1
  /\ ~\E r \in Recipients : Locked(r)
  /\ row' = [r \in Recipients |-> NoRow]
  /\ excused' = [r \in Recipients |->
       IF row[r].status = "sent" THEN excused[r] + 1 ELSE excused[r]]
  /\ UNCHANGED <<asset, subscribed, proc, retries, accepted, crashes>>

DeleteAsset ==
  /\ asset
  /\ \A r \in Recipients : row[r].status = "none"
  /\ asset' = FALSE
  /\ UNCHANGED <<subscribed, row, proc, retries, accepted, excused, crashes,
                 edits>>

Deliver(p) ==
  \E r \in Recipients : Skip(p, r) \/ Begin(p, r) \/ Refuse(p, r)
                        \/ Accept(p, r) \/ Commit(p, r)
TaskStep(t) ==
  TaskStart(t) \/ TaskEnd(t) \/ Deliver(t) \/ \E r \in Recipients : Ensure(t, r)
BeatStep(b) == BeatStart(b) \/ BeatEnd(b) \/ Deliver(b)

Next ==
  \/ \E t \in Tasks : TaskStep(t)
  \/ \E b \in Beats : BeatStep(b)
  \/ \E p \in Procs : Crash(p) \/ \E r \in Recipients : AnswerLost(p, r)
  \/ \E r \in Recipients : GapElapses(r)
  \/ EditRecipients \/ DeleteRows \/ DeleteAsset

Spec == Init /\ [][Next]_vars

\* The beat runs, a worker that does not crash finishes its task, time passes.
Fairness ==
  /\ \A t \in Tasks : WF_vars(TaskStep(t))
  /\ \A b \in Beats : WF_vars(BeatStep(b))
  /\ \A r \in Recipients : WF_vars(GapElapses(r))
FairSpec == Spec /\ Fairness

-----------------------------------------------------------------------------
(* Properties *)

\* Concurrent tasks and recovery runs alone never send an alert twice: every
\* extra message is paid for by an acceptance the database never saw or by a
\* deletion of the row that recorded it.
DuplicatesNeedAFailure == \A r \in Recipients : accepted[r] <= 1 + excused[r]

\* A row says 'sent' only if the mail server accepted a message, and says
\* 'dead' only when all attempts were used up.
RowsTellTheTruth ==
  \A r \in Recipients :
    /\ row[r].status = "sent" => accepted[r] > 0
    /\ row[r].status = "dead" => row[r].attempts = MaxAttempts
    /\ row[r].status = "pending" => row[r].attempts = 0

\* A row that is sent stays sent until it is deleted, and a dead row is never
\* revived by a task that is still retrying.
OutcomesAreFinal ==
  [][\A r \in Recipients :
       row[r].status \in {"sent", "dead"} =>
         row'[r].status \in {row[r].status, "none"}]_vars

\* Every alert is settled although its publication may be lost and workers
\* may die: it is accepted, given up after all attempts, or deleted.
EveryAlertSettles ==
  \A r \in Recipients :
    (row[r].status \in {"pending", "failed"})
      ~> (row[r].status \in {"sent", "dead", "none"})
=============================================================================
