-------------------------- MODULE EmailOutboxProofs --------------------------
(***************************************************************************)
(* Proofs about EmailOutbox, for any number of recipients, tasks, recovery *)
(* runs, attempts, crashes and edits.                                      *)
(*                                                                         *)
(* That no message is sent twice without a failure is not inductive: it    *)
(* needs to know who holds which row (Locks), that a locked row still      *)
(* wants an attempt (Open), and where every accepted message is accounted  *)
(* for (Ledger).                                                           *)
(***************************************************************************)
EXTENDS EmailOutbox, TLAPS

InTransaction == {"sending", "accepted"}

\* A process holds a row's lock exactly while its transaction is open, and no
\* two hold the same one.
Locks ==
  \A p \in Procs :
    /\ proc[p].pc \in InTransaction =>
         \E r \in Recipients : proc[p].at = {r}
    /\ proc[p].pc \notin InTransaction => proc[p].at = {}
    /\ \A q \in Procs, r \in Recipients :
         proc[p].at = {r} /\ proc[q].at = {r} => p = q

\* A locked row is still to be delivered.
Open ==
  \A p \in Procs, r \in Recipients : proc[p].at = {r} =>
    /\ row[r].status \in {"pending", "failed"}
    /\ row[r].attempts < MaxAttempts

\* The message to r was accepted in a transaction that is still open.
Uncommitted(r) ==
  \E p \in Procs : proc[p].pc = "accepted" /\ proc[p].at = {r}

\* An accepted message is excused, told by the row, or not yet committed.
Ledger ==
  \A r \in Recipients :
    /\ accepted[r] <= 1 + excused[r]
    /\ accepted[r] > excused[r] => row[r].status = "sent" \/ Uncommitted(r)
    /\ Uncommitted(r) => accepted[r] > 0

IInv == TypeOK /\ Locks /\ Open /\ RowsTellTheTruth /\ Ledger

-----------------------------------------------------------------------------
(* The steps, by what they do to rows and transactions *)

\* A process that holds no lock goes on without one.
Unlocked(p) ==
  \E s \in ProcState :
    /\ proc[p].pc \notin InTransaction
    /\ s.pc \notin InTransaction /\ s.at = {}
    /\ proc' = [proc EXCEPT ![p] = s]

\* A process ends its transaction on r.
Released(p, r) ==
  \E s \in ProcState :
    /\ proc[p].at = {r}
    /\ s.pc \notin InTransaction /\ s.at = {}
    /\ proc' = [proc EXCEPT ![p] = s]

ledger == <<accepted, excused>>

LEMMA OffType ==
  /\ Off \in ProcState /\ Queued \in ProcState
  /\ Off.pc = "off" /\ Off.at = {} /\ Queued.pc = "queued" /\ Queued.at = {}
BY DEF Off, Queued, ProcState

LEMMA TaskStartStep ==
  ASSUME TypeOK, NEW t \in Tasks, TaskStart(t)
  PROVE  Unlocked(t)
<1> DEFINE ensuring == [Off EXCEPT !.pc = "ensure", !.list = subscribed,
                                   !.todo = subscribed]
<1>1. ensuring \in ProcState /\ ensuring.pc = "ensure" /\ ensuring.at = {}
  BY DEF TypeOK, Off, ProcState
<1>2. proc' = [proc EXCEPT ![t] = ensuring] \/ proc' = [proc EXCEPT ![t] = Off]
  BY DEF TaskStart
<1> HIDE DEF ensuring
<1> QED BY <1>1, <1>2, OffType DEF TaskStart, Unlocked, InTransaction

LEMMA TaskEndStep ==
  ASSUME TypeOK, NEW t \in Tasks, TaskEnd(t)
  PROVE  Unlocked(t)
<1>1. proc' = [proc EXCEPT ![t] = Queued] \/ proc' = [proc EXCEPT ![t] = Off]
  BY DEF TaskEnd
<1> QED BY <1>1, OffType DEF TaskEnd, Unlocked, InTransaction

LEMMA EnsureStep ==
  ASSUME TypeOK, Locks, NEW t \in Tasks, NEW r \in Recipients, Ensure(t, r)
  PROVE  Unlocked(t)
<1> DEFINE left == proc[t].todo \ {r}
           s == [proc[t] EXCEPT
                   !.pc = IF left = {} THEN "deliver" ELSE @,
                   !.todo = IF left = {} THEN proc[t].list ELSE left]
<1>1. proc[t] \in ProcState /\ proc[t].pc = "ensure" /\ proc[t].at = {}
  BY DEF TypeOK, Locks, Ensure, Procs, InTransaction
<1>2. proc' = [proc EXCEPT ![t] = s]
  BY DEF Ensure
<1>3. s \in ProcState /\ s.pc \in {"ensure", "deliver"} /\ s.at = {}
  BY <1>1 DEF ProcState
<1> HIDE DEF s
<1> QED BY <1>1, <1>2, <1>3 DEF Unlocked, InTransaction

LEMMA BeatStartStep ==
  ASSUME TypeOK, NEW b \in Beats, BeatStart(b)
  PROVE  Unlocked(b)
<1>1. PICK batch \in SUBSET Retryable :
        proc' = [proc EXCEPT ![b] = [Off EXCEPT !.pc = "deliver",
                                                !.todo = batch]]
  BY DEF BeatStart
<1> DEFINE s == [Off EXCEPT !.pc = "deliver", !.todo = batch]
<1>2. s \in ProcState /\ s.pc = "deliver" /\ s.at = {}
  BY DEF Off, ProcState, Retryable
<1> HIDE DEF s
<1>3. proc' = [proc EXCEPT ![b] = s]
  BY <1>1 DEF s
<1> QED BY <1>2, <1>3 DEF BeatStart, Unlocked, InTransaction

LEMMA BeatEndStep ==
  ASSUME TypeOK, NEW b \in Beats, BeatEnd(b)
  PROVE  Unlocked(b)
BY OffType DEF BeatEnd, Unlocked, InTransaction

LEMMA SkipStep ==
  ASSUME TypeOK, Locks, NEW p \in Procs, NEW r \in Recipients, Skip(p, r)
  PROVE  Unlocked(p)
<1> DEFINE s == [proc[p] EXCEPT !.todo = @ \ {r},
                                !.failed = @ \/ row[r].status = "none"]
<1>1. proc[p] \in ProcState /\ proc[p].pc = "deliver" /\ proc[p].at = {}
  BY DEF TypeOK, Locks, Skip, InTransaction
<1>2. proc' = [proc EXCEPT ![p] = s]
  BY DEF Skip
<1>3. s \in ProcState /\ s.pc = "deliver" /\ s.at = {}
  BY <1>1 DEF ProcState
<1> HIDE DEF s
<1> QED BY <1>1, <1>2, <1>3 DEF Unlocked, InTransaction

-----------------------------------------------------------------------------
(* What such a step does to the locks *)

LEMMA UnlockedLocks ==
  ASSUME TypeOK, Locks, NEW p \in Procs, Unlocked(p)
  PROVE  /\ proc' \in [Procs -> ProcState]
         /\ Locks'
         /\ \A q \in Procs : proc'[q].at = proc[q].at
         /\ \A r \in Recipients : Uncommitted(r)' <=> Uncommitted(r)
<1>1. PICK s \in ProcState :
        /\ proc[p].pc \notin InTransaction
        /\ s.pc \notin InTransaction /\ s.at = {}
        /\ proc' = [proc EXCEPT ![p] = s]
  BY DEF Unlocked
<1>2. proc \in [Procs -> ProcState]
  BY DEF TypeOK
<1>3. proc'[p] = s /\ \A q \in Procs \ {p} : proc'[q] = proc[q]
  BY <1>1, <1>2
<1>4. \A q \in Procs : proc'[q].at = proc[q].at
  BY <1>1, <1>3 DEF Locks
<1>5. Locks'
  BY <1>1, <1>3, <1>4 DEF Locks
<1>6. \A r \in Recipients : Uncommitted(r)' <=> Uncommitted(r)
  BY <1>1, <1>3, <1>4 DEF Uncommitted, InTransaction
<1> QED BY <1>1, <1>2, <1>4, <1>5, <1>6

LEMMA ReleasedLocks ==
  ASSUME TypeOK, Locks, NEW p \in Procs, NEW r \in Recipients, Released(p, r)
  PROVE  /\ proc' \in [Procs -> ProcState]
         /\ Locks'
         /\ \A q \in Procs, x \in Recipients :
              proc'[q].at = {x} <=> proc[q].at = {x} /\ x # r
         /\ ~Uncommitted(r)'
         /\ \A x \in Recipients \ {r} : Uncommitted(x)' <=> Uncommitted(x)
<1>1. PICK s \in ProcState :
        /\ proc[p].at = {r}
        /\ s.pc \notin InTransaction /\ s.at = {}
        /\ proc' = [proc EXCEPT ![p] = s]
  BY DEF Released
<1>2. proc \in [Procs -> ProcState]
  BY DEF TypeOK
<1>3. proc'[p] = s /\ \A q \in Procs \ {p} : proc'[q] = proc[q]
  BY <1>1, <1>2
<1>4. \A q \in Procs, x \in Recipients :
        proc'[q].at = {x} <=> proc[q].at = {x} /\ x # r
  BY <1>1, <1>3 DEF Locks
<1>5. Locks'
  BY <1>1, <1>3, <1>4 DEF Locks
<1>6. ~Uncommitted(r)'
  BY <1>4 DEF Uncommitted
<1>7. ASSUME NEW x \in Recipients \ {r}
      PROVE  Uncommitted(x)' <=> Uncommitted(x)
  <2>1. proc[p].at # {x}
    BY <1>1
  <2> QED BY <2>1, <1>1, <1>3, <1>4 DEF Uncommitted
<1> QED BY <1>1, <1>2, <1>4, <1>5, <1>6, <1>7

-----------------------------------------------------------------------------
(* Each kind of step preserves the invariant *)

\* Rows and messages stay as they are.
LEMMA UnlockedOnly ==
  ASSUME IInv, NEW p \in Procs, Unlocked(p), UNCHANGED <<row, ledger>>
  PROVE  Locks' /\ Open' /\ RowsTellTheTruth' /\ Ledger'
<1>1. /\ Locks'
      /\ \A q \in Procs : proc'[q].at = proc[q].at
      /\ \A r \in Recipients : Uncommitted(r)' <=> Uncommitted(r)
  BY UnlockedLocks DEF IInv
<1>2. Open'
  BY <1>1 DEF IInv, Open
<1>3. RowsTellTheTruth'
  BY DEF IInv, RowsTellTheTruth, ledger
<1>4. Ledger'
  BY <1>1 DEF IInv, Ledger, ledger
<1> QED BY <1>1, <1>2, <1>3, <1>4

\* Neither a process nor a message changes, and rows only age.
LEMMA RowsAge ==
  ASSUME IInv, UNCHANGED <<proc, ledger>>,
         \A r \in Recipients : /\ row'[r].status = row[r].status
                               /\ row'[r].attempts = row[r].attempts
  PROVE  Locks' /\ Open' /\ RowsTellTheTruth' /\ Ledger'
<1>1. Locks' /\ Open'
  BY DEF IInv, Locks, Open
<1>2. RowsTellTheTruth'
  BY DEF IInv, RowsTellTheTruth, ledger
<1>3. \A r \in Recipients : Uncommitted(r)' <=> Uncommitted(r)
  BY DEF Uncommitted
<1>4. Ledger'
  BY <1>3 DEF IInv, Ledger, ledger
<1> QED BY <1>1, <1>2, <1>4

LEMMA PendingRowType ==
  /\ PendingRow.status = "pending" /\ PendingRow.attempts = 0
  /\ PendingRow.recent = FALSE
  /\ PendingRow \in [status: {"none", "pending", "failed", "sent", "dead"},
                     attempts: 0..MaxAttempts, recent: BOOLEAN]
<1>1. NoRow \in [status: {"none"}, attempts: {0}, recent: {FALSE}]
  BY DEF NoRow
<1>2. PendingRow \in [status: {"pending"}, attempts: {0}, recent: {FALSE}]
  BY <1>1 DEF PendingRow
<1>3. 0 \in 0..MaxAttempts
  BY OutboxAssumption
<1> QED BY <1>2, <1>3

LEMMA EnsureInv ==
  ASSUME IInv, NEW t \in Tasks, NEW r \in Recipients, Ensure(t, r)
  PROVE  IInv'
<1>1. Unlocked(t) /\ t \in Procs
  BY EnsureStep DEF IInv, Procs
<1>2. /\ proc' \in [Procs -> ProcState]
      /\ Locks'
      /\ \A q \in Procs : proc'[q].at = proc[q].at
      /\ \A x \in Recipients : Uncommitted(x)' <=> Uncommitted(x)
  BY <1>1, UnlockedLocks DEF IInv
<1>3. \/ UNCHANGED row
      \/ row[r].status = "none" /\ row' = [row EXCEPT ![r] = PendingRow]
  BY DEF Ensure, IInv, TypeOK
<1>4. /\ PendingRow.status = "pending" /\ PendingRow.attempts = 0
      /\ PendingRow.recent = FALSE
      /\ PendingRow \in [status: {"none", "pending", "failed", "sent", "dead"},
                         attempts: 0..MaxAttempts, recent: BOOLEAN]
  BY PendingRowType
<1>5. TypeOK'
  BY <1>2, <1>3, <1>4 DEF IInv, TypeOK, Ensure
<1>6. \A x \in Recipients : row'[x] = row[x] \/ (x = r /\ row[r].status = "none"
                                                 /\ row'[r] = PendingRow)
  BY <1>3 DEF IInv, TypeOK
<1>7. Open'
  BY <1>2, <1>4, <1>6 DEF IInv, Open
<1>8. RowsTellTheTruth'
  BY <1>4, <1>6 DEF IInv, RowsTellTheTruth, Ensure
<1>9. Ledger'
  BY <1>2, <1>4, <1>6 DEF IInv, Ledger, Ensure
<1> QED BY <1>2, <1>5, <1>7, <1>8, <1>9 DEF IInv

LEMMA SkipInv ==
  ASSUME IInv, NEW p \in Procs, NEW r \in Recipients, Skip(p, r)
  PROVE  IInv'
<1>1. /\ proc' \in [Procs -> ProcState]
      /\ Locks'
      /\ \A q \in Procs : proc'[q].at = proc[q].at
      /\ \A x \in Recipients : Uncommitted(x)' <=> Uncommitted(x)
  BY SkipStep, UnlockedLocks DEF IInv
<1> DEFINE new == IF row[r].status \notin {"none", "sent"} THEN "dead"
                  ELSE row[r].status
<1>2. row' = [row EXCEPT ![r].status = new]
  BY DEF Skip
<1>3. new \in {"none", "sent", "dead"} /\ (new # "dead" => new = row[r].status)
  OBVIOUS
<1>4. new = "dead" => row[r].attempts = MaxAttempts
  BY OutboxAssumption DEF Skip, Deliverable, IInv, TypeOK, RowsTellTheTruth
<1> HIDE DEF new
<1>5. /\ \A x \in Recipients \ {r} : row'[x] = row[x]
      /\ row'[r].status = new /\ row'[r].attempts = row[r].attempts
  BY <1>2 DEF IInv, TypeOK
<1>6. row' \in [Recipients ->
       [status: {"none", "pending", "failed", "sent", "dead"},
        attempts: 0..MaxAttempts, recent: BOOLEAN]]
  BY <1>2, <1>3 DEF IInv, TypeOK
<1>7. TypeOK'
  BY <1>1, <1>6 DEF IInv, TypeOK, Skip
<1>8. Open'
  BY <1>1, <1>5 DEF IInv, Open, Skip, Locked
<1>9. RowsTellTheTruth'
  BY <1>3, <1>4, <1>5 DEF IInv, RowsTellTheTruth, Skip
<1>10. Ledger'
  BY <1>1, <1>3, <1>4, <1>5 DEF IInv, Ledger, Skip
<1> QED BY <1>1, <1>7, <1>8, <1>9, <1>10 DEF IInv

\* A process takes a row that wants an attempt and that nobody holds.
LEMMA BeginInv ==
  ASSUME IInv, NEW p \in Procs, NEW r \in Recipients, Begin(p, r)
  PROVE  IInv'
<1> DEFINE s == [proc[p] EXCEPT !.pc = "sending", !.todo = @ \ {r}, !.at = {r}]
<1>1. proc \in [Procs -> ProcState] /\ proc[p].at = {}
  BY DEF IInv, TypeOK, Locks, Begin, InTransaction
<1>2. proc' = [proc EXCEPT ![p] = s]
  BY DEF Begin
<1>3. s \in ProcState /\ s.pc = "sending" /\ s.at = {r}
  BY <1>1 DEF ProcState
<1> HIDE DEF s
<1>4. proc'[p] = s /\ \A q \in Procs \ {p} : proc'[q] = proc[q]
  BY <1>1, <1>2
<1>5. \A q \in Procs : proc[q].at # {r}
  BY DEF Begin, Locked
<1>6. TypeOK'
  BY <1>1, <1>2, <1>3 DEF IInv, TypeOK, Begin
<1>7. Locks'
  BY <1>3, <1>4, <1>5 DEF IInv, Locks, InTransaction
<1>8. row[r].status \in {"pending", "failed"} /\ row[r].attempts < MaxAttempts
  BY DEF IInv, TypeOK, RowsTellTheTruth, Begin, Deliverable
<1>9. Open'
  <2>1. \A q \in Procs, x \in Recipients :
          proc'[q].at = {x} => proc[q].at = {x} \/ x = r
    BY <1>3, <1>4
  <2> QED BY <2>1, <1>8 DEF IInv, Open, Begin
<1>10. RowsTellTheTruth'
  BY DEF IInv, RowsTellTheTruth, Begin
<1>11. \A x \in Recipients : Uncommitted(x)' <=> Uncommitted(x)
  BY <1>1, <1>3, <1>4 DEF Uncommitted, Begin
<1>12. Ledger'
  BY <1>11 DEF IInv, Ledger, Begin
<1> QED BY <1>6, <1>7, <1>9, <1>10, <1>12 DEF IInv

LEMMA AcceptInv ==
  ASSUME IInv, NEW p \in Procs, NEW r \in Recipients, Accept(p, r)
  PROVE  IInv'
<1> DEFINE s == [proc[p] EXCEPT !.pc = "accepted"]
<1>1. proc \in [Procs -> ProcState] /\ proc[p].pc = "sending"
      /\ proc[p].at = {r}
  BY DEF IInv, TypeOK, Accept
<1>2. proc' = [proc EXCEPT ![p] = s]
  BY DEF Accept
<1>3. s \in ProcState /\ s.pc = "accepted" /\ s.at = {r}
  BY <1>1 DEF ProcState
<1> HIDE DEF s
<1>4. proc'[p] = s /\ \A q \in Procs \ {p} : proc'[q] = proc[q]
  BY <1>1, <1>2
<1>5. accepted \in [Recipients -> Nat] /\ excused \in [Recipients -> Nat]
  BY DEF IInv, TypeOK
<1>6. /\ accepted' = [accepted EXCEPT ![r] = @ + 1]
      /\ UNCHANGED <<row, excused>>
  BY DEF Accept
<1>7. TypeOK'
  BY <1>1, <1>2, <1>3, <1>5, <1>6 DEF IInv, TypeOK, Accept
<1>8. Locks'
  BY <1>1, <1>3, <1>4 DEF IInv, Locks, InTransaction
<1>9. Open'
  BY <1>1, <1>3, <1>4, <1>6 DEF IInv, Open
<1>10. RowsTellTheTruth'
  BY <1>5, <1>6 DEF IInv, RowsTellTheTruth
<1>11. ~Uncommitted(r) /\ row[r].status # "sent"
  BY <1>1 DEF IInv, Locks, Open, Uncommitted
<1>12. /\ Uncommitted(r)'
       /\ \A x \in Recipients \ {r} : Uncommitted(x)' <=> Uncommitted(x)
  BY <1>1, <1>3, <1>4 DEF Uncommitted
<1>13. accepted[r] <= excused[r]
  BY <1>5, <1>11 DEF IInv, Ledger
<1>14. Ledger'
  BY <1>5, <1>6, <1>12, <1>13 DEF IInv, Ledger
<1> QED BY <1>7, <1>8, <1>9, <1>10, <1>14 DEF IInv

\* The row of an attempt.
LEMMA AttemptedRow ==
  ASSUME IInv, NEW p \in Procs, NEW r \in Recipients, proc[p].at = {r},
         NEW s \in {"failed", "sent"},
         row' = [row EXCEPT ![r] = Attempted(@, s)]
  PROVE  /\ row' \in [Recipients ->
              [status: {"none", "pending", "failed", "sent", "dead"},
               attempts: 0..MaxAttempts, recent: BOOLEAN]]
         /\ row'[r].status = s
         /\ \A x \in Recipients \ {r} : row'[x] = row[x]
<1> DEFINE n == row[r].attempts + 1
<1>1. n \in 0..MaxAttempts
  BY OutboxAssumption DEF IInv, TypeOK, Open
<1>2. Attempted(row[r], s) = [status |-> s, attempts |-> n, recent |-> TRUE]
  BY DEF Attempted
<1> HIDE DEF n
<1> QED BY <1>1, <1>2 DEF IInv, TypeOK

\* The state of a process that ends its transaction.
LEMMA EndType ==
  ASSUME TypeOK, NEW p \in Procs, NEW b \in BOOLEAN, NEW r, proc[p].at = {r},
         proc' = [proc EXCEPT ![p].pc = "deliver", ![p].at = {},
                              ![p].failed = b]
  PROVE  Released(p, r)
<1> DEFINE s == [proc[p] EXCEPT !.pc = "deliver", !.at = {}, !.failed = b]
<1>1. s \in ProcState /\ s.pc = "deliver" /\ s.at = {}
  BY DEF TypeOK, ProcState
<1>2. proc' = [proc EXCEPT ![p] = s]
  OBVIOUS
<1> HIDE DEF s
<1> QED BY <1>1, <1>2 DEF Released, InTransaction

\* A transaction commits: the message was refused, or it was accepted and the
\* row says so, or the acceptance is lost.
LEMMA AttemptInv ==
  ASSUME IInv, NEW p \in Procs, NEW r \in Recipients, Released(p, r),
         NEW s \in {"failed", "sent"},
         row' = [row EXCEPT ![r] = Attempted(@, s)],
         accepted' = accepted,
         \/ proc[p].pc = "sending" /\ s = "failed" /\ excused' = excused
         \/ proc[p].pc = "accepted" /\ s = "sent" /\ excused' = excused
         \/ /\ proc[p].pc = "accepted" /\ s = "failed"
            /\ excused' = [excused EXCEPT ![r] = @ + 1]
  PROVE  Locks' /\ Open' /\ RowsTellTheTruth' /\ Ledger'
<1>1. /\ Locks'
      /\ \A q \in Procs, x \in Recipients :
           proc'[q].at = {x} <=> proc[q].at = {x} /\ x # r
      /\ ~Uncommitted(r)'
      /\ \A x \in Recipients \ {r} : Uncommitted(x)' <=> Uncommitted(x)
  BY ReleasedLocks DEF IInv
<1>2. proc[p].at = {r}
  BY DEF Released
<1>3. /\ row'[r].status = s
      /\ \A x \in Recipients \ {r} : row'[x] = row[x]
  BY <1>2, AttemptedRow
<1>4. accepted \in [Recipients -> Nat] /\ excused \in [Recipients -> Nat]
  BY DEF IInv, TypeOK
<1>5. row[r].status # "sent"
  BY <1>2 DEF IInv, Open
<1>6. proc[p].pc = "accepted" <=> Uncommitted(r)
  BY <1>2 DEF IInv, Locks, Uncommitted
<1>7. Open'
  BY <1>1, <1>3 DEF IInv, Open
<1>8. RowsTellTheTruth'
  BY <1>3, <1>4, <1>6 DEF IInv, RowsTellTheTruth, Ledger
<1>9. Ledger'
  BY <1>1, <1>3, <1>4, <1>5, <1>6 DEF IInv, Ledger
<1> QED BY <1>1, <1>7, <1>8, <1>9

LEMMA RefuseInv ==
  ASSUME IInv, NEW p \in Procs, NEW r \in Recipients, Refuse(p, r)
  PROVE  IInv'
<1>1. Released(p, r)
  BY EndType DEF IInv, Refuse
<1>2. Locks' /\ Open' /\ RowsTellTheTruth' /\ Ledger'
  BY <1>1, AttemptInv DEF Refuse
<1>3. TypeOK'
  BY <1>1, ReleasedLocks, AttemptedRow DEF IInv, TypeOK, Refuse
<1> QED BY <1>2, <1>3 DEF IInv

LEMMA CommitInv ==
  ASSUME IInv, NEW p \in Procs, NEW r \in Recipients, Commit(p, r)
  PROVE  IInv'
<1>1. Released(p, r)
  <2>1. proc[p] \in ProcState
    BY DEF IInv, TypeOK
  <2>2. proc' = [proc EXCEPT ![p].pc = "deliver", ![p].at = {},
                             ![p].failed = proc[p].failed]
    BY <2>1 DEF Commit, ProcState
  <2> QED BY <2>1, <2>2, EndType DEF IInv, Commit, ProcState
<1>2. Locks' /\ Open' /\ RowsTellTheTruth' /\ Ledger'
  BY <1>1, AttemptInv DEF Commit
<1>3. TypeOK'
  BY <1>1, ReleasedLocks, AttemptedRow DEF IInv, TypeOK, Commit
<1> QED BY <1>2, <1>3 DEF IInv

LEMMA AnswerLostInv ==
  ASSUME IInv, NEW p \in Procs, NEW r \in Recipients, AnswerLost(p, r)
  PROVE  IInv'
<1>1. Released(p, r)
  BY EndType DEF IInv, AnswerLost
<1>2. Locks' /\ Open' /\ RowsTellTheTruth' /\ Ledger'
  BY <1>1, AttemptInv DEF AnswerLost
<1>3. crashes + 1 \in 0..MaxCrashes /\ crashes' = crashes + 1
  BY OutboxAssumption DEF IInv, TypeOK, AnswerLost
<1>4. excused' \in [Recipients -> Nat]
  BY DEF IInv, TypeOK, AnswerLost
<1>5. TypeOK'
  BY <1>1, <1>3, <1>4, ReleasedLocks, AttemptedRow
    DEF IInv, TypeOK, AnswerLost
<1> QED BY <1>2, <1>5 DEF IInv

\* A worker dies; with an accepted message, that message is excused.
LEMMA CrashInv ==
  ASSUME IInv, NEW p \in Procs, Crash(p)
  PROVE  IInv'
<1>1. PICK s \in ProcState : /\ s.pc \notin InTransaction /\ s.at = {}
                             /\ proc' = [proc EXCEPT ![p] = s]
  BY OffType DEF Crash, InTransaction
<1>2. /\ UNCHANGED <<asset, subscribed, row, retries, accepted, edits>>
      /\ crashes' = crashes + 1 /\ crashes < MaxCrashes
      /\ excused' = [r \in Recipients |->
           IF proc[p].pc = "accepted" /\ proc[p].at = {r} THEN excused[r] + 1
           ELSE excused[r]]
  BY DEF Crash
<1>3. crashes + 1 \in 0..MaxCrashes /\ excused' \in [Recipients -> Nat]
  BY <1>2, OutboxAssumption DEF IInv, TypeOK
<1>4. CASE proc[p].pc \notin InTransaction
  <2>1. Unlocked(p)
    BY <1>1, <1>4 DEF Unlocked
  <2>2. excused' = excused
    BY <1>2, <1>4 DEF InTransaction, IInv, TypeOK
  <2>3. Locks' /\ Open' /\ RowsTellTheTruth' /\ Ledger'
    BY <1>2, <2>1, <2>2, UnlockedOnly DEF ledger
  <2>4. TypeOK'
    BY <1>2, <1>3, <2>1, UnlockedLocks DEF IInv, TypeOK
  <2> QED BY <2>3, <2>4 DEF IInv
<1>5. CASE proc[p].pc \in InTransaction
  <2>1. PICK r \in Recipients : proc[p].at = {r}
    BY <1>5 DEF IInv, Locks
  <2>2. Released(p, r)
    BY <1>1, <2>1 DEF Released
  <2>3. /\ proc' \in [Procs -> ProcState]
        /\ Locks'
        /\ \A q \in Procs, x \in Recipients :
             proc'[q].at = {x} <=> proc[q].at = {x} /\ x # r
        /\ ~Uncommitted(r)'
        /\ \A x \in Recipients \ {r} : Uncommitted(x)' <=> Uncommitted(x)
    BY <2>2, ReleasedLocks DEF IInv
  <2>4. /\ \A x \in Recipients \ {r} : excused'[x] = excused[x]
        /\ excused'[r] = IF proc[p].pc = "accepted" THEN excused[r] + 1
                         ELSE excused[r]
    BY <1>2, <2>1
  <2>5. proc[p].pc = "accepted" <=> Uncommitted(r)
    BY <2>1 DEF IInv, Locks, Uncommitted
  <2>6. accepted \in [Recipients -> Nat] /\ excused \in [Recipients -> Nat]
    BY DEF IInv, TypeOK
  <2>7. TypeOK'
    BY <1>2, <1>3, <2>3 DEF IInv, TypeOK
  <2>8. Open'
    BY <1>2, <2>3 DEF IInv, Open
  <2>9. RowsTellTheTruth'
    BY <1>2 DEF IInv, RowsTellTheTruth
  <2>10. Ledger'
    BY <1>2, <2>3, <2>4, <2>5, <2>6 DEF IInv, Ledger
  <2> QED BY <2>3, <2>7, <2>8, <2>9, <2>10 DEF IInv
<1> QED BY <1>4, <1>5

\* Rows are deleted while nobody delivers; a sent one is excused.
LEMMA DeleteRowsInv ==
  ASSUME IInv, DeleteRows
  PROVE  IInv'
<1>1. \A p \in Procs, r \in Recipients : proc[p].at # {r}
  BY DEF DeleteRows, Locked
<1>2. \A r \in Recipients : ~Uncommitted(r) /\ ~Uncommitted(r)'
  BY <1>1 DEF Uncommitted, DeleteRows
<1>3. NoRow.status = "none" /\ NoRow.attempts = 0 /\ NoRow.recent = FALSE
      /\ NoRow \in [status: {"none"}, attempts: {0}, recent: {FALSE}]
  BY DEF NoRow
<1>4. /\ row' = [r \in Recipients |-> NoRow]
      /\ excused' = [r \in Recipients |->
           IF row[r].status = "sent" THEN excused[r] + 1 ELSE excused[r]]
      /\ edits < MaxEdits /\ edits' = edits + 1
      /\ UNCHANGED <<asset, subscribed, proc, retries, accepted, crashes>>
  BY DEF DeleteRows
<1>5. accepted \in [Recipients -> Nat] /\ excused \in [Recipients -> Nat]
  BY DEF IInv, TypeOK
<1>6. TypeOK'
  <2>1. row' \in [Recipients ->
         [status: {"none", "pending", "failed", "sent", "dead"},
          attempts: 0..MaxAttempts, recent: BOOLEAN]]
    <3>1. 0 \in 0..MaxAttempts
      BY OutboxAssumption
    <3>2. NoRow \in [status: {"none", "pending", "failed", "sent", "dead"},
                    attempts: 0..MaxAttempts, recent: BOOLEAN]
      BY <1>3, <3>1
    <3> QED BY <1>4, <3>2
  <2>2. edits' \in 0..MaxEdits /\ excused' \in [Recipients -> Nat]
    BY <1>4, <1>5, OutboxAssumption DEF IInv, TypeOK
  <2> QED BY <1>4, <2>1, <2>2 DEF IInv, TypeOK
<1>7. Locks' /\ Open'
  BY <1>1, <1>4 DEF IInv, Locks, Open
<1>8. RowsTellTheTruth'
  BY <1>3, <1>4 DEF RowsTellTheTruth
<1>9. Ledger'
  BY <1>2, <1>4, <1>5 DEF IInv, Ledger
<1> QED BY <1>6, <1>7, <1>8, <1>9 DEF IInv

-----------------------------------------------------------------------------
(* The theorems *)

LEMMA InitInv == Init => IInv
<1> SUFFICES ASSUME Init PROVE IInv OBVIOUS
<1>1. /\ row \in [Recipients -> {PendingRow, NoRow}]
      /\ accepted = [r \in Recipients |-> 0]
      /\ excused = [r \in Recipients |-> 0]
      /\ \A p \in Procs : proc[p] \in {Off, Queued}
  BY DEF Init
<1>2. NoRow.status = "none"
      /\ NoRow \in [status: {"none"}, attempts: {0}, recent: {FALSE}]
  BY DEF NoRow
<1>3. row \in [Recipients ->
        [status: {"none", "pending", "failed", "sent", "dead"},
         attempts: 0..MaxAttempts, recent: BOOLEAN]]
  <2> DEFINE Rows == [status: {"none", "pending", "failed", "sent", "dead"},
                      attempts: 0..MaxAttempts, recent: BOOLEAN]
  <2>1. 0 \in 0..MaxAttempts
    BY OutboxAssumption
  <2>2. NoRow \in Rows
    BY <1>2, <2>1
  <2>3. PendingRow \in Rows
    BY PendingRowType
  <2> HIDE DEF Rows
  <2>4. row \in [Recipients -> Rows]
    BY <1>1, <2>2, <2>3
  <2> QED BY <2>4 DEF Rows
<1>4. proc \in [Procs -> ProcState]
  BY OffType DEF Init
<1>5. TypeOK
  BY <1>1, <1>3, <1>4, OutboxAssumption DEF Init, TypeOK
<1>6. Locks /\ Open
  BY <1>1, OffType DEF Locks, Open, InTransaction
<1>7. RowsTellTheTruth
  BY <1>1, <1>2, PendingRowType DEF RowsTellTheTruth
<1>8. \A r \in Recipients : ~Uncommitted(r)
  BY <1>1, OffType DEF Uncommitted
<1>9. Ledger
  BY <1>1, <1>8 DEF Ledger
<1> QED BY <1>5, <1>6, <1>7, <1>9 DEF IInv

LEMMA DeliverInv ==
  ASSUME IInv, NEW p \in Procs, Deliver(p)
  PROVE  IInv'
BY SkipInv, BeginInv, RefuseInv, AcceptInv, CommitInv DEF Deliver

LEMMA NextInv == IInv /\ [Next]_vars => IInv'
<1> SUFFICES ASSUME IInv, [Next]_vars PROVE IInv' OBVIOUS
<1>1. ASSUME NEW t \in Tasks, TaskStep(t) PROVE IInv'
  <2>1. t \in Procs
    BY DEF Procs
  <2>2. CASE TaskStart(t) \/ TaskEnd(t)
    <3>1. Unlocked(t)
      BY <2>2, TaskStartStep, TaskEndStep DEF IInv
    <3>2. Locks' /\ Open' /\ RowsTellTheTruth' /\ Ledger'
      BY <2>1, <2>2, <3>1, UnlockedOnly DEF TaskStart, TaskEnd, ledger
    <3>3. retries' \in [Tasks -> 0..MaxRetries]
      BY <2>2, OutboxAssumption DEF IInv, TypeOK, TaskStart, TaskEnd
    <3>4. TypeOK'
      BY <2>1, <2>2, <3>1, <3>3, UnlockedLocks
        DEF IInv, TypeOK, TaskStart, TaskEnd
    <3> QED BY <3>2, <3>4 DEF IInv
  <2> QED BY <1>1, <2>1, <2>2, DeliverInv, EnsureInv DEF TaskStep
<1>2. ASSUME NEW b \in Beats, BeatStep(b) PROVE IInv'
  <2>1. b \in Procs
    BY DEF Procs
  <2>2. CASE BeatStart(b) \/ BeatEnd(b)
    <3>1. Unlocked(b)
      BY <2>2, BeatStartStep, BeatEndStep DEF IInv
    <3>2. UNCHANGED <<asset, subscribed, row, retries, accepted, excused,
                      crashes, edits>>
      BY <2>2 DEF BeatStart, BeatEnd
    <3>3. Locks' /\ Open' /\ RowsTellTheTruth' /\ Ledger'
      BY <2>1, <3>1, <3>2, UnlockedOnly DEF ledger
    <3>4. TypeOK'
      BY <2>1, <3>1, <3>2, UnlockedLocks DEF IInv, TypeOK
    <3> QED BY <3>3, <3>4 DEF IInv
  <2> QED BY <1>2, <2>1, <2>2, DeliverInv DEF BeatStep
<1>3. ASSUME NEW r \in Recipients, GapElapses(r) PROVE IInv'
  <2>1. Locks' /\ Open' /\ RowsTellTheTruth' /\ Ledger'
    BY <1>3, RowsAge DEF IInv, TypeOK, GapElapses, ledger
  <2>2. TypeOK'
    BY <1>3 DEF IInv, TypeOK, GapElapses
  <2> QED BY <2>1, <2>2 DEF IInv
<1>4. CASE EditRecipients \/ DeleteAsset \/ UNCHANGED vars
  <2>1. UNCHANGED <<row, proc, retries, accepted, excused, crashes>>
    BY <1>4 DEF EditRecipients, DeleteAsset, vars
  <2>2. Locks' /\ Open' /\ RowsTellTheTruth' /\ Ledger'
    BY <2>1, RowsAge DEF ledger
  <2>3. /\ asset' \in BOOLEAN /\ subscribed' \in SUBSET Recipients
        /\ edits' \in 0..MaxEdits
    <3>1. CASE EditRecipients
      <4>1. edits + 1 \in 0..MaxEdits
        BY <3>1, OutboxAssumption DEF IInv, TypeOK, EditRecipients
      <4> QED BY <3>1, <4>1 DEF IInv, TypeOK, EditRecipients
    <3>2. CASE DeleteAsset \/ UNCHANGED vars
      BY <3>2 DEF IInv, TypeOK, DeleteAsset, vars
    <3> QED BY <1>4, <3>1, <3>2
  <2>4. TypeOK'
    BY <2>1, <2>3 DEF IInv, TypeOK
  <2> QED BY <2>2, <2>4 DEF IInv
<1> QED
  BY <1>1, <1>2, <1>3, <1>4, CrashInv, AnswerLostInv, DeleteRowsInv DEF Next

\* Every variable keeps its type: in particular no row is tried more often
\* than MaxAttempts, however many tasks and recovery runs work on it.
THEOREM TypeCorrect == Spec => []TypeOK
<1>1. IInv => TypeOK
  BY DEF IInv
<1> QED BY <1>1, InitInv, NextInv, PTL DEF Spec

\* Concurrent tasks and recovery runs alone never send an alert twice.
THEOREM NoFreeDuplicates == Spec => []DuplicatesNeedAFailure
<1>1. IInv => DuplicatesNeedAFailure
  BY DEF IInv, Ledger, DuplicatesNeedAFailure
<1> QED BY <1>1, InitInv, NextInv, PTL DEF Spec

\* An excuse is a worker lost, an answer lost, or a deletion of the rows.
Paid == \A r \in Recipients : excused[r] <= crashes + edits

LEMMA PaidStep ==
  ASSUME TypeOK, Paid, [Next]_vars
  PROVE  Paid'
<1>1. /\ crashes \in Nat /\ edits \in Nat
      /\ excused \in [Recipients -> Nat]
  BY OutboxAssumption DEF TypeOK
<1>2. CASE UNCHANGED <<excused, crashes>> /\ edits' \in {edits, edits + 1}
  BY <1>1, <1>2 DEF Paid
<1>3. CASE \E p \in Procs : Crash(p)
  <2>1. /\ crashes' = crashes + 1 /\ UNCHANGED edits
        /\ \A r \in Recipients : excused'[r] \in {excused[r], excused[r] + 1}
    BY <1>3 DEF Crash
  <2> QED BY <1>1, <2>1 DEF Paid
<1>4. CASE \E p \in Procs, r \in Recipients : AnswerLost(p, r)
  <2>1. /\ crashes' = crashes + 1 /\ UNCHANGED edits
        /\ \A r \in Recipients : excused'[r] \in {excused[r], excused[r] + 1}
    BY <1>1, <1>4 DEF AnswerLost
  <2> QED BY <1>1, <2>1 DEF Paid
<1>5. CASE DeleteRows
  <2>1. /\ edits' = edits + 1 /\ UNCHANGED crashes
        /\ \A r \in Recipients : excused'[r] \in {excused[r], excused[r] + 1}
    BY <1>5 DEF DeleteRows
  <2> QED BY <1>1, <2>1 DEF Paid
<1>6. ASSUME NEW p \in Procs, Deliver(p)
      PROVE  UNCHANGED <<excused, crashes, edits>>
  BY <1>6 DEF Deliver, Skip, Begin, Refuse, Accept, Commit
<1>7. ASSUME NEW t \in Tasks, TaskStep(t)
      PROVE  UNCHANGED <<excused, crashes, edits>>
  BY <1>6, <1>7 DEF TaskStep, TaskStart, TaskEnd, Ensure, Procs
<1>8. ASSUME NEW b \in Beats, BeatStep(b)
      PROVE  UNCHANGED <<excused, crashes, edits>>
  BY <1>6, <1>8 DEF BeatStep, BeatStart, BeatEnd, Procs
<1>9. CASE \/ \E r \in Recipients : GapElapses(r)
           \/ EditRecipients \/ DeleteAsset \/ UNCHANGED vars
  <2>1. UNCHANGED <<excused, crashes>> /\ edits' \in {edits, edits + 1}
    BY <1>9 DEF GapElapses, EditRecipients, DeleteAsset, vars
  <2> QED BY <1>2, <2>1
<1> QED BY <1>2, <1>3, <1>4, <1>5, <1>7, <1>8, <1>9 DEF Next

\* In terms of what happens to the system: a recipient gets an alert at most
\* once more than workers and answers are lost and the rows deleted.
THEOREM DuplicatesAreBounded ==
  Spec => [](\A r \in Recipients : accepted[r] <= 1 + crashes + edits)
<1>1. Init => Paid
  BY DEF Init, Paid
<1>2. IInv /\ Paid => \A r \in Recipients : accepted[r] <= 1 + crashes + edits
  <2> SUFFICES ASSUME IInv, Paid, NEW r \in Recipients
               PROVE  accepted[r] <= 1 + crashes + edits
    OBVIOUS
  <2>1. /\ accepted[r] \in Nat /\ excused[r] \in Nat
        /\ crashes \in Nat /\ edits \in Nat
    BY OutboxAssumption DEF IInv, TypeOK
  <2>2. accepted[r] <= 1 + excused[r] /\ excused[r] <= crashes + edits
    BY DEF IInv, Ledger, Paid
  <2> QED BY <2>1, <2>2
<1>3. IInv /\ Paid /\ [Next]_vars => Paid'
  BY PaidStep DEF IInv
<1> QED BY <1>1, <1>2, <1>3, InitInv, NextInv, PTL DEF Spec

\* A row is marked as sent only after an acceptance, as dead only after all
\* attempts.
THEOREM RowsTruthful == Spec => []RowsTellTheTruth
<1>1. IInv => RowsTellTheTruth
  BY DEF IInv
<1> QED BY <1>1, InitInv, NextInv, PTL DEF Spec

\* What a step may do to the outcome that a row tells.
Final(r) ==
  row[r].status \in {"sent", "dead"} => row'[r].status \in {row[r].status, "none"}

LEMMA FinalStep ==
  ASSUME IInv, [Next]_vars
  PROVE  \A r \in Recipients : Final(r)
<1> DEFINE F == \A r \in Recipients : Final(r)
<1>1. UNCHANGED row => F
  BY DEF Final
<1>2. ASSUME NEW p \in Procs, NEW r \in Recipients,
             Refuse(p, r) \/ Commit(p, r) \/ AnswerLost(p, r)
      PROVE  F
  <2>1. proc[p].at = {r} /\ \A x \in Recipients \ {r} : row'[x] = row[x]
    BY <1>2 DEF Refuse, Commit, AnswerLost, IInv, TypeOK
  <2>2. row[r].status \notin {"sent", "dead"}
    BY <2>1 DEF IInv, Open
  <2> QED BY <2>1, <2>2 DEF Final
<1>3. ASSUME NEW p \in Procs, NEW r \in Recipients, Skip(p, r)
      PROVE  F
  <2> DEFINE new == IF row[r].status \notin {"none", "sent"} THEN "dead"
                    ELSE row[r].status
  <2>1. row' = [row EXCEPT ![r].status = new]
    BY <1>3 DEF Skip
  <2>2. row[r].status \in {"sent", "dead"} => new = row[r].status
    OBVIOUS
  <2> HIDE DEF new
  <2> QED BY <2>1, <2>2 DEF Final, IInv, TypeOK
<1>4. ASSUME NEW p \in Procs, Deliver(p) PROVE F
  BY <1>1, <1>2, <1>3, <1>4 DEF Deliver, Begin, Accept
<1>5. ASSUME NEW t \in Tasks, NEW r \in Recipients, Ensure(t, r) PROVE F
  BY <1>5 DEF Ensure, Final, IInv, TypeOK
<1>6. ASSUME NEW t \in Tasks, TaskStep(t) PROVE F
  BY <1>1, <1>4, <1>5, <1>6 DEF TaskStep, TaskStart, TaskEnd, Procs
<1>7. ASSUME NEW b \in Beats, BeatStep(b) PROVE F
  BY <1>1, <1>4, <1>7 DEF BeatStep, BeatStart, BeatEnd, Procs
<1>8. ASSUME NEW r \in Recipients, GapElapses(r) PROVE F
  BY <1>8 DEF GapElapses, Final, IInv, TypeOK
<1>9. CASE DeleteRows
  BY <1>9 DEF DeleteRows, NoRow, Final
<1>10. CASE EditRecipients \/ DeleteAsset \/ UNCHANGED vars
            \/ \E p \in Procs : Crash(p)
  BY <1>1, <1>10 DEF EditRecipients, DeleteAsset, vars, Crash
<1> QED BY <1>2, <1>6, <1>7, <1>8, <1>9, <1>10 DEF Next

\* A row that is sent stays sent, one that is dead stays dead, until deleted.
THEOREM OutcomesFinal == Spec => OutcomesAreFinal
<1>1. IInv /\ [Next]_vars => [\A r \in Recipients :
        row[r].status \in {"sent", "dead"} =>
          row'[r].status \in {row[r].status, "none"}]_vars
  BY FinalStep DEF Final
<1> QED BY <1>1, InitInv, NextInv, PTL DEF Spec, OutcomesAreFinal
=============================================================================
