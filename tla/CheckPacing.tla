----------------------------- MODULE CheckPacing -----------------------------
(***************************************************************************)
(* The pace of one asset's checks in discrete time: the beat starts one    *)
(* every Interval, a check takes any time up to the task's soft limit, and *)
(* the generation fence drops the ones that were overtaken.  It asks when  *)
(* the recorded heartbeat keeps up with the checks that really ran.        *)
(***************************************************************************)
EXTENDS Naturals

CONSTANTS
  Workers,     \* Celery workers
  Interval,    \* monitoring interval of the account's plan, in ticks
  SoftLimit,   \* soft_time_limit of check_asset_status, in ticks
  StaleAfter   \* age at which the console calls the monitoring stale

ASSUME PacingAssumption ==
  /\ Interval \in Nat \ {0}
  /\ SoftLimit \in Nat \ {0}
  /\ StaleAfter \in Nat \ {0}

VARIABLES
  age,       \* ticks each running check has taken, Idle when there is none
  holder,    \* the check that reserved the current generation
  sinceBeat, \* ticks since the beat last sent the task
  heartbeat, \* ticks since last_checked_at, up to StaleAfter + 1
  finished   \* ticks since a check last completed, up to StaleAfter + 1

vars == <<age, holder, sinceBeat, heartbeat, finished>>

Idle == SoftLimit + 1
Running == {w \in Workers : age[w] # Idle}
Older(t) == IF t > StaleAfter THEN t ELSE t + 1

TypeOK ==
  /\ age \in [Workers -> 0..Idle]
  /\ holder \in SUBSET Workers
  /\ sinceBeat \in 0..Interval
  /\ heartbeat \in 0..(StaleAfter + 1)
  /\ finished \in 0..(StaleAfter + 1)

Init ==
  /\ age = [w \in Workers |-> Idle]
  /\ holder = {}
  /\ sinceBeat = Interval
  /\ heartbeat = 0
  /\ finished = 0

\* The periodic task is due and a worker takes it at once: it reserves the
\* next generation, which makes it the only current one.
Beat(w) ==
  /\ sinceBeat = Interval
  /\ age[w] = Idle
  /\ age' = [age EXCEPT ![w] = 0]
  /\ holder' = {w}
  /\ sinceBeat' = 0
  /\ UNCHANGED <<heartbeat, finished>>

\* Mutant: a recorded check does not refresh the heartbeat.
FinishSilently(w) ==
  /\ age[w] # Idle
  /\ age' = [age EXCEPT ![w] = Idle]
  /\ holder' = holder \ {w}
  /\ finished' = 0
  /\ UNCHANGED <<sinceBeat, heartbeat>>

\* The check completes, with an answer or with the error its soft limit
\* raises: recorded by the holder, dropped by a check that was overtaken.
Finish(w) ==
  /\ age[w] # Idle
  /\ age' = [age EXCEPT ![w] = Idle]
  /\ holder' = holder \ {w}
  /\ heartbeat' = IF w \in holder THEN 0 ELSE heartbeat
  /\ finished' = 0
  /\ UNCHANGED sinceBeat

\* Mutant: the beat may miss its turn.
TickWithoutBeat ==
  /\ \A w \in Running : age[w] < SoftLimit
  /\ age' = [w \in Workers |-> IF w \in Running THEN age[w] + 1 ELSE age[w]]
  /\ sinceBeat' = sinceBeat + 1
  /\ heartbeat' = Older(heartbeat)
  /\ finished' = Older(finished)
  /\ UNCHANGED holder

\* Time passes unless the beat is due or a check has reached its limit.
Tick ==
  /\ sinceBeat < Interval
  /\ \A w \in Running : age[w] < SoftLimit
  /\ age' = [w \in Workers |-> IF w \in Running THEN age[w] + 1 ELSE age[w]]
  /\ sinceBeat' = sinceBeat + 1
  /\ heartbeat' = Older(heartbeat)
  /\ finished' = Older(finished)
  /\ UNCHANGED holder

Next == Tick \/ \E w \in Workers : Beat(w) \/ Finish(w)

\* Time passes, the beat is on time, and the time limit ends every check.
Spec == Init /\ [][Next]_vars /\ WF_vars(Next)

-----------------------------------------------------------------------------
\* The rule of _monitoring_state_stale.
Stale == heartbeat > StaleAfter

\* Checks that complete in every interval never let the console report the
\* monitoring as stale.
CompletedChecksKeepItFresh == finished <= StaleAfter => ~Stale

\* The heartbeat is refreshed for ever.
HeartbeatsKeepComing == []<>(heartbeat = 0)

\* While beat and workers keep their times, the console never reports the
\* monitoring as stale.
NeverStale == ~Stale
=============================================================================
