-------------------------- MODULE CheckPacingProofs --------------------------
(***************************************************************************)
(* Proofs about CheckPacing, for any number of workers and any length of   *)
(* interval, limit and staleness.  The time limit has to be shorter than   *)
(* the interval: then a check is over before the next one begins, so that  *)
(* none is overtaken and each that completes refreshes the heartbeat.      *)
(* The run check_pacing_one_minute shows what happens otherwise.  Whatever *)
(* the limit, the checks implement the abstract fence.                     *)
(***************************************************************************)
EXTENDS CheckPacing, TLAPS

\* A running check is the newest, and began when the beat last sent the task.
NeverOvertaken ==
  \A w \in Running : holder = {w} /\ age[w] = sinceBeat

\* The heartbeat is as recent as the last check that completed.
HeartbeatKeepsUp == heartbeat <= finished

FreshInv == TypeOK /\ NeverOvertaken /\ HeartbeatKeepsUp

LEMMA OlderType ==
  ASSUME NEW t \in 0..(StaleAfter + 1)
  PROVE  Older(t) \in 0..(StaleAfter + 1)
BY PacingAssumption DEF Older

LEMMA InitType == Init => TypeOK
BY PacingAssumption DEF Init, TypeOK, Idle

LEMMA NextType == TypeOK /\ [Next]_vars => TypeOK'
<1> SUFFICES ASSUME TypeOK, [Next]_vars PROVE TypeOK' OBVIOUS
<1>1. CASE Tick
  <2>1. \A w \in Running : age[w] + 1 \in 0..Idle
    BY <1>1, PacingAssumption DEF Tick, TypeOK, Running, Idle
  <2>2. age' \in [Workers -> 0..Idle]
    BY <1>1, <2>1 DEF Tick, TypeOK
  <2>3. sinceBeat' \in 0..Interval
    BY <1>1, PacingAssumption DEF Tick, TypeOK
  <2>4. heartbeat' \in 0..(StaleAfter + 1) /\ finished' \in 0..(StaleAfter + 1)
    BY <1>1, OlderType DEF Tick, TypeOK
  <2> QED BY <1>1, <2>2, <2>3, <2>4 DEF Tick, TypeOK
<1>2. ASSUME NEW w \in Workers, Beat(w) PROVE TypeOK'
  BY <1>2, PacingAssumption DEF Beat, TypeOK, Idle
<1>3. ASSUME NEW w \in Workers, Finish(w) PROVE TypeOK'
  BY <1>3, PacingAssumption DEF Finish, TypeOK, Idle
<1>4. CASE UNCHANGED vars
  BY <1>4 DEF vars, TypeOK
<1> QED BY <1>1, <1>2, <1>3, <1>4 DEF Next

LEMMA InitFresh == Init => FreshInv
BY InitType DEF Init, FreshInv, NeverOvertaken, HeartbeatKeepsUp, Running

\* No check is running when the next one is due.
LEMMA NobodyIsLate ==
  ASSUME SoftLimit < Interval, FreshInv, sinceBeat = Interval
  PROVE  Running = {}
<1> SUFFICES ASSUME NEW w \in Running PROVE FALSE
  BY DEF Running
<1>1. age[w] = Interval /\ age[w] \in 0..Idle /\ age[w] # Idle
  BY DEF FreshInv, NeverOvertaken, TypeOK, Running
<1> QED BY <1>1, PacingAssumption DEF Idle

LEMMA NextFresh ==
  ASSUME SoftLimit < Interval
  PROVE  FreshInv /\ [Next]_vars => FreshInv'
<1> SUFFICES ASSUME FreshInv, [Next]_vars PROVE FreshInv' OBVIOUS
<1>1. TypeOK /\ TypeOK'
  BY NextType DEF FreshInv
<1>2. CASE Tick
  <2>1. Running' \subseteq Running
    BY <1>2 DEF Tick, Running
  <2>2. \A w \in Running : age'[w] = age[w] + 1
    BY <1>2 DEF Tick, Running
  <2>3. NeverOvertaken'
    BY <1>2, <2>1, <2>2 DEF FreshInv, NeverOvertaken, Tick
  <2>4. HeartbeatKeepsUp'
    BY <1>1, <1>2, PacingAssumption
      DEF FreshInv, HeartbeatKeepsUp, Tick, Older, TypeOK
  <2> QED BY <1>1, <2>3, <2>4 DEF FreshInv
<1>3. ASSUME NEW w \in Workers, Beat(w) PROVE FreshInv'
  <2>1. Running = {}
    BY <1>3, NobodyIsLate DEF Beat
  <2>2. Running' \subseteq {w} /\ age'[w] = 0
    BY <1>1, <1>3, <2>1 DEF Beat, Running, TypeOK
  <2>3. NeverOvertaken'
    BY <1>3, <2>2 DEF NeverOvertaken, Beat
  <2> QED BY <1>1, <1>3, <2>3 DEF FreshInv, HeartbeatKeepsUp, Beat
<1>4. ASSUME NEW w \in Workers, Finish(w) PROVE FreshInv'
  <2>1. holder = {w} /\ \A v \in Running : v = w
    BY <1>4 DEF FreshInv, NeverOvertaken, Finish, Running
  <2>2. Running' = {}
    BY <1>1, <1>4, <2>1 DEF Finish, Running, TypeOK
  <2>3. heartbeat' = 0 /\ finished' = 0
    BY <1>4, <2>1 DEF Finish
  <2> QED BY <1>1, <2>2, <2>3 DEF FreshInv, NeverOvertaken, HeartbeatKeepsUp
<1>5. CASE UNCHANGED vars
  BY <1>1, <1>5 DEF vars, FreshInv, NeverOvertaken, HeartbeatKeepsUp, Running
<1> QED BY <1>2, <1>3, <1>4, <1>5 DEF Next

\* The variables keep their types, overlapping checks or not.
THEOREM TypeCorrect == Spec => []TypeOK
BY InitType, NextType, PTL DEF Spec

\* With a time limit shorter than the interval, checks that complete keep the
\* heartbeat fresh.
THEOREM ChecksKeepItFresh ==
  ASSUME SoftLimit < Interval
  PROVE  Spec => []CompletedChecksKeepItFresh
<1>1. FreshInv => CompletedChecksKeepItFresh
  BY PacingAssumption
    DEF FreshInv, HeartbeatKeepsUp, CompletedChecksKeepItFresh, Stale, TypeOK
<1>2. FreshInv /\ [Next]_vars => FreshInv'
  BY NextFresh
<1> QED BY <1>1, <1>2, InitFresh, PTL DEF Spec

-----------------------------------------------------------------------------
(* How old the heartbeat gets *)

\* While nobody runs, a check has completed since the last beat; while one
\* runs, a check had completed since the beat before.
HeartbeatBounded ==
  /\ Running = {} => heartbeat <= sinceBeat
  /\ Running # {} => heartbeat <= Interval + sinceBeat /\ sinceBeat <= SoftLimit

PaceInv == FreshInv /\ HeartbeatBounded

LEMMA InitPace == Init => PaceInv
BY InitFresh, PacingAssumption DEF Init, PaceInv, HeartbeatBounded, Running

\* Whoever completes is the only one that runs, and refreshes the heartbeat.
LEMMA FinishRefreshes ==
  ASSUME FreshInv, NEW w \in Workers, Finish(w)
  PROVE  Running' = {} /\ heartbeat' = 0 /\ sinceBeat' = sinceBeat
<1>1. holder = {w} /\ \A v \in Running : v = w
  BY DEF FreshInv, NeverOvertaken, Finish, Running
<1> QED BY <1>1 DEF FreshInv, Finish, Running, TypeOK

LEMMA NextPace ==
  ASSUME SoftLimit < Interval
  PROVE  PaceInv /\ [Next]_vars => PaceInv'
<1> SUFFICES ASSUME PaceInv, [Next]_vars PROVE HeartbeatBounded'
  BY NextFresh DEF PaceInv
<1>1. TypeOK /\ FreshInv /\ FreshInv' /\ TypeOK'
  BY NextFresh DEF PaceInv, FreshInv
<1>2. CASE Tick
  <2>1. Running' = Running
    BY <1>1, <1>2, PacingAssumption DEF Tick, Running, TypeOK, Idle
  <2>2. heartbeat' <= heartbeat + 1 /\ sinceBeat' = sinceBeat + 1
    BY <1>1, <1>2 DEF Tick, Older, TypeOK
  <2>3. heartbeat \in Nat /\ heartbeat' \in Nat /\ sinceBeat \in Nat
    BY <1>1, PacingAssumption DEF TypeOK
  <2>4. CASE Running = {}
    BY <2>1, <2>2, <2>3, <2>4 DEF PaceInv, HeartbeatBounded
  <2>5. ASSUME NEW w \in Running PROVE sinceBeat' <= SoftLimit
    <3>1. age[w] = sinceBeat /\ age[w] < SoftLimit
      BY <1>1, <1>2, <2>5 DEF FreshInv, NeverOvertaken, Tick
    <3> QED BY <2>2, <2>3, <3>1, PacingAssumption
  <2> QED BY <2>1, <2>2, <2>3, <2>4, <2>5, PacingAssumption
          DEF PaceInv, HeartbeatBounded
<1>3. ASSUME NEW w \in Workers, Beat(w) PROVE HeartbeatBounded'
  <2>1. Running = {} /\ sinceBeat = Interval
    BY <1>1, <1>3, NobodyIsLate DEF Beat
  <2>2. heartbeat <= Interval
    BY <2>1 DEF PaceInv, HeartbeatBounded
  <2>3. w \in Running'
    BY <1>1, <1>3, PacingAssumption DEF Beat, Running, TypeOK, Idle
  <2>4. heartbeat' = heartbeat /\ sinceBeat' = 0
    BY <1>3 DEF Beat
  <2> QED BY <1>1, <2>2, <2>3, <2>4, PacingAssumption DEF HeartbeatBounded, TypeOK
<1>4. ASSUME NEW w \in Workers, Finish(w) PROVE HeartbeatBounded'
  BY <1>1, <1>4, FinishRefreshes DEF HeartbeatBounded, TypeOK
<1>5. CASE UNCHANGED vars
  BY <1>5 DEF vars, PaceInv, HeartbeatBounded, Running
<1> QED BY <1>2, <1>3, <1>4, <1>5 DEF Next

\* The heartbeat is never older than an interval and a time limit, so that the
\* console reports no monitoring as stale whose rule allows for both.
THEOREM NothingGoesStale ==
  ASSUME SoftLimit < Interval, Interval + SoftLimit <= StaleAfter
  PROVE  Spec => []NeverStale
<1>1. PaceInv => NeverStale
  <2> SUFFICES ASSUME PaceInv PROVE heartbeat <= StaleAfter
    BY PacingAssumption DEF NeverStale, Stale, PaceInv, FreshInv, TypeOK
  <2>1. /\ heartbeat \in Nat /\ sinceBeat \in 0..Interval
        /\ StaleAfter \in Nat /\ Interval \in Nat /\ SoftLimit \in Nat
    BY PacingAssumption DEF PaceInv, FreshInv, TypeOK
  <2>2. heartbeat <= Interval \/ heartbeat <= Interval + SoftLimit
    BY <2>1 DEF PaceInv, HeartbeatBounded
  <2> QED BY <2>1, <2>2
<1>2. PaceInv /\ [Next]_vars => PaceInv'
  BY NextPace
<1> QED BY <1>1, <1>2, InitPace, PTL DEF Spec

-----------------------------------------------------------------------------
(* The fence, overlapping checks included *)

Fence == INSTANCE CheckFence WITH running <- Running, holder <- holder

\* One check at most holds the fence.
HolderInv == TypeOK /\ \A v, w \in holder : v = w

LEMMA InitHolder == Init => HolderInv
BY InitType DEF Init, HolderInv

LEMMA NextHolder == HolderInv /\ [Next]_vars => HolderInv'
<1> SUFFICES ASSUME HolderInv, [Next]_vars PROVE \A v, w \in holder' : v = w
  BY NextType DEF HolderInv
<1> QED BY DEF HolderInv, Next, vars, Tick, Beat, Finish

LEMMA FenceStep ==
  HolderInv /\ [Next]_vars => [Fence!Next]_<<Running, holder>>
<1> SUFFICES ASSUME HolderInv, [Next]_vars
             PROVE  Fence!Next \/ UNCHANGED <<Running, holder>>
  OBVIOUS
<1>1. TypeOK
  BY DEF HolderInv
<1>2. CASE Tick
  BY <1>1, <1>2, PacingAssumption DEF Tick, Running, TypeOK, Idle
<1>3. ASSUME NEW w \in Workers, Beat(w) PROVE Fence!Reserve(w)
  <2>1. w \notin Running /\ Running' = Running \cup {w}
    BY <1>1, <1>3, PacingAssumption DEF Beat, Running, TypeOK, Idle
  <2> QED BY <1>3, <2>1 DEF Beat, Fence!Reserve
<1>4. ASSUME NEW w \in Workers, Finish(w) PROVE Fence!Commit(w) \/ Fence!Drop(w)
  <2>1. w \in Running /\ Running' = Running \ {w}
    BY <1>1, <1>4 DEF Finish, Running, TypeOK
  <2>2. CASE w \in holder
    <3>1. holder' = {}
      BY <1>4, <2>2 DEF Finish, HolderInv
    <3> QED BY <2>1, <2>2, <3>1 DEF Fence!Commit
  <2>3. CASE w \notin holder
    BY <1>4, <2>1, <2>3 DEF Finish, Fence!Drop
  <2> QED BY <2>2, <2>3
<1>5. CASE UNCHANGED vars
  BY <1>5 DEF vars, Running
<1> QED BY <1>2, <1>3, <1>4, <1>5 DEF Next, Fence!Next

\* In time, too, the checks behave as CheckFence: each beat supersedes the
\* earlier checks, only the newest one refreshes the heartbeat, and those that
\* were overtaken are dropped, for any interval and limit.
THEOREM PacedChecksImplementFence == Spec => Fence!Spec
<1>1. Init => Fence!Init
  BY DEF Init, Fence!Init, Running
<1> QED BY <1>1, InitHolder, NextHolder, FenceStep, PTL
        DEF Spec, Fence!Spec, Fence!fenceVars
=============================================================================
