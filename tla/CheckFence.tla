------------------------------ MODULE CheckFence ------------------------------
(***************************************************************************)
(* What AssetMonitoringState.check_generation promises about the checks of *)
(* one asset: a result is recorded only if no later check has started, and *)
(* at most one result per reservation.                                     *)
(***************************************************************************)
CONSTANT Workers

VARIABLES
  running, \* checks that have reserved a generation and not finished
  holder   \* the check whose generation is current, at most one

fenceVars == <<running, holder>>

Init == running = {} /\ holder = {}

\* A check starts and supersedes every earlier one.
Reserve(w) ==
  /\ w \notin running
  /\ running' = running \cup {w}
  /\ holder' = {w}

\* Only the newest check is recorded.
Commit(w) ==
  /\ w \in running \cap holder
  /\ running' = running \ {w}
  /\ holder' = {}

\* A superseded check is dropped, and so is one whose reservation is forgotten.
Drop(w) ==
  /\ w \in running \ holder
  /\ running' = running \ {w}
  /\ UNCHANGED holder

\* The worker dies before it records anything.
Fail(w) ==
  /\ w \in running
  /\ running' = running \ {w}
  /\ holder' = holder \ {w}

\* The reservation is lost with the row that held it.
Forget ==
  /\ holder' = {}
  /\ UNCHANGED running

Next ==
  \/ \E w \in Workers : Reserve(w) \/ Commit(w) \/ Drop(w) \/ Fail(w)
  \/ Forget

Spec == Init /\ [][Next]_fenceVars
=============================================================================
