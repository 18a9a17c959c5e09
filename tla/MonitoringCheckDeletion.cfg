SPECIFICATION Spec
CONSTANTS
  Workers = {w1, w2}
  Healthy = {up, down}
  Errors = {error}
  Metas = {m1}
  None = None
  MaxJobs = 3
  MaxDeletions = 1
  CleanupMayFail = TRUE
SYMMETRY Symmetry
INVARIANTS StateAgreesWithNewestLog LogsAreTransitions AlertsFollowTheLog
PROPERTIES FenceOrdersHeartbeats ImplementsFence
