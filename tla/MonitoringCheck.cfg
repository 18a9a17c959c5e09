SPECIFICATION Spec
CONSTANTS
  Workers = {w1, w2}
  Healthy = {up, down}
  Errors = {error}
  Metas = {m1, m2}
  None = None
  MaxJobs = 3
  MaxDeletions = 0
  CleanupMayFail = FALSE
SYMMETRY Symmetry
INVARIANTS TypeOK StateAgreesWithNewestLog LogsAreTransitions AlertsFollowTheLog
PROPERTY FenceOrdersHeartbeats
