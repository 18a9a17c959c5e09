SPECIFICATION Spec
CONSTANTS
  Workers = {w1, w2}
  Healthy = {up, down}
  Errors = {error}
  Metas = {m1}
  None = None
  MaxJobs = 3
  MaxDeletions = 1
  CleanupMayFail = FALSE
SYMMETRY Symmetry
PROPERTY OutOfOrderNeverRegresses
