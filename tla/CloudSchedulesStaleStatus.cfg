SPECIFICATION Spec
CONSTANTS
  Manuals = {m1}
  Editors = {}
  Togglers = {}
  TypeIsScheduled = TRUE
  MaxRequests = 1
  MaxTokenChanges = 1
  MaxListChanges = 0
  MaxFailures = 0
INVARIANT MonitoredAssetsAreChecked
CHECK_DEADLOCK FALSE
