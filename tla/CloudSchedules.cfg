\* A resource that disappears does not come back here: the settings form can
\* overtake the sync that revives it and delete its task.
SPECIFICATION FairSpec
CONSTANTS
  Manuals = {}
  Editors = {e1}
  Togglers = {}
  TypeIsScheduled = TRUE
  MaxRequests = 3
  MaxTokenChanges = 4
  MaxListChanges = 1
  MaxFailures = 2
INVARIANTS TypeOK MonitoredAssetsAreChecked UnmonitoredAssetsRest CloudScheduleFollowsStatus
PROPERTIES PauseHolds RecoveredCloudsAreChecked
CHECK_DEADLOCK FALSE
