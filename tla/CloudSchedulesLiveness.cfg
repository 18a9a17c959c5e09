SPECIFICATION FairSpec
CONSTANTS
  Manuals = {m1}
  Editors = {}
  Togglers = {t1}
  TypeIsScheduled = FALSE
  MaxRequests = 2
  MaxTokenChanges = 2
  MaxListChanges = 2
  MaxFailures = 1
PROPERTIES InvalidCloudsRecover InventoryConverges
CHECK_DEADLOCK FALSE
