SPECIFICATION FairSpec
CONSTANTS
  Recipients = {r1, r2}
  Tasks = {t1}
  Beats = {b1}
  MaxAttempts = 2
  BatchLimit = 1
  MaxRetries = 1
  MaxCrashes = 1
  MaxEdits = 1
INVARIANTS TypeOK DuplicatesNeedAFailure RowsTellTheTruth
PROPERTIES OutcomesAreFinal EveryAlertSettles
CHECK_DEADLOCK FALSE
