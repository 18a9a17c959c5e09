SPECIFICATION OutcomesSpec
CONSTANTS
  Statuses = {"healthy", "detached", "faulty", "gone", "unknown", "partial", "provider_error"}
  Error = "error"
  Window = 2
  PageSize = 1
  MaxTime = 4
  Browsed <- SomeChecks
  MaxChanges = 2
  MaxFaults = 2
INVARIANTS OutcomesTypeOK EveryPeriodIsTold EntriesDateTheChange PagesMissNothing OutagesStayTold ConsoleAgrees
PROPERTIES FailuresStaySilent GoneIsNoRecovery
CHECK_DEADLOCK FALSE
