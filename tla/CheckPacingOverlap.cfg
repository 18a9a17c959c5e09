\* Ticks of 30 seconds: the 1-minute plan, the 90-second soft limit, and stale
\* after 5 minutes.
SPECIFICATION Spec
CONSTANTS
  Workers = {w1, w2, w3}
  Interval = 2
  SoftLimit = 3
  StaleAfter = 10
INVARIANT CompletedChecksKeepItFresh
