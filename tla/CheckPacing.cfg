\* Ticks of 10 seconds: a 2-minute plan, the 90-second soft limit, and stale
\* after 6 minutes, three intervals.
SPECIFICATION Spec
CONSTANTS
  Workers = {w1, w2, w3}
  Interval = 12
  SoftLimit = 9
  StaleAfter = 36
INVARIANTS TypeOK NeverStale
PROPERTY HeartbeatsKeepComing
