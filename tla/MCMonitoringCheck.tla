-------------------------- MODULE MCMonitoringCheck --------------------------
\* Small instances of MonitoringCheck: two overlapping workers on one asset.
EXTENDS MonitoringCheck, TLC
Symmetry ==
  Permutations(Workers) \cup Permutations(Metas) \cup Permutations(Healthy)
=============================================================================
