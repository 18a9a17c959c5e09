\* Page numbers over a list that shrinks during the read skip a resource, so
\* there a resource vanishes only between two reads.
SPECIFICATION OrderedSpec
CONSTANTS
  Resources = {r1, r2, r3}
  Families <- AllFamilies
  PageSize = 1
  ShrinkDuringRead = {"single", "cursor", "counted", "first"}
  MaxChanges = 2
  MaxToggles = 1
  MaxFailures = 1
INVARIANTS TypeOK TasksFollowMonitoring
PROPERTIES OnlyVanishedAreMarked ListedAreImported UnlistedAreMarked RowsAgreeInTheEnd
