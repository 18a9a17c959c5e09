SPECIFICATION Spec
CONSTANTS
  Resources = {r1, r2}
  Families <- PreservingFamilies
  PageSize = 2
  ShrinkDuringRead = {}
  MaxChanges = 2
  MaxToggles = 1
  MaxFailures = 0
INVARIANT DisabledStaysDisabled
