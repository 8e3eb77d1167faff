\* A comment of the repository, checked.
SPECIFICATION MCSpec
CONSTANTS
  Places = {p1}
  Rows <- ThreeRows
  NULL = NULL
  NoRow = NoRow
  Static <- StaticRows
  Calm = {"cafe", "bakery"}
  MaxChanges = 3
  MaxResends = 0
  MaxRegistrations = 0
  MaxRuns = 2
  DistinctTimes = TRUE
INVARIANTS
  GoldIsCurrentSnapshot
