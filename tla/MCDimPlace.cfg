\* One place, three changes, one redelivered event, two runs of the job, the
\* connector registered a second time.
SPECIFICATION MCSpec
CONSTANTS
  Places = {p1}
  Rows <- TwoRows
  NULL = NULL
  NoRow = NoRow
  Static <- StaticRows
  Calm = {"cafe", "bakery"}
  MaxChanges = 3
  MaxResends = 1
  MaxRegistrations = 1
  MaxRuns = 2
  DistinctTimes = FALSE
INVARIANTS
  GoldKnowsDeletes
  GoldIsOneVersion
PROPERTIES
  GoldNeverGoesBack
  OnlyNewsFailTheMerge
  DbtRunConverges
  DbtMartConverges
