\* A comment of the repository, checked.
SPECIFICATION GoldSpec
CONSTANTS
  Migrations = {m1}
  Day = 1
  MaxTime = 2
  MaxWindows = 1
  MaxBroken = 0
INVARIANTS
  LatencyIsMeasured
