\* Each script runs twice at once and may fail twice; the maintenance of a
\* table has one reader at a time: a request of the API or the streaming job.
SPECIFICATION MCSpec
CONSTANTS
  Scripts = {s1, s2}
  MaxLosses = 2
  Migrations = {m1, m2}
  Day = 1
  MaxTime = 2
  MaxWindows = 1
  MaxBroken = 2
  RetainLast = 2
  MaxAppends = 3
  MaxFailures = 2
INVARIANTS
  SuccessMeansReady
  SuccessMeansMigrated
  EveryRowOnce
  OnlyOldPlansFail
  OnlyLaggardsStick
PROPERTIES
  ReadersSeeATable
  BootstrapSettles
  MigrationSettles
