CONSTANTS
  Rows <- MCRows
  DistrictOf <- MCDistrictOf
  Window = 2
  Delay = 1
  MaxSnapshots = 2
  MaxRuns = 2
  MaxFailures = 1
SPECIFICATION FairSpec
INVARIANTS
  WindowOncePerRun
  RowsAccountedFor
PROPERTIES
  PassedWindowIsWritten
