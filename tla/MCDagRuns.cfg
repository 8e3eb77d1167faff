\* One run after the other of each of the four DAGs, every task failing or not.
SPECIFICATION FairSpec
CONSTANTS
  FreshnessSamples <- Freshness
  LatencySamples <- Latency
  Params <- Hours
  None = None
INVARIANTS
  NoSilentViolation
  ArchiveMeansComplete
  FailureToldOnce
  VerdictIsTail
  HoursCovered
PROPERTIES
  RunsEnd
