\* One partition with two events, one of an area without a region, two runs of
\* the process and two failures inside them.
SPECIFICATION FairSpec
CONSTANTS
  Partitions <- OnePartition
  Records <- MCRecords
  PartitionOf <- AllOnOne
  Mapped <- MCMapped
  MaxLog = 2
  MaxRuns = 2
  MaxFailures = 2
INVARIANTS
  BronzeOncePerRun
  SilverOncePerRun
  BronzeNoGap
  SilverNoGap
PROPERTIES
  BronzeDeliverySpec
  SilverDeliverySpec
  EventuallyInSilver
