\* Two runs of the process: is an event in the bronze table once?
SPECIFICATION Spec
CONSTANTS
  Partitions <- OnePartition
  Records <- MCRecords
  PartitionOf <- AllOnOne
  Mapped <- MCMapped
  MaxLog = 2
  MaxRuns = 2
  MaxFailures = 0
INVARIANTS
  BronzeExactlyOnce
