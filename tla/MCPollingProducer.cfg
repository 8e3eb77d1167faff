\* One cycle gives three events and the queue holds three: it overflows in
\* the second cycle, also in the middle of the batch of two.
SPECIFICATION FairSpec
CONSTANTS
  Targets <- MCTargets
  Batch <- MCBatch
  MaxQueue = 3
  PollSeconds = 1
  MaxTime = 1
PROPERTIES
  KeyOrder
  NoTargetStarves
  SignalEnds
