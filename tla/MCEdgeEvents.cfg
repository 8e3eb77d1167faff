\* The posts of one browser, each made at any time.
SPECIFICATION MCFairSpec
CONSTANTS
  MaxPosts = 3
  Bodies <- AllBodies
INVARIANTS
  AcceptedIsPublished
  BeginningOfBatch
PROPERTIES
  IdSettles
  EveryPostAnswered
CHECK_DEADLOCK FALSE
