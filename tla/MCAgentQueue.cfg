\* A queue of two samples, two attempts per iteration, five iterations, five failures.
SPECIFICATION FairSpec
CONSTANTS
  MaxQueue = 2
  MaxBatch = 2
  Attempts = 2
  MaxSamples = 5
  MaxFailures = 5
INVARIANTS TypeOK QueueInOrder ShortOutageLosesNothing
PROPERTIES DeliverySpec QueueDrains
CHECK_DEADLOCK FALSE
