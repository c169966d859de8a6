\* Batches of two, six lines, a rotation, a truncation, a restart.
SPECIFICATION FairSpec
CONSTANTS
  BatchMax = 2
  MaxLines = 6
  MaxRotations = 1
  MaxTruncations = 1
  MaxRestarts = 1
INVARIANTS TypeOK PostedOnceInOrder OneLossPerBatch
PROPERTIES BacklogIsRead CurrentFileIsRead
