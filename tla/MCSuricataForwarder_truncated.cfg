\* One truncation in place; no rotation by rename and no restart.
SPECIFICATION FairSpec
CONSTANTS
  BatchMax = 2
  MaxLines = 3
  MaxRotations = 0
  MaxTruncations = 1
  MaxRestarts = 0
PROPERTY TruncatedFileIsRead
