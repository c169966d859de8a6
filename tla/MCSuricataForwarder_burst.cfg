\* A burst of alerts longer than a batch; nothing fails and nothing is rotated.
SPECIFICATION Spec
CONSTANTS
  BatchMax = 2
  MaxLines = 4
  MaxRotations = 0
  MaxTruncations = 0
  MaxRestarts = 0
INVARIANT EveryAlertPosted
