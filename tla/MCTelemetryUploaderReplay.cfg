SPECIFICATION Spec
CONSTANTS
  BatchSize = 2
  MaxLines = 3
  MaxT = 1
INVARIANTS ReplayIsSafe
CHECK_DEADLOCK FALSE
