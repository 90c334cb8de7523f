SPECIFICATION FairSpec
CONSTANTS
  BatchSize = 2
  MaxLines = 3
  MaxT = 1
INVARIANTS RefusalHasCause
PROPERTIES ImplementsSpoolCopy Drained
CHECK_DEADLOCK FALSE
