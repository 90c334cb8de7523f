SPECIFICATION FairSpec
CONSTANTS
  MaxThreads = 2
  MaxRuntimes = 2
  MaxRequests = 3
  MaxFaults = 1
PROPERTIES StopHolds AnswerIsOwn NoStaleStart ComesToRest
CHECK_DEADLOCK FALSE
