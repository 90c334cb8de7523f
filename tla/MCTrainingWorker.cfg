SPECIFICATION FairSpec
CONSTANTS
  j1 = j1 j2 = j2 j3 = j3
  Jobs = {j1, j2, j3}
  Keys = {k1}
  NoKey = NoKey
  Unrouted = {j3}
  Limit = 1
  MaxJobs = 3
INVARIANTS EngineLimit WorkConserving OneEnginePerKey
PROPERTIES NoRelaunch FollowsJobLifecycle JobsEnd
CHECK_DEADLOCK FALSE
