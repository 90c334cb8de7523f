SPECIFICATION LeaseSpec
CONSTANTS
  p1 = p1 p2 = p2 p3 = p3
  Procs = {p1, p2}
  Host <- OneHost
  Pid <- OwnPid
  MayEnd = {p1}
  Writes = {w1, w2}
  Stale = 1
  MaxClock = 1
  Nobody = Nobody
INVARIANTS AcceptedSurvives
CHECK_DEADLOCK FALSE
