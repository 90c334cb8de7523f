SPECIFICATION LeaseFairSpec
CONSTANTS
  p1 = p1 p2 = p2 p3 = p3
  Procs = {p1, p2, p3}
  Host <- OneHost
  Pid <- RecycledPid
  MayEnd = {p1, p3}
  Writes = {w1, w2}
  Stale = 1
  MaxClock = 2
  Nobody = Nobody
INVARIANTS OneWriterUnlessTrampled
PROPERTIES ReleasesOwnLease LiveNeverMistaken DeadWriterReplaced
CHECK_DEADLOCK FALSE
