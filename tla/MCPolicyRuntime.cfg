SPECIFICATION FairSpec
CONSTANT MaxSessions = 2
INVARIANTS MovingIsAttended
PROPERTIES SessionsReportedOnce StopQuiets
CHECK_DEADLOCK FALSE
