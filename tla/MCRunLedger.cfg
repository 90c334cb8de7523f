SPECIFICATION Spec
CONSTANTS
  k1 = k1 k2 = k2 j1 = j1 j2 = j2 q1 = q1 q2 = q2 o1 = o1
  RunIds = {r1, r2}
  Owners = {o1}
  Keys = {k1, k2}
  KeyOwner <- MCKeyOwner
  Jobs = {j1, j2}
  Mistyped = {}
  Backends = {"local"}
  Requests = {q1, q2}
  MaxActive = 1
  RunCap = 2
  NoKey = NoKey
  NoId = NoId
CONSTRAINT OneRelayed
SYMMETRY MCSymmetry
INVARIANTS ActiveQuota OneJobPerKey
PROPERTIES TerminalStays OwnIdKept
CHECK_DEADLOCK FALSE
