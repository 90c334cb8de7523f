SPECIFICATION Spec
CONSTANTS
  Evals = {e1, e2}
  Artifacts = {a1}
  Plans = {p1}
  References = {s1}
  Keys = {}
  Handlers = {h1, h2}
  MaxVersion = 2
  Derived = Derived
  Nothing = Nothing
SYMMETRY MCSymmetry
INVARIANTS PassedIsCurrent PreflightIsVerified
PROPERTIES ReleaseIsJustified DecisionsStay
CHECK_DEADLOCK FALSE
