SPECIFICATION Spec
CONSTANTS
  Request = {r1, r2}
  Token = {t1, t2}
  Outcome = {"200"}
  None = None
SYMMETRY Symmetric
INVARIANTS
  CountedOnce
  SnapshotBrackets
  AcceptIsCurrent
