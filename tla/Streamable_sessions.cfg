SPECIFICATION Spec
CONSTANTS
  Sid = {s1, s2}
  Post = {p1, p2}
  Stream = {g1}
  Deleter = {d1, d2}
  Sender = {}
  Proc = {p1, p2, g1, d1, d2}
  None = None
  Stale = Stale
SYMMETRY Symmetric
INVARIANTS
  TerminatedIsGone
  StickySession
  PrivateSession
  DoneMeansDeleted
