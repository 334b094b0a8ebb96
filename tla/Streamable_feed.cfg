SPECIFICATION Spec
CONSTANTS
  Sid = {s1}
  Post = {p1}
  Stream = {g1, g2}
  Deleter = {d1}
  Sender = {b1, b2}
  Proc = {p1, g1, g2, d1, b1, b2}
  None = None
  Stale = Stale
SYMMETRY Symmetric
INVARIANTS
  WaitsDescend
  EmitToLive
  GaplessFeed
  BroadcastReaches
  NoEventAfterDelete
