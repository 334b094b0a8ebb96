SPECIFICATION Spec
CONSTANTS
  Sid = {s1}
  Post = {p1}
  Stream = {g1}
  Sender = {}
  Proc = {p1, g1}
  None = None
  Stale = Stale
INVARIANTS
  ReplyOnStream
