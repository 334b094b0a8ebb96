SPECIFICATION FairSpec
CONSTANTS
  Sid = {s1}
  Post = {p1}
  Stream = {g1}
  Deleter = {d1}
  Sender = {b1, b2}
  Proc = {p1, g1, d1, b1, b2}
  None = None
  Stale = Stale
PROPERTIES
  AllReturn
  ShutdownEndsStreams
  DeleteEndsStreams
  ImplementsEventStreams
