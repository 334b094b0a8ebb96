SPECIFICATION Spec
CONSTANTS
  Sid = {s1, s2}
  Post = {p1}
  Stream = {g1, g2}
  Sender = {b1}
  Proc = {p1, g1, g2, b1}
  None = None
  Stale = Stale
SYMMETRY Symmetric
INVARIANTS
  EmitToLive
  WaitsDescend
  EndpointFirst
  ReplyIsPrivate
  EventReaches
PROPERTIES
  ImplementsEventStreams
