SPECIFICATION ServerSpec
CONSTANTS
  Sid = {s1}
  Post = {p1}
  Stream = {g1}
  Sender = {b1}
  Proc = {p1, g1, b1}
  None = None
  Stale = Stale
INVARIANTS
  DrainedOnReturn
PROPERTIES
  AllReturn
  ShutdownCompletes
