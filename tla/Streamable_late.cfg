SPECIFICATION FairSpec
CONSTANTS
  Sid = {s1}
  Post = {p1}
  Stream = {g1}
  Deleter = {d1}
  Sender = {}
  Proc = {p1, g1, d1}
  None = None
  Stale = Stale
PROPERTIES
  StreamsEndWithSession
