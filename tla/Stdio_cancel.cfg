SPECIFICATION FairSpec
CONSTANTS
  Line = {l1}
  Sender = {}
  Reader = Reader
  NL = NL
  Torn = Torn
  None = None
  Faulty = FALSE
PROPERTIES
  CancelReturns
