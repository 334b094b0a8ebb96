SPECIFICATION FairSpec
CONSTANTS
  Line = {l1, l2}
  Sender = {b1, b2}
  Reader = Reader
  NL = NL
  Torn = Torn
  None = None
  Faulty = TRUE
INVARIANTS
  LineStarts
  AnswersInOrder
  EndDrains
  OneAfterCancel
PROPERTIES
  SendReturns
  EndReturns
  ImplementsLineServer
