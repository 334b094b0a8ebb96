SPECIFICATION ToolSpec
CONSTANTS
  Id = {1}
  Null = Null
  None = None
  ToolType <- MCTypes
  Arg <- MCArgs
  Fold <- MCFold
INVARIANTS
  RequestAnswered
  SilentOnNotification
  ResultMeansOk
  ListedArgumentsDecode
  SchemaMatchesDecoder
