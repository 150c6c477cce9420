SPECIFICATION FairSpec
CONSTANTS
  Lines <- PlainLines
  LineBuf = 33
  ParamBuf = 19
  ArgBuf = 12
  IdBuf = 4
  ValueBuf = 2
  ToolOut = 4
  EscBuf = 10
  Outputs <- SomeOutputs
  MaxLines = 3
INVARIANTS TypeOK ReportsMatchActs
PROPERTIES ImplementsRpc AllAnswered
