SPECIFICATION Spec
CONSTANTS
  MaxMsgs = 48
  MaxIters = 1
  MaxTools = 8
  JoinBuf = 90000
  ContentBuf = 49151
  ToolMsgBuf = 36256
  ToolMsgHead = 26
  ShortLen = 90
  BlockLens <- RealLens
  PromptLens = {60}
  Lines <- ShortLines
  LineBuf = 2
  Replies <- FiveReads
  AutoYes = FALSE
  OutOfMemory = FALSE
  MaxPrompts = 1
  MaxAhead = 0
INVARIANTS ToolMsgFits
