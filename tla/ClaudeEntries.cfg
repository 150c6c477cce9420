SPECIFICATION BridgeSpec
CONSTANTS
  MaxMsgs = 4
  MaxIters = 1
  MaxTools = 1
  JoinBuf = 40
  ContentBuf = 20
  ToolMsgBuf = 16
  ToolMsgHead = 1
  ShortLen = 2
  BlockLens = {4}
  PromptLens = {2}
  Lines <- ShortLines
  LineBuf = 2
  Replies <- OneReply
  Completions <- OneCompletion
  AutoYes = TRUE
  OutOfMemory = FALSE
  MaxPrompts = 1
  MaxAhead = 0
INVARIANTS EntriesComplete
