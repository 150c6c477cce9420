SPECIFICATION FairSpec
CONSTANTS
  MaxMsgs = 6
  MaxIters = 1
  MaxTools = 2
  JoinBuf = 40
  ContentBuf = 20
  ToolMsgBuf = 14
  ToolMsgHead = 1
  ShortLen = 2
  BlockLens <- ToolLens
  PromptLens = {2}
  Lines <- LongLines
  LineBuf = 2
  Replies <- ToolReplies
  AutoYes = FALSE
  OutOfMemory = TRUE
  MaxPrompts = 2
  MaxAhead = 1
INVARIANTS HistInOrder GateHeld EffectsInOrder ReportsMatchEffects
PROPERTIES ImplementsTurn
