SPECIFICATION FairBridgeSpec
CONSTANTS
  MaxMsgs = 6
  MaxIters = 2
  MaxTools = 2
  JoinBuf = 26
  ContentBuf = 20
  ToolMsgBuf = 16
  ToolMsgHead = 1
  ShortLen = 2
  BlockLens <- SmallLens
  PromptLens = {2}
  Lines <- ShortLines
  LineBuf = 2
  Replies <- SmallReplies
  Completions <- SmallCompletions
  AutoYes = TRUE
  OutOfMemory = FALSE
  MaxPrompts = 2
  MaxAhead = 0
INVARIANTS BridgeTypeOK TurnsPaired PromptKept RequestCurrent TranslationKeepsPairing EffectsAsked
PROPERTIES PromptReturns
