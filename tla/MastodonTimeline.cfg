SPECIFICATION FairSpec
CONSTANTS
  Alphabet <- SomeAlphabet
  Timelines <- SomeTimelines
  ChunkSizes = {3, 20}
  SizeText <- Decimal
  RespBuf = 80
  ObjBuf = 45
  AccObjBuf = 8
  ContentBuf = 10
  StripBuf = 20
INVARIANTS TypeOK ShownTrue Released
PROPERTIES Ends
CHECK_DEADLOCK FALSE
