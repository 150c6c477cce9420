SPECIFICATION FairSpec
CONSTANTS
  InBuf = 5
  PayBuf = 2
  MsgBuf = 4
  MaxHdr = 3
  LongMax = 5
  HeadLens = {4}
  Shapes <- Feeds
  EoseExit = TRUE
  Interrupts = TRUE
  MaxFrames = 3
  MaxBytes = 11
INVARIANTS TypeOK StreamIntact RoomToRead MessagesIntact NothingMissed
PROPERTIES ImplementsFeed SessionEnds
