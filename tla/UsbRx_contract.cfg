SPECIFICATION FairSpec
CONSTANTS
  Sizes = {2, 4, 6, 9}
  MaxRx = 8
  MaxPacket = 4
  MaxStream = 6
INVARIANTS
  TypeOK
  WholeAnswerIsRead
  FirstByteIsFresh
PROPERTIES
  WaitEnds
CHECK_DEADLOCK FALSE
