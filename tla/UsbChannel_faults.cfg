SPECIFICATION FairSpec
CONSTANTS
  Writers = {w1, w2}
  NoWriter = NoWriter
  OpenFaults = {"init", "device", "detach", "claim", "txalloc", "rxalloc"}
  Spurious = TRUE
  MaxOpens = 3
INVARIANTS
  TypeOK
  BufferOwnedUntilDone
  SignalIsForItsWriter
  ContextOutlivesPipeline
  MisuseIsExplained
  LossesAreExplained
  ClosedIsClean
PROPERTIES
  WrittenBytesWereSent
  WriteCompletes
  CloseCompletes
\* A destroyed channel stops, and a write whose pipeline thread has ended hangs.
CHECK_DEADLOCK FALSE
