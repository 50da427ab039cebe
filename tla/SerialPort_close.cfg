SPECIFICATION FairSpec
CONSTANTS
  Platforms = {"linux", "macOS", "windows"}
  Sizes = {1, 2}
  Timeouts = {0, 2}
  MaxQueue = 2
  MaxOpens = 2
  MaxElapsed = 3
INVARIANTS
  TypeOK
  ReadyIsQueued
  DescriptorsOwned
  NoStaleCancel
PROPERTIES
  TimeoutNotEarly
  SilentWaitEnds
  CloseEndsWait
\* An aborted process does nothing more.
CHECK_DEADLOCK FALSE
