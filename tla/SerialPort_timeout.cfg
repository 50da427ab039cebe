SPECIFICATION FairSpec
CONSTANTS
  Platforms = {"linux"}
  Sizes = {1, 2}
  Timeouts = {2}
  MaxQueue = 2
  MaxOpens = 2
  MaxElapsed = 3
PROPERTY
  TimedWaitReturns
CHECK_DEADLOCK FALSE
