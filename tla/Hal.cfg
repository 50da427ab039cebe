SPECIFICATION HalFairSpec
CONSTANTS
  Waiters = {w1, w2}
  AutoReset = TRUE
  Spurious = FALSE
  MaxSets = 3
  Platforms = {"linux", "macOS"}
  Limits <- HalLimits
  Times <- HalTimes
INVARIANTS
  HalTypeOK
  Exclusion
  NoLostWakeup
  DeadlineExact
PROPERTIES
  ImplementsEventSpec
  TimedCallsReturn
\* Nobody promises a set(): a wait without a deadline may last for ever.
CHECK_DEADLOCK FALSE
