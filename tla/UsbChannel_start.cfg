SPECIFICATION Spec
CONSTANTS
  Writers = {w1}
  NoWriter = NoWriter
  OpenFaults = {}
  Spurious = FALSE
  MaxOpens = 1
INVARIANT
  PipelineRuns
CHECK_DEADLOCK FALSE
