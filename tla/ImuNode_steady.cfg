SPECIFICATION NodeFairSpec
CONSTANTS
  Node = node
  Clients = {node}
  NoClient = NoClient
  Kinds = {"raw", "processed"}
  Faults = {"lost", "rxerr"}
  MaxRequests = 6
  MaxConnects = 1
INVARIANTS
  SamplesFollowSamples
  StrictlyNewer
  ReadIsPublished
PROPERTIES
  ImplementsRequestSpec
  ShutdownCompletes
CHECK_DEADLOCK FALSE
