SPECIFICATION NodeSpec
CONSTANTS
  Node = node
  Clients = {node}
  NoClient = NoClient
  Kinds = {"raw", "processed"}
  Faults = {"lost"}
  MaxRequests = 4
  MaxConnects = 1
INVARIANTS
  PublishedIsSample
CHECK_DEADLOCK FALSE
