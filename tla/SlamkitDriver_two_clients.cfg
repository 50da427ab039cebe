SPECIFICATION Spec
CONSTANTS
  Clients = {c1, c2}
  c1 = c1
  c2 = c2
  NoClient = NoClient
  Kinds = {"raw"}
  Faults = {}
  MaxRequests = 2
  MaxConnects = 1
INVARIANTS
  AnswerIsOwn
CHECK_DEADLOCK FALSE
