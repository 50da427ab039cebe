SPECIFICATION Spec
CONSTANTS
  Clients = {c1, c2}
  c1 = c1
  c2 = c2
  NoClient = NoClient
  Kinds = {"raw", "info"}
  Faults = {"lost", "late", "rxerr", "reconnect"}
  MaxRequests = 3
  MaxConnects = 2
SYMMETRY Symmetry
INVARIANTS
  TypeOK
  NoTornAnswer
PROPERTIES
  NeverOlder
CHECK_DEADLOCK FALSE
