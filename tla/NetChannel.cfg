SPECIFICATION Spec
CONSTANTS
  Texts4 = {"host4"}
  Texts6 = {"host6"}
  OtherTexts = {}
  Ports = {70536}
  Sizes = {2}
  MaxMade = 2
  MaxInbox = 2
  Users = {"channel", "caller", "namer"}
  Timeouts = {0, 500}
  Lengths = {2}
  MaxRequests = 2
INVARIANTS
  NetTypeOK
  OwnAnswer
  PeerIsGiven
  SocketsAccounted
PROPERTIES
  CallsReturn
\* A process that followed a null pointer does nothing more.
CHECK_DEADLOCK FALSE
