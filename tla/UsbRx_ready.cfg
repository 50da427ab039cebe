SPECIFICATION Spec
CONSTANTS
  Sizes = {2, 4}
  MaxRx = 8
  MaxPacket = 4
  MaxStream = 8
INVARIANTS
  ReadyMeansReceived
