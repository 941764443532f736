SPECIFICATION Spec
CONSTANTS
  Parties = {1, 2}
  Peers <- MCPeers
  Contents = {"retail", "other"}
  Lengths = {1, 2, 4}
  NormalSize = 2
  CecdSize = 3
  MaxLoads = 2
INVARIANTS
  TypeOK
  Layered
  AgreeOnceLoaded
CHECK_DEADLOCK FALSE
