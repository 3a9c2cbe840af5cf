CONSTANTS
  Peer = {"p"}
  Service = {"svc:s"}
  Node = {x, y}
  NoNode = "nonode"
  NameRule = {"host:p"}
  LiveRule = {"tag:t"}
  Covers <- MCCovers
  Nobody = "nobody"
  MaxWrites = 3
  MaxChanges = 2
  MaxFaults = 1
SYMMETRY Nodes
SPECIFICATION SelSpec
INVARIANTS SelInv LinesCurrent
PROPERTIES PinsHold LockedKeepsLine
CHECK_DEADLOCK FALSE
