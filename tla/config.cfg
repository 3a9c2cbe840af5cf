CONSTANTS
  Name = {"a", "b"}
  Slot = {1, 2}
  Client = {c1, c2}
  NoEntry = NoEntry
  MaxEntries = 3
  MaxRequests = 3
  MaxEdits = 1
  MaxFaults = 1
SYMMETRY Clients
SPECIFICATION CfgSpec
INVARIANTS CfgInv PatchServes DriftSeen
PROPERTY OthersKept
CHECK_DEADLOCK FALSE
