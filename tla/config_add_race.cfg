CONSTANTS
  Name = {"a", "b"}
  Slot = {1, 2}
  Client = {c1, c2}
  NoEntry = NoEntry
  MaxEntries = 3
  MaxRequests = 3
  MaxEdits = 0
  MaxFaults = 0
SYMMETRY Clients
SPECIFICATION CfgSpec
INVARIANT RangesDistinct
CHECK_DEADLOCK FALSE
