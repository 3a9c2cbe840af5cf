CONSTANTS
  Listener = {"http", "dns", "tcp"}
  Sturdy = {"dns"}
  MaxSignals = 2
SPECIFICATION PlugSpec
PROPERTY SignalEnds
CHECK_DEADLOCK FALSE
