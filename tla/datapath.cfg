CONSTANTS
  NoKey = NoKey
  Key = {k1, k2}
  MaxStarts = 2
  MaxFaults = 2
SPECIFICATION DpSpec
INVARIANT DpInv
PROPERTIES PumpDeathReported StopEnds LinkConfigured FlowReaped
CHECK_DEADLOCK FALSE
