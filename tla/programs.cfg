CONSTANTS
  UserLine = {u1, u2}
  HostsInputs <- MCHostsInputs
  MaxUserLines = 2
  RName <- MCRName
  Fold <- MCFold
  InDomain <- MCInDomain
  NoSNI = "none"
  Literal <- MCLiteral
  Configs <- MCConfigs
  PeerIP <- MCPeerIP
  RecordIP <- MCRecordIP
  LocalIP = "127"
  NoAnswer = "no answer"
  Machine <- MCMachine
  PSuffix <- MCPSuffix
  TsNet <- MCTsNet
  Wanted <- MCWanted
  DNSAnswer <- MCDNSAnswer
  Listener = {"http", "dns", "tcp"}
  Sturdy = {"dns"}
  MaxSignals = 2
SPECIFICATION ProgramsSpec
INVARIANTS NoAmbiguousName RequestsReachTheirHost PlugInv
PROPERTIES HostsFileKept PlugEnds
CHECK_DEADLOCK FALSE
