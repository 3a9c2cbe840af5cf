CONSTANTS
  Name <- MCName
  Tailnet = {"a"}
  Lower <- MCLower
  CIDR <- MCCIDR
  FQDN <- MCFQDN
  Zone = {"z"}
  NoZone = "none"
  Slot = {"s1", "s2"}
  CidrOf <- MCCidrOf
  DevOf <- MCDevOf
  Files <- MCFiles
  NoSlot = "noslot"
  NoName = "noname"
  Hosts <- MCHosts
  Selected <- MCSelected
  MaxEdits = 2
  MaxRestarts = 1
  MaxDrops = 1
  MaxPushes = 1
  MaxFaults = 1
  MaxMisses = 0
  Waits = 2
SPECIFICATION DaemonSpec
INVARIANT LiveMatchesConfig
PROPERTIES OperationsEnd ParkedStartRecovers
CHECK_DEADLOCK FALSE
