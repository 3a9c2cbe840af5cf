CONSTANTS
  Name <- MCName
  Tailnet = {"a"}
  Lower <- MCLower
  CIDR <- MCCIDR
  FQDN <- MCFQDN
  Zone = {"z"}
  NoZone = "none"
  Slot = {"s1", "s2"}
  CidrOf <- MCCidrOf
  DevOf <- MCDevOf
  Files <- MCFiles
  NoSlot = "noslot"
  NoName = "noname"
  Hosts <- MCHosts
  Selected <- MCSelected
  MaxEdits = 1
  MaxRestarts = 1
  MaxDrops = 0
  MaxPushes = 0
  MaxFaults = 0
  MaxMisses = 0
  Waits = 2
SPECIFICATION DaemonSpec
PROPERTY NeverLeftDark
CHECK_DEADLOCK FALSE
