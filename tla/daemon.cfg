CONSTANTS
  Name <- MCName
  Tailnet = {"a", "b"}
  Lower <- MCLower
  CIDR <- MCCIDR
  FQDN <- MCFQDN
  Zone = {"z"}
  NoZone = "none"
  Slot = {"s1", "s2", "s3"}
  CidrOf <- MCCidrOf
  DevOf <- MCDevOf
  Files <- MCFiles
  NoSlot = "noslot"
  NoName = "noname"
  Hosts <- MCHosts
  Selected <- MCSelected
  MaxEdits = 2
  MaxRestarts = 0
  MaxDrops = 0
  MaxPushes = 0
  MaxFaults = 0
  MaxMisses = 1
  Waits = 1
SPECIFICATION DaemonSpec
INVARIANTS DaemonInv SlotsExclusive HostsNeverMislead HostsCompleteAtFirst
CHECK_DEADLOCK FALSE
