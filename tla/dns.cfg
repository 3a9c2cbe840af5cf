CONSTANTS
  Name <- MCName
  Lower <- MCLower
  CIDR <- MCCIDR
  FQDN <- MCFQDN
  Zone <- MCZone
  NoZone = NoZone
  Query <- MCQuery
  Domain <- MCDomain
  Suffix <- MCSuffix
  Peers <- MCPeers
  TailnetIP <- MCTailnetIP
SPECIFICATION DnsSpec
INVARIANTS DnsInv NamesMatchIPs NoOrphanIP NoAddressWasted ReachesAsked PublicNamesKept
PROPERTY StableWhileRegistered
