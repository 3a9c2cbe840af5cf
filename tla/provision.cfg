CONSTANTS
  Name = {"a", "b"}
  Dir <- MCDir
  Base = "base"
  Below <- MCBelow
  DefaultDir <- MCDefaultDir
  NoDir = "nodir"
  NoName = "noname"
  MaxEdits = 1
  MaxLocking = 1
  MaxCrashes = 1
SPECIFICATION ProvisionSpec
INVARIANT ProvisionInv
PROPERTIES OthersUntouched LockedKept Consent
