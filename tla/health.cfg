CONSTANTS
  Name = {"a"}
  Route = {"r"}
  NoRoute = "offline"
  NoName = "noname"
  UnhealthyAfter = 1
  RestartCooldown = 2
  Blips = FALSE
  MaxRequests = 2
  MaxDeaths = 1
SPECIFICATION HealthSpec
INVARIANT HealthInv
PROPERTIES RestartsSpaced DarkNodeRestarted NetworkChangeHandled
