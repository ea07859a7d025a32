SPECIFICATION ServerSpec
CONSTANTS
  MaxChunks = 2
  MaxBuilds = 2
  MaxClock = 2
  MaxLoads = 3
  MaxFaults = 1
INVARIANTS
  ServerTypeOK
  LoadsAreFresh
  ServedFromItsMount
  GateTellsTheTruth
CHECK_DEADLOCK FALSE
