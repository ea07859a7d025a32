SPECIFICATION GateSpec
CONSTANTS
  EngineDepth = 3
  PageDepth = 2
  MaxVersion = 3
  MaxFaults = 1
  MaxTimeouts = 1
INVARIANTS
  CreditsConserved
  LatestFrameAccounted
  Gate8TellsTheTruth
PROPERTIES
  ScreenCatchesUp
  ReloadsEnd
CHECK_DEADLOCK FALSE
