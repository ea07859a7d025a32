SPECIFICATION Spec
CONSTANTS
  None = None
  MaxWindows = 2
  MaxWasmCalls = 2
  MaxFetchFaults = 1
  Listeners = {f, g}
  NoListener = NoListener
  MaxCalls = 4
  MaxDepth = 2
  MaxPlayers = 2
  MaxSources = 2
  MaxMediaCalls = 1
INVARIANTS
  TypeOK
  InjectionSound
  ScanTellsTables
  LoadStateIsHonest
  MediaStateSound
  AcceptanceTellsTheTruth
PROPERTIES
  OnlyWantedAreCalled
  LoadingEnds
CHECK_DEADLOCK FALSE
