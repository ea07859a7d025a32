SPECIFICATION TestSpec
CONSTANTS
  Origins = {o1, o2}
  Values = {empty, filled}
  Empty = empty
  NoBlob = NoBlob
  MaxChanges = 3
  MaxRestarts = 2
  MaxFaults = 2
  MaxMallocs = 1
  Site = o1
  Alive = filled
  MaxTimeouts = 1
INVARIANTS
  DetectorNotAhead
  PersistTestTellsTheTruth
PROPERTIES
  UnopenedOriginKept
  ProfileCatchesUp
CHECK_DEADLOCK FALSE
