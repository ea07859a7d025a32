SPECIFICATION Spec
CONSTANTS
  Origins = {o1, o2}
  Values = {empty, filled}
  Empty = empty
  NoBlob = NoBlob
  MaxChanges = 3
  MaxRestarts = 2
  MaxFaults = 2
  MaxMallocs = 0
PROPERTY UnvisitedNeverErased
CHECK_DEADLOCK FALSE
