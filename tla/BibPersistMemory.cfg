SPECIFICATION Spec
CONSTANTS
  Origins = {o1, o2}
  Values = {empty, filled}
  Empty = empty
  NoBlob = NoBlob
  MaxChanges = 3
  MaxRestarts = 2
  MaxFaults = 0
  MaxMallocs = 1
INVARIANT DetectorNeverAhead
CHECK_DEADLOCK FALSE
