SPECIFICATION Spec
CONSTANTS
  MaxRects = 2
  kWidth = 2
  kHeight = 2
  MaxDelta = 1
  MaxChanges = 3
  MaxFaults = 1
  MaxInTransit = 1
INVARIANTS
  TypeOK
  MirrorsTracked
