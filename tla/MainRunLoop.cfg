SPECIFICATION FairRunLoopSpec
CONSTANTS
  Requests = {r1, r2}
  MaxMessages = 3
  MaxDecodes = 3
  MaxStops = 1
INVARIANTS
  RunLoopTypeOK
  WorkerMessageOrder
PROPERTIES
  TasksDone
CHECK_DEADLOCK FALSE
