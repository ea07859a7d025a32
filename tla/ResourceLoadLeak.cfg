SPECIFICATION Spec
CONSTANTS
  Loads = {l1}
  Pings = {}
  Origins = {a, b}
  MaxRedirects = 1
INVARIANT ParkedRequestsDoNotLeak
CHECK_DEADLOCK FALSE
