SPECIFICATION FairSpec
CONSTANTS
  Loads = {l1}
  Pings = {p1}
  Origins = {a, b}
  MaxRedirects = 1
INVARIANTS TypeOK LoaderContract OneTransfer LegsSound
PROPERTIES LoadsEnd
CHECK_DEADLOCK FALSE
