SPECIFICATION FairSpec
CONSTANTS
  MaxImmediatePumpBurst = 1
  PollDelay = 1
  GuestDelay = 2
  Never = Never
  MaxWork = 2
INVARIANTS
  TypeOK
  NothingStranded
PROPERTIES
  WorkTakenUp
  PumpYields
