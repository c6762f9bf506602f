SPECIFICATION FairSpec
CONSTANTS
  RECONNECT_PERIOD = 5
  POLL_TIMEOUT = 1
INVARIANTS
  TypeOK
  HoldsItsDescriptor
PROPERTIES
  ReadsAgain
  ReconnectsApart
  SpinEnds
  DestructorEnds
