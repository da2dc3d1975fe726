SPECIFICATION Spec
CONSTANTS
  Addresses = {a1, a2}
  Localhost = Localhost
  NoAddress = NoAddress
  MAX_CLICKSTREAMS = 2
  LOGGING_TIME_PERIOD = 3
  MAX_SESSION_TIME = 2
  FLUSH_PERIOD = 2
  Minute = 2
  ReuseMinute = FALSE
  MaxTime = 4
  MaxHits = 4
  MaxRestarts = 1
SYMMETRY AddressSymmetry
INVARIANTS TypeOK MapAgreesWithList OneStreamPerVisitor
PROPERTIES OldHitsSaved SavedHitsStay
CHECK_DEADLOCK FALSE
