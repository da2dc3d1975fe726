SPECIFICATION Spec
CONSTANTS
  Addresses = {a1, a2}
  Localhost = Localhost
  NoAddress = NoAddress
  MAX_CLICKSTREAMS = 2
  LOGGING_TIME_PERIOD = 4
  MAX_SESSION_TIME = 2
  FLUSH_PERIOD = 1
  Minute = 1
  ReuseMinute = FALSE
  MaxTime = 5
  MaxHits = 6
  MaxRestarts = 0
PROPERTIES RotationKeepsYoung
CHECK_DEADLOCK FALSE
