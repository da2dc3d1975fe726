SPECIFICATION FairSpec
CONSTANTS
  Servers = {s1, s2, s3}
  Clients = {c1}
  NoServer = NoServer
  Expiring = {}
  LastPort = 3
  CreateMayFail = TRUE
  StartMayError = FALSE
  Spurious = FALSE
INVARIANTS StartedOrFailed NoStopCollision NoOrphanListener StoppedForGood
PROPERTIES ExceptionSticks KeepsContract StopEndsThread
CHECK_DEADLOCK FALSE
