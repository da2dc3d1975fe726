SPECIFICATION FairSpec
CONSTANTS
  Servers = {s1}
  Clients = {c1}
  NoServer = NoServer
  Expiring = {s1}
  LastPort = 2
  CreateMayFail = TRUE
  StartMayError = TRUE
  Spurious = FALSE
INVARIANTS StoppedIsSilent NoOrphanListener
PROPERTIES TimeoutShutsDown
CHECK_DEADLOCK FALSE
