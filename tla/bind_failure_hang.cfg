SPECIFICATION FairSpec
CONSTANTS
  Servers = {s1, s2}
  Clients = {c1}
  NoServer = NoServer
  Expiring = {}
  LastPort = 2
  CreateMayFail = FALSE
  StartMayError = FALSE
  Spurious = FALSE
PROPERTIES BindFailureReported
CHECK_DEADLOCK FALSE
