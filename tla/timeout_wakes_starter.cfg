SPECIFICATION Spec
CONSTANTS
  Servers = {s1, s2, s3}
  Clients = {c1}
  NoServer = NoServer
  Expiring = {s1}
  LastPort = 2
  CreateMayFail = FALSE
  StartMayError = FALSE
  Spurious = FALSE
INVARIANTS BusyPortReported
CHECK_DEADLOCK FALSE
