SPECIFICATION Spec
CONSTANTS
  Servers = {s1, s2}
  Clients = {c1, c2}
  NoServer = NoServer
  Expiring = {s1, s2}
  LastPort = 2
  CreateMayFail = TRUE
  StartMayError = TRUE
  Spurious = TRUE
SYMMETRY ServerSymmetry
INVARIANTS TypeOK FailedStartNeverRuns
CHECK_DEADLOCK FALSE
