SPECIFICATION Spec
CONSTANTS
  Requests = {r1, r2}
  Adders = {t1, t2}
  Subjects = {s1, s2}
  Ids = {scott, doe}
  p1 = p1
  p1x = p1x
  Passwords = {p1, p1x}
  BeforeColon <- MCBeforeColon
  None = None
  Configurations <- MCConfigurations
  MaxUsers = 3
  MaxRestarts = 1
SYMMETRY MCSymmetry
CONSTRAINT InParts
INVARIANTS TypeOK LookupIsLastListed DecisionFits OwnPrincipal CertificateServes
           ErrorOnlyWithoutUser
PROPERTIES ReloadKeepsLogins
CHECK_DEADLOCK FALSE
