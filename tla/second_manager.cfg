SPECIFICATION Spec
CONSTANTS
  Requests = {r1, r2}
  Addresses = {a1}
  Workers = 2
  None = None
  MAX_CLICKSTREAMS = 1
SYMMETRY RequestSymmetry
INVARIANTS OneManager
CHECK_DEADLOCK FALSE
