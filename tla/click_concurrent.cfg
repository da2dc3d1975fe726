SPECIFICATION Spec
CONSTANTS
  Requests = {r1, r2, r3}
  Addresses = {a1, a2}
  Workers = 2
  None = None
  MAX_CLICKSTREAMS = 1
SYMMETRY RequestSymmetry
CONSTRAINT TwoOrSound
INVARIANTS TypeOK EntriesAreSaved SplitOnlyByOverlap EndedHitsKept
PROPERTIES OnlyOldDropped
CHECK_DEADLOCK FALSE
