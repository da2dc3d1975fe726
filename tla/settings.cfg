SPECIFICATION Spec
CONSTANTS
  Ports = {8080, 8081}
  TimeOuts <- MCTimeOuts
  OptionValues = {"verbose", "quiet"}
  DefaultPort = 8080
  DefaultTimeOut = 4
  Configs <- MCConfigs
  None = None
  Missing = Missing
  Roots = {"root"}
  ClassPaths = {"static", "images"}
  TicksPerSecond = 2
  MaxInt = 7
  MaxLong = 31
  MaxStarts = 2
INVARIANTS TypeOK ConfigDecides
PROPERTIES LoopEnds NeverEarly
CHECK_DEADLOCK FALSE
