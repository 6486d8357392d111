CONSTANTS
  SweepMin <- MCSweepMin
  SweepMax = 4
  SweepStep = 2
  Tolerance = 1
  Settle = 1
  MaxAge = 2
  Consecutive = 2
  None = None
SPECIFICATION FairAcquisitionSpec
INVARIANTS
  ProbedWindow
PROPERTIES
  OffsetAccounted
  PassEnds
