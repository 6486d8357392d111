CONSTANTS
  p1 = p1
  p2 = p2
  c1 = c1
  c2 = c2
  o1 = o1
  o2 = o2
  Process = {p1, p2}
  Craft = {c1, c2}
  Output = {o1, o2}
  Sources <- MCSources
  Fits = 1
  MaxFaults = 1
  MaxStarts = 3
  None = None
SPECIFICATION StudySpec
SYMMETRY Same
CHECK_DEADLOCK FALSE
INVARIANTS
  FitsUseFrozenInputs
  PublishedIsWhole
PROPERTIES
  NothingIsLost
