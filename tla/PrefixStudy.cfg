CONSTANTS
  o1 = o1
  Contact = {1, 2, 3}
  Instant = {0, 1, 2, 3}
  Collection = 2
  Rolling = 2
  Threshold = {2, 3}
  Error = {1, 4}
  Infinity = 1000
  Others = {o1}
  Nothing = Nothing
SPECIFICATION StudySpec
CHECK_DEADLOCK FALSE
INVARIANTS
  CausalFits
  ReportEarned
