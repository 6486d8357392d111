CONSTANTS
  r1 = r1
  r2 = r2
  r3 = r3
  Source = {1, 2, 3}
  Start <- MCStart
  End <- MCEnd
  SetupMargin = 3
  TeardownMargin = 3
  Run = {r1, r2, r3}
  Concurrent = FALSE
  ListsCanceled = FALSE
  Absent = Absent
SPECIFICATION SchedulerSpec
SYMMETRY MCSymmetry
CHECK_DEADLOCK FALSE
INVARIANTS
  AuditTruth
  LeftoverRecorded
  OneShadowEach
