CONSTANTS
  j1 = j1
  j2 = j2
  w1 = w1
  w2 = w2
  Job = {j1, j2}
  WorkerId = {w1, w2}
  NoOne = NoOne
  MaxAttempts = 2
  LeaseTicks = 2
  BackoffTicks <- MCBackoffTicks
SPECIFICATION Spec
SYMMETRY MCSymmetry
INVARIANTS
  TablesAgree
PROPERTIES
  FencedEffects
  NothingRevives
  ImplementsLifecycle
