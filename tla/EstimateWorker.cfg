CONSTANTS
  w1 = w1
  p1 = p1
  p2 = p2
  Job = {j1}
  WorkerId = {w1}
  NoOne = NoOne
  NoClaim = NoClaim
  Worker = {p1, p2}
  MaxAttempts = 3
  LeaseTicks = 2
  BackoffTicks <- MCBackoffTicks
  IdOf <- MCIdOf
SPECIFICATION FairWorkerSpec
INVARIANTS
  OwnerShown
  InputsFrozenOnce
PROPERTIES
  ImplementsQueue
  JobsFinish
  CancellationWins
