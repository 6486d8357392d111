CONSTANTS
  Inputs <- MCInputs
  First = 1
  Stop = 2
  Withheld = {2}
  Enough <- MCEnough
  r1 = r1
  r2 = r2
  Runtime = {r1, r2}
  Covering = {r1}
  MaxFaults = 2
  None = None
  Torn = Torn
SPECIFICATION ProductSpec
INVARIANTS
  ObservationsAccounted
  AcceptedWasAssessed
PROPERTIES
  CheckpointsHold
  RunsSettle
