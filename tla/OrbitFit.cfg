SPECIFICATION EstimateSpec
CONSTANTS
  Contact = {1, 2, 3}
  Antenna = {1, 2}
  Craft = {1, 2}
  Ephemeris = {1, 2, 3}
  Worlds <- MCWorlds
  Requests <- MCRequests
  PoolSize = 2
  MaxFaults = 2
  None = None
  Leading <- MCHead
  Closing <- MCTail
  Profiles <- MCProfiles
  Candidates = {0, 1}
  Costs = {0, 1}
  MaxEvaluations = 3
CHECK_DEADLOCK FALSE
INVARIANTS
  InputsAsRequested
  FailuresAreTrue
  RowsAreOfTheFit
PROPERTIES
  EstimateEnds
