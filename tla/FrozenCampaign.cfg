CONSTANTS
  new = new
  old = old
  w2 = w2
  w1 = w1
  f3 = f3
  f2 = f2
  f1 = f1
  Fit = {f1, f2, f3}
  Unfittable = {f3}
  Worker = {w1, w2}
  PoolSize = 2
  Code = {old, new}
  Data = {old, new}
  Installed <- MCInstalled
  Patient = TRUE
  MaxFaults = 2
  Torn = Torn
  None = None
SPECIFICATION CampaignSpec
INVARIANTS
  PreparedAndWhole
PROPERTIES
  CheckpointsKept
  PreparedPublishes
