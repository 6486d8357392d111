CONSTANTS
  MaxOffset = 1
  MaxStep = 2
  MaxRate = 1
  MaxDt = 2
  MinInterval = 1
  Deadband = 0
  Kp = 1
  Ki = 1
  Target <- MCTarget
  Acquired <- MCAcquired
  Outcomes = {"accepted", "refused", "unknown"}
  None = None
SPECIFICATION FairControllerSpec
INVARIANTS
  OffsetAccounted
PROPERTIES
  LimitsHold
  SilenceIsNoticed
