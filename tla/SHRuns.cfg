CONSTANTS
  Configs <- AllConfigs
  Debris <- SomeDebris
  MsPods = {p1}
  MaxCases = 2
CHECK_DEADLOCK FALSE
SPECIFICATION Spec
INVARIANTS HarnessTypeOK SweptAtStart PassedMeansSwept PoolsAtStart
