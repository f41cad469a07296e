SPECIFICATION FleetSpec
CONSTANTS
  Idle = Idle
  h1 = h1
  h2 = h2
  N = 2
  Hosts <- MCHosts
  Rounds = 2
  Attempts = 3
  MaxCalls = 1
  MaxWrites = 3
INVARIANTS
  WaitsAreEarned
  NoFalseTimeout
  RestartReplacesAll
  HelpersDeliver
PROPERTIES
  OthersChangesKept
  HelpersReturn
CHECK_DEADLOCK FALSE
