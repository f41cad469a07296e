SPECIFICATION ProvisionSpec
CONSTANTS
  None = None
  Masters <- TwoMasters
  Replicas = {"r1", "r2"}
  MaxTries = 2
  Nil = Nil
  Parts = {"container", "volume", "deployment", "pod", "sc"}
  MaxBuilderCalls = 3

  
PROPERTIES
  PluginNotMisread
  CallsReturn
  BuildRefusesTheIncomplete
  
CHECK_DEADLOCK FALSE
