SPECIFICATION WorkSpec
CONSTANTS
  Idle = Idle
  n1 = n1
  n2 = n2
  o1 = o1
  o2 = o2
  Nodes <- MCNodes
  Objs <- MCObjs
  AddrLists <- MCAddrLists
  MaxRpcTries = 3
  MaxOps = 1
  MaxChanges = 1
  Disks = {0, 1, 2}
  Works = {"offline", "kill", "device", "replicas", "both", "all"}
  MaxPolls = 2
  MaxPuts = 2
  Workers = {"w1", "w2"}
  Monitor = "monitor"
  None = None
  MaxRounds = 1
  Pools = {"p1", "p2"}
  MaxAttempts = 2
INVARIANTS
  
  SuccessLeavesNothingLate
  DevicesRestored
  FaultsToldOnce
  ErrorsCollected
PROPERTIES
  ReplicaWorkEnds
  NoPoolDeletedInUse
CHECK_DEADLOCK FALSE
