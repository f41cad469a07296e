CONSTANTS
  None = None
  c1 = c1
  Calls = {c1}
  Inputs <- CallInputs
  Schemes = {"http", "https"}
  Mains = {"director", "monitor"}
  MaxSignals = 2
SPECIFICATION FairSpec
CHECK_DEADLOCK FALSE
INVARIANT ShutdownInOrder CallsArriveIntact
PROPERTY InterruptedEnds
