SPECIFICATION FairSpec
CONSTANTS
    Rids = {r1}
    Wids = {w1}
    Handlers = {h1, h2}
    ViolationLists <- ConductorViolations
    MaxRestarts = 1
PROPERTIES
    AbsenceIsReported
    RequestsAreServed
CHECK_DEADLOCK FALSE
