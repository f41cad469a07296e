SPECIFICATION Spec
CONSTANTS
    Rids = {r1}
    Wids = {w1, w2}
    Handlers = {h1}
    ViolationLists <- ConductorViolations
    MaxRestarts = 1
INVARIANTS
    ReportsAreTrue
    NoSilentRemoval
PROPERTIES
    NoReportAfterWithdrawal
CHECK_DEADLOCK FALSE
SYMMETRY Symmetry
