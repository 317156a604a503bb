\* Two dispatches with one sender each and the reconciler update one MonitorPod.
SPECIFICATION Spec
CONSTANTS
    Dispatches = {d1, d2}
    c1 = c1
    c2 = c2
    Channels = {c1, c2}
    Members <- MCOne
    AI = FALSE
    RecordAlerts = TRUE
    MaxTries = 2
    Steps = 3
    MaxVersions = 3
SYMMETRY Symmetry
CHECK_DEADLOCK FALSE
INVARIANTS TypeOK NoLostCount
PROPERTIES KeepsOutcome
