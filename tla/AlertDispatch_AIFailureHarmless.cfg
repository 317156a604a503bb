\* One dispatch to one channel, with AI enrichment.
SPECIFICATION Spec
CONSTANTS
    Dispatches = {d1}
    c1 = c1
    c2 = c2
    Channels = {c1, c2}
    Members <- MCOne
    AI = TRUE
    RecordAlerts = TRUE
    MaxTries = 3
    Steps = 5
    MaxVersions = 1
CHECK_DEADLOCK FALSE
INVARIANT AIFailureHarmless
