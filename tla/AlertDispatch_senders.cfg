\* One dispatch to a group of two channels, with AI enrichment, fair scheduling.
SPECIFICATION FairSpec
CONSTANTS
    Dispatches = {d1}
    c1 = c1
    c2 = c2
    Channels = {c1, c2}
    Members <- MCTwo
    AI = TRUE
    RecordAlerts = TRUE
    MaxTries = 3
    Steps = 5
    MaxVersions = 2
CHECK_DEADLOCK FALSE
INVARIANTS RecordJustified DuplicatesExplained
PROPERTIES DispatchEnds AIOnlyDelays WorkShrinks
