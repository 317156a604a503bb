\* One MonitorPod and one Pod under fair scheduling.
SPECIFICATION FairSpec
CONSTANTS
    Keys = {k1}
    p1 = p1
    p2 = p2
    Pods = {p1}
    sAll = sAll
    sOne = sOne
    sBad = sBad
    Specs <- MCSpecs
    Selects <- MCSelects
    Loops = {l1, l2}
    Streams = {s1, s2}
    None = None
    MaxEvents = 2
PROPERTIES DeletedStops KeepsStreaming
CHECK_DEADLOCK FALSE
