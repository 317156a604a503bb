\* One MonitorPod and two Pods, two events of any kind.
SPECIFICATION Spec
CONSTANTS
    Keys = {k1}
    p1 = p1
    p2 = p2
    Pods = {p1, p2}
    sAll = sAll
    sOne = sOne
    sBad = sBad
    Specs <- MCSpecs
    Selects <- MCSelects
    Loops = {l1, l2}
    Streams = {s1, s2, s3}
    None = None
    MaxEvents = 2
SYMMETRY Symmetry
INVARIANTS
    TypeOK
    OneLiveLoop
    NoDoubleStream
    NoOrphanStream
    SettledMonitor
    SettledStatus
PROPERTIES ReadsAsTold
CHECK_DEADLOCK FALSE
