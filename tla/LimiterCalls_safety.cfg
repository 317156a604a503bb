\* Two keys with different limits, three goroutines, one restart.
SPECIFICATION CallSpec
CONSTANTS
    k1 = k1
    k2 = k2
    c1 = c1
    c2 = c2
    c3 = c3
    Keys <- MCKeys
    Limit <- MCLimit
    Period <- MCPeriod
    Callers <- MCCallers
    Key <- MCKey
    NoCaller = NoCaller
    MaxTime = 5
    MaxRestarts = 1
SYMMETRY SameKey
INVARIANTS CallTypeOK WindowBound
PROPERTIES DenialJustified AtomicAllow
