\* Two lines, one event from outside, one restart, at every pace.
SPECIFICATION Spec
CONSTANTS
    Rule = rule
    Limit = 2
    Period = 2
    Delay = 1
    Latencies = {0, 1, 2}
    Catchups = {0, 1}
    None = None
    MaxLines = 2
    MaxTime = 7
    MaxTouches = 1
    MaxRestarts = 1
CHECK_DEADLOCK FALSE
INVARIANTS TypeOK ReplayBounded LapseFree NothingMissed
