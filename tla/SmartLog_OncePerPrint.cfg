\* One line, printed once, and nothing else ever happens.
SPECIFICATION Spec
CONSTANTS
    Rule = rule
    Limit = 2
    Period = 2
    Delay = 1
    Latencies = {1}
    Catchups = {0}
    None = None
    MaxLines = 1
    MaxTime = 7
    MaxTouches = 0
    MaxRestarts = 0
CHECK_DEADLOCK FALSE
INVARIANT OncePerPrint
