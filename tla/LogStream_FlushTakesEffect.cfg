\* Logs of up to two lines.
SPECIFICATION FairSpec
CONSTANTS
    head = head
    quiet = quiet
    trace = trace
    blank = blank
    gap = gap
    huge = huge
    Kinds <- MCKinds
    Starts <- MCStarts
    Blank <- MCBlank
    TooLong = {huge}
    NRules = 3
    Language <- MCLanguage
    MaxLines = 2
CHECK_DEADLOCK FALSE
PROPERTY FlushTakesEffect
