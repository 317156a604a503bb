\* Single-line and multiline mode, logs of up to four lines, fair scheduling.
SPECIFICATION FairSpec
CONSTANTS
    head = head
    quiet = quiet
    trace = trace
    blank = blank
    gap = gap
    huge = huge
    Kinds <- MCKinds
    Starts <- MCStarts
    Blank <- MCBlank
    TooLong = {huge}
    NRules = 3
    Language <- MCLanguage
    MaxLines = 4
CHECK_DEADLOCK FALSE
INVARIANTS TypeOK NoLoss InOrder SplitOnlyByFlush AlertedOnce
PROPERTIES CancelEnds LineSurfaces
