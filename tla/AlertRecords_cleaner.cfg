\* Two records, the operator's clock one tick ahead at most, one event.
SPECIFICATION FairSpec
CONSTANTS
    MaxLabel = 2
    Names = {n1, n2}
    RuleNames <- MCRuleNames
    Durations = {1}
    Bad = Bad
    Empty = Empty
    None = None
    Ahead = 1
    MaxTime = 2
    MaxEvents = 2
CHECK_DEADLOCK FALSE
INVARIANTS TypeOK RefusedOnlyWhenCut
PROPERTIES KeepsUnexpired ExpiredGoes
