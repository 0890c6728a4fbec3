SPECIFICATION LeaseSpec
CONSTANTS
    Period = 5
    CallTimeout = 5
    StaleAfter = 20
    Margin = 0
    StartDelay = 0
    Horizon = 40
INVARIANT InsideCutoff
