SPECIFICATION LeaseSpec
CONSTANTS
    Period = 5
    CallTimeout = 5
    StaleAfter = 20
    Margin = 5
    StartDelay = 5
    Horizon = 40
INVARIANT InsideCutoff
