SPECIFICATION FairSpec
CONSTANTS
    Revs = {A, B}
    None = None
    Partial = Partial
    MaxGen = 3
    MaxPushes = 1
    MaxFaults = 2
    MaxCrashes = 1
    RuntimeAudit = TRUE
INVARIANTS VisibleMatchesRow RowIsSelectable
PROPERTY Converges
