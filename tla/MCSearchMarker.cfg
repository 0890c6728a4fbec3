SPECIFICATION Spec
CONSTANTS
    Revs = {A, B}
    None = None
    Partial = Partial
    MaxGen = 3
    MaxPushes = 1
    MaxFaults = 0
    MaxCrashes = 1
    RuntimeAudit = FALSE
INVARIANT MarkerResolvable
CHECK_DEADLOCK FALSE
