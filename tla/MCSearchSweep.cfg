SPECIFICATION Spec
CONSTANTS
    Revs = {A, B}
    None = None
    Partial = Partial
    MaxGen = 3
    MaxPushes = 1
    MaxFaults = 1
    MaxCrashes = 0
    RuntimeAudit = FALSE
INVARIANT ControlsAreWhole
CHECK_DEADLOCK FALSE
