SPECIFICATION FairSpec
CONSTANTS
    N = 2
    MaxSpaces = 2
    MaxBad = 1
    Levels = {60, 78}
    Estimates = {12}
    MaxLitter = 1
    MaxShifts = 1
    MaxFaults = 1
INVARIANTS
    IdleIsEarned
PROPERTIES
    Collected
    LatchReleases
