SPECIFICATION FairSpec
CONSTANTS
    N = 2
    MaxSpaces = 2
    MaxBad = 0
    Levels = {60}
    Estimates = {}
    MaxLitter = 1
    MaxShifts = 0
    MaxFaults = 0
PROPERTY ReturnsToIdle
