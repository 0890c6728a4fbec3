SPECIFICATION FairSpec
CONSTANTS
    Ids = {i1, i2}
    Targets = {t1, t2}
    Leases = {l1, l2}
    NoLease = none
    MaxAttempts = 2
    Forces = {FALSE}
    Workers = {w1}
    NoJob = nojob
    MaxFaults = 1
    MaxYields = 1
ACTION_CONSTRAINT InOrder
PROPERTIES
    EventClaimed
    LeaseEnds
