SPECIFICATION Spec
CONSTANTS
    Ids = {i1, i2, i3}
    Targets = {t1}
    Leases = {l1, l2}
    NoLease = none
    MaxAttempts = 2
    Forces = {FALSE, TRUE}
    InFlight = 2
CONSTRAINT Bounds
VIEW View
SYMMETRY Symmetry
INVARIANTS
    EventNotLost
    ForceNotLost
    AttemptsBounded
PROPERTIES
    HandBackKeepsWork
    LostLeaseStaysLost
CHECK_DEADLOCK FALSE
