SPECIFICATION Spec
CONSTANTS
    Ids = {i1, i2}
    Targets = {t1}
    Leases = {l1, l2}
    NoLease = none
    MaxAttempts = 2
    Forces = {FALSE}
    Workers = {w1, w2}
    NoJob = nojob
    MaxFaults = 1
    MaxYields = 0
VIEW View
SYMMETRY Symmetry
PROPERTIES
    QueueSpec
    FailureConsumesRecovery
    NoEarlyFailure
