SPECIFICATION Spec
CONSTANTS
    g1 = g1
    g2 = g2
    g3 = g3
    g4 = g4
    g5 = g5
    s1 = s1
    s2 = s2
    Digests = {g1, g2, g3, g4, g5}
    Stages = {s1, s2}
    Specs <- MCSpecs
    Typed = {g4}
    Serial = {g5}
    MaxFanoutPage = 1
    MaxActiveStages = 2
    Workers = {w1, w2}
    Leases = {l1, l2}
    NoDigest = nodigest
    NoWorker = noworker
    NoLease = nolease
    InFlight = 2
CONSTRAINT Bounds
SYMMETRY Symmetry
INVARIANTS
    OneLiveAttempt
    CountersAgree
    SettlesExactly
    EvidenceIsTruthful
    ActiveIsCurrent
PROPERTIES
    FencedStaysFenced
CHECK_DEADLOCK FALSE
