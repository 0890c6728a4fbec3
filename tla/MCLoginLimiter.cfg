SPECIFICATION LimiterSpec
CONSTANTS
    Keys = {k1, k2, k3}
    Requests = {r1, r2, r3}
    Max = 2
    Window = 2
    MaxEntries = 2
    ArgonSlots = 1
INVARIANTS
    ReservationsCounted
    WithinBudget
PROPERTIES
    FailuresStand
