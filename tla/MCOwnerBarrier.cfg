SPECIFICATION FairSpec
CONSTANTS
    Loops = {l1, l2, l3}
    Requests = {r1}
    Limit <- MCLimit
    MaxGeneration = 2
    NoSlot = NoSlot
INVARIANTS QuiescenceIsReal TurnOwnsSlot NoLostWakeup
PROPERTY DrainEnds
CHECK_DEADLOCK FALSE
