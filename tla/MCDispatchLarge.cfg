SPECIFICATION Spec
CONSTANTS
    Parent = "parent"
    Child = "child"
    Successor = "successor"
    a = a
    c1 = c1
    c2 = c2
    s = s
    Workers <- MCAllWorkers
    Persistent = {"parent", "child"}
    Phases = 2
    Active = 2
    Budget = 2
    MaxAttempts = 3
    MaxFaults = 1
SYMMETRY MCSymmetry
INVARIANTS
    PhaseIsolation
    RunningIsCounted
    CompleteIsExact
    NoFalseRefusal
CHECK_DEADLOCK FALSE
