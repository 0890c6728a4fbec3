SPECIFICATION FairSpec
CONSTANTS
    Parent = "parent"
    Child = "child"
    Successor = "successor"
    a = a
    c1 = c1
    c2 = c2
    s = s
    Workers <- MCWorkers
    Persistent = {"parent", "child"}
    Phases = 2
    Active = 2
    Budget = 2
    MaxAttempts = 2
    MaxFaults = 1
INVARIANTS
    PhaseIsolation
    RunningIsCounted
    CompleteIsExact
    NoFalseRefusal
ACTION_CONSTRAINT OneSite
PROPERTIES
    PlanEnds
CHECK_DEADLOCK FALSE
