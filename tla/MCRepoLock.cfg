SPECIFICATION FairSpec
CONSTANTS
    Callers = {p1, p2, p3}
    Names <- MCNames
    Fold <- MCFold
    Entries = {e1, e2, e3}
    NoEntry = NoEntry
INVARIANT MutualExclusion
PROPERTY WaiterServed
