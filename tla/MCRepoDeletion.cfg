SPECIFICATION RepoFairSpec
CONSTANTS
    MaxChanges = 3
    MaxHooks = 2
    MaxFaults = 2
    MaxCrashes = 1
INVARIANTS
    DeletedLeavesNothing
PROPERTIES
    OrphanGoes
    ClaimedIsServed
