SPECIFICATION RepoSpec
CONSTANTS
    MaxChanges = 1
    MaxHooks = 0
    MaxFaults = 2
    MaxCrashes = 0
INVARIANT SearchableHasBytes
