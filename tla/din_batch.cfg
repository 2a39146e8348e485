SPECIFICATION FairSpec
CONSTANTS
    q1 = q1
    q2 = q2
    Members <- TwoGroups
    Nested <- NestedFirst
    Outputs <- TwoOutputs
    Legacy <- Accepted
    Part = 1
    Whole = 2
    MaxAttempts = 2
    MaxReruns = 2
    MaxFaults = 2
INVARIANTS
    VersionsAreSound
PROPERTIES
    NothingPaidTwice
    ScopeSettles
