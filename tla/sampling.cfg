SPECIFICATION FairSpec
CONSTANTS
    Samples = {s1, s2}
    MaxAttempts = 1
    Renewal = 2
    MaxFaults = 1
    MaxRenewals = 1
INVARIANTS
    HistoryIsConsistent
    AllowanceIsUsable
PROPERTIES
    ImplementsBudget
    EverySampleSettles
CHECK_DEADLOCK FALSE
