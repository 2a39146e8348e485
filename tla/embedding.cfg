SPECIFICATION FairService
CONSTANTS
    Texts = {"short", "other", "long"}
    Tokens <- MCTokens
    Direct = {"c1"}
    Mapped <- MCMapped
    Want <- MCWant
    BatchSize = 2
    Target = 3
    Cap = 2
    MapWorkers = 2
    Budget = 3
    TightBudget = 2
    Window = 2
    Counts = {0, 4}
    MaxTries = 2
    MaxFaults = 1
    MaxOpens = 1
INVARIANTS
    TextsAreAccounted
    BudgetIsKept
PROPERTIES
    LargeTextsAreServed
    CloseEnds
CHECK_DEADLOCK FALSE
