SPECIFICATION FairSpec
CONSTANTS
    r1 = r1
    r2 = r2
    r3 = r3
    g1 = g1
    g2 = g2
    Requests = {r1, r2, r3}
    Groups = {g1, g2}
    GroupOf <- TwoGroups
    Delayed <- Retries
    Cap = 1
    MaxTroubles = 2
INVARIANTS
    RequestsAreAccounted
PROPERTIES
    TurnsAlternate
    ImplementsPort
CHECK_DEADLOCK FALSE
