SPECIFICATION FairRuntime
CONSTANTS
    q1 = q1
    q2 = q2
    b1 = b1
    b2 = b2
    b3 = b3
    b4 = b4
    Questions = {q1, q2}
    Branches = {b1, b2, b3, b4}
    ParentOf <- Calls
    SamplesOf <- OneAndThree
    Runners = {n1, n2}
    Coordinators = 2
    Workers = 1
    RequestCap = 1
    MaxHitches = 1
INVARIANTS
    UnwindsInOrder
PROPERTIES
    GroupsAlternate
    EverythingEnds
CHECK_DEADLOCK FALSE
