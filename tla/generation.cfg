SPECIFICATION FairSpec
CONSTANTS
    NItems = 2
    InitialLimit = 1
    MaxConcurrency = 2
    Growth = {1}
    MaxAttempts = 2
    MaxEdits = 1
    MaxRuns = 2
INVARIANTS
    FileIsSound
PROPERTIES
    NothingIsLost
    CommandsEnd
CHECK_DEADLOCK FALSE
