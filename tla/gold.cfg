SPECIFICATION FairSpec
CONSTANTS
    Runners = {r1, r2}
    NumBatches = 2
    PilotSize = 1
    Workers = 2
    MaxAttempts = 2
    MaxFaults = 1
INVARIANTS
    AnnotationIsSound
PROPERTIES
    LabelsAreFinal
    EveryBatchSettles
