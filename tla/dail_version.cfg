SPECIFICATION FairSpec
CONSTANTS
    Samples = {1}
    MaxAttempts = 2
    Lists = {"e1"}
    MaxFaults = 1
    MaxStops = 1
INVARIANTS
    RecordsAreSound
PROPERTIES
    ImplementsPort
    SealsUnlessRecordingFailed
CHECK_DEADLOCK FALSE
