SPECIFICATION FairSpec
CONSTANTS
    NJobs = 1
    MaxRuns = 3
    MaxPauses = 1
    MaxFaults = 2
    Faults = {"controller", "launch", "supervisor", "child", "spawn"}
INVARIANTS
    JobsAreSound
PROPERTIES
    QuietOnReturn
    ReturnsUnlessStranded
CHECK_DEADLOCK FALSE
