SPECIFICATION FairDail
CONSTANTS
    PromptModes = {"native", "rc_both"}
    GroupMembers <- TwoGroups
    Part = 1
    Whole = 4
    MaxReruns = 1
    MaxMishaps = 1
INVARIANTS
    IndexIsSound
    WaitsForSomething
PROPERTIES
    CampaignSettles
CHECK_DEADLOCK FALSE
