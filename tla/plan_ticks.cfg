SPECIFICATION FairPlan
CONSTANTS
    NItems = 2
    NStages = 2
    TailNum = 1
    TailDen = 2
INVARIANTS
    PlanIsSound
PROPERTIES
    CampaignCompletes
