SPECIFICATION FairSpec
CONSTANTS
    NStages = 2
    NItems = 2
    SlotLimit = 2
    MaxRuns = 2
    Modes <- CampaignOnly
INVARIANTS
    OneCommitPerStage
    InputsAreCommitted
    TerminalMastersOwnLineage
    SelectionNeverRefused
PROPERTIES
    SlotsOutlastWork
    ImplementsLedger
CHECK_DEADLOCK FALSE
