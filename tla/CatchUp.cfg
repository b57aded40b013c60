SPECIFICATION FairSpec
CONSTANTS
    MaxTrades = 7
    Stamps <- MCStamps
    PageSize = 2
    PagesPerCycle = 2
    OffsetLimit = 3
    Checkpointed = TRUE
    MaxFailures = 2
    MaxQuarantined = 1
INVARIANTS
    TypeOK
    NothingMissing
PROPERTIES
    AnchorMovesOverKept
    EventuallyConnected
