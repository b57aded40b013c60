SPECIFICATION Spec
CONSTANTS
    MaxTrades = 7
    Stamps <- MCStamps
    PageSize = 2
    PagesPerCycle = 2
    OffsetLimit = 3
    Checkpointed = FALSE
    MaxFailures = 2
    MaxQuarantined = 1
INVARIANT
    NothingMissing
