SPECIFICATION FairSpec
CONSTANTS
    backend = backend
    bot = bot
    tail = tail
    Workers = {backend, bot}
    Sessions = {tail}
    Process <- MCProcess
    MaxTx = 2
    MaxTrades = 2
    MaxMishaps = 1
INVARIANTS
    TypeOK
    ResolutionIsProof
    FenceCutsEpoch
    SealedPopulationExact
    SealedDecisions
PROPERTIES
    RecordedDecisionsStand
    DenialNeedsCause
    EpochSpec
    EpochSealed
CHECK_DEADLOCK FALSE
