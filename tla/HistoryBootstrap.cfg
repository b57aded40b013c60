SPECIFICATION FairSpec
CONSTANTS
    bot = bot
    api = api
    m1 = m1
    m2 = m2
    Markets = {m1, m2}
    Processes = {bot, api}
    Bot = bot
    MaxChecks = 1
    MaxDelay = 2
    RetryAfter = {2}
    Gamma0 <- MCGamma
    MaxMishaps = 1
    MaxTrades = 3
    BatchSize = 1
    Listing0 = 2
    Stamp <- MCStamp
    MarketOf <- MCMarketOf
    PageSize = 2
    OffsetLimit = 2
    MaxPages = 2
    PagesPerRun = 1
    MaxRows = 3
    MaxRequests = 3
    MaxAsked = 1
    MinTrades = 3
    MinSettled = 2
    MatureStamp = 1
    MaxScorings = 1
INVARIANTS
    TypeOK
    CheckpointCovered
    BudgetHolds
    SettledIsResolved
PROPERTIES
    ResolvedIsSettled
    EventuallyScored
CHECK_DEADLOCK FALSE
