SPECIFICATION Spec
CONSTANTS
    w1 = w1
    m1 = m1
    Wallets = {w1}
    Markets = {m1}
    Trades <- Reentry
    WalletOf <- OneWallet
    MarketOf <- OneMarket
    Buys <- Entries
    MaxAge = 2
    ReviewDelay = 1
    DetectLimit = 2
    BatchSize = 2
    MaxFill = 2
    LastTrade = 2
    LastPage = 2
    MaxTime = 4
    MaxCrashes = 1
INVARIANTS
    TypeOK
    SettledStaysFlat
PROPERTIES
    CopiedUnderItsApproval
    StopEarlyHidesNothing
    ImplementsCopyBook
