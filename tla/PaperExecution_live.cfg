SPECIFICATION FairSpec
CONSTANTS
    w1 = w1
    m1 = m1
    Wallets = {w1}
    Markets = {m1}
    Trades <- RoundTrip
    WalletOf <- OneWallet
    MarketOf <- OneMarket
    Buys = {1}
    MaxAge = 1
    ReviewDelay = 1
    DetectLimit = 1
    BatchSize = 1
    MaxFill = 1
    LastTrade = 1
    LastPage = 2
    MaxTime = 3
    MaxCrashes = 1
PROPERTIES
    EverySignalDecided
    ResolvedIsPaid
